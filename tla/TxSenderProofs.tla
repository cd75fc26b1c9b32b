--------------------------- MODULE TxSenderProofs ---------------------------
(***************************************************************************)
(* Proofs about TxSender, for any calls, base fees, network and number of  *)
(* polls.  All rests on one invariant: every transaction of a call ever    *)
(* broadcast bears the nonce its process holds, and the chain takes each   *)
(* nonce once.                                                             *)
(***************************************************************************)
EXTENDS TxSender, TLAPS

\* A process that has not sent has nothing on the way.
Unsent == {"new", "prepared"}

TxOfItsCall == \A c \in Calls : tx[c].call = c
NetworkNonces == \A t \in network : t.nonce = tx[t.call].nonce /\ t.nonce >= nextNonce /\ phase[t.call] \notin Unsent
MinedNonces == \A m \in mined : m.tx.nonce = tx[m.tx.call].nonce /\ m.tx.nonce < nextNonce /\ phase[m.tx.call] \notin Unsent
OnePerNonce == \A m, k \in mined : m.tx.nonce = k.tx.nonce => m = k
IInv == TypeOK /\ TxOfItsCall /\ NetworkNonces /\ MinedNonces /\ OnePerNonce /\ ReturnedMeansExecuted

-----------------------------------------------------------------------------
LEMMA InitIInv == ASSUME FeeAssumption, Init PROVE IInv
  BY DEF FeeAssumption, Init, IInv, TypeOK, TxOfItsCall, NetworkNonces, MinedNonces, OnePerNonce,
         ReturnedMeansExecuted, Txs, Options, Phases

\* The suggested fees are numbers.
LEMMA FeesAreNat ==
  ASSUME FeeAssumption, baseFee \in BaseFees
  PROVE  TxParams(baseFee).maxFee \in Nat /\ TxParams(baseFee).priorityFee \in Nat
  BY DEF FeeAssumption, TxParams, FeeData, Larger

\* A replacement is for the same call, under the same nonce.
LEMMA ReplacementKeeps ==
  ASSUME FeeAssumption, baseFee \in BaseFees, NEW t \in Txs
  PROVE  Replacement(t) \in Txs /\ Replacement(t).call = t.call /\ Replacement(t).nonce = t.nonce
<1> DEFINE f == FeeData(baseFee)
           p == IF 2 * t.maxFee < f.maxFee THEN 2 * f.maxFee ELSE 2 * t.maxFee
           q == IF t.priorityFee < f.baseFee THEN 2 * f.baseFee ELSE t.priorityFee
<1>1. f.maxFee \in Nat /\ f.baseFee \in Nat
  BY DEF FeeAssumption, FeeData
<1>2. t.maxFee \in Nat /\ t.priorityFee \in Nat
  BY DEF Txs
<1>3. p \in Nat /\ q \in Nat
  BY <1>1, <1>2
<1>4. Replacement(t) = [t EXCEPT !.maxFee = p, !.priorityFee = q]
  BY DEF Replacement, Txs
<1> HIDE DEF p, q
<1>5. QED
  BY <1>3, <1>4 DEF Txs

-----------------------------------------------------------------------------
(* Steps of a process that leave the chain and the transactions alone. *)

\* Only the phase of c and its count of polls change, and "returned" is told
\* of a call executed, or to a script that wants no errors.
LEMMA QuietStepKeeps ==
  ASSUME IInv, NEW c \in Calls, phase[c] \notin Unsent,
         NEW p \in Phases \ Unsent, Goto(c, p),
         p = "returned" => Succeeded(tx[c]) \/ ~opts[c].stop,
         count' \in [Calls -> Nat],
         UNCHANGED <<chainVars, opts, tx>>
  PROVE  IInv'
<1> USE DEF IInv
<1>1. phase' = [phase EXCEPT ![c] = p] /\ phase' \in [Calls -> Phases]
  BY DEF Goto, TypeOK
<1>2. TypeOK'
  BY <1>1 DEF TypeOK, chainVars
<1>3. TxOfItsCall'
  BY DEF TxOfItsCall
<1>4. \A d \in Calls : phase[d] \notin Unsent => phase'[d] \notin Unsent
  BY <1>1 DEF TypeOK
<1>5. NetworkNonces'
  BY <1>4 DEF NetworkNonces, chainVars, TypeOK, Txs
<1>6. MinedNonces'
  BY <1>4 DEF MinedNonces, chainVars, TypeOK, Txs
<1>7. OnePerNonce'
  BY DEF OnePerNonce, chainVars
<1>8. ReturnedMeansExecuted'
  <2> SUFFICES ASSUME NEW d \in Calls, phase'[d] = "returned", opts'[d].stop
               PROVE  \E m \in mined' : m.tx.call = d /\ m.ok
    BY DEF ReturnedMeansExecuted
  <2>1. CASE d = c
    <3>1. Succeeded(tx[c])
      BY <2>1, <1>1 DEF TypeOK
    <3>2. tx[c].call = c
      BY DEF TxOfItsCall
    <3>3. QED
      BY <2>1, <3>1, <3>2 DEF Succeeded, chainVars
  <2>2. CASE d # c
    BY <2>2, <1>1 DEF ReturnedMeansExecuted, chainVars, TypeOK
  <2>3. QED
    BY <2>1, <2>2
<1>9. QED
  BY <1>2, <1>3, <1>5, <1>6, <1>7, <1>8

\* An error leaves a process thrown, or returned if it wants no errors.
LEMMA FailKeeps ==
  ASSUME IInv, NEW c \in Calls, phase[c] \notin Unsent, Fail(c),
         count' \in [Calls -> Nat], UNCHANGED <<chainVars, opts, tx>>
  PROVE  IInv'
<1>1. CASE opts[c].speedUp /\ ~opts[c].stop
  BY <1>1, QuietStepKeeps, Goto(c, "returned") DEF Fail, Phases, Unsent
<1>2. CASE ~(opts[c].speedUp /\ ~opts[c].stop)
  BY <1>2, QuietStepKeeps, Goto(c, "thrown") DEF Fail, Phases, Unsent
<1>3. QED
  BY <1>1, <1>2

-----------------------------------------------------------------------------
(* The steps that sign a transaction. *)

LEMMA PrepareKeeps ==
  ASSUME FeeAssumption, IInv, NEW c \in Calls, NEW o \in Options, Prepare(c, o)
  PROVE  IInv'
<1> USE DEF IInv
<1>1. PICK n \in PendingNonces :
        tx' = [tx EXCEPT ![c] = [call |-> c, nonce |-> n, maxFee |-> TxParams(baseFee).maxFee,
                                 priorityFee |-> TxParams(baseFee).priorityFee]]
  BY DEF Prepare
<1>2. n \in Nat
  BY DEF PendingNonces, TypeOK, Txs
<1> DEFINE t == [call |-> c, nonce |-> n, maxFee |-> TxParams(baseFee).maxFee, priorityFee |-> TxParams(baseFee).priorityFee]
<1>3. t \in Txs /\ t.call = c
  BY <1>2, FeesAreNat DEF TypeOK, Txs
<1> HIDE DEF t
<1>4. tx' = [tx EXCEPT ![c] = t]
  BY <1>1 DEF t
<1>5. /\ phase[c] = "new" /\ phase' = [phase EXCEPT ![c] = "prepared"]
      /\ opts' = [opts EXCEPT ![c] = o]
      /\ UNCHANGED <<chainVars, count>>
  BY DEF Prepare, Goto
<1>6. TypeOK'
  BY <1>3, <1>4, <1>5 DEF TypeOK, Phases, chainVars
<1>7. TxOfItsCall'
  BY <1>3, <1>4 DEF TxOfItsCall, TypeOK
<1>8. NetworkNonces'
  BY <1>4, <1>5 DEF NetworkNonces, TypeOK, Txs, chainVars, Unsent
<1>9. MinedNonces'
  BY <1>4, <1>5 DEF MinedNonces, TypeOK, Txs, chainVars, Unsent
<1>10. OnePerNonce'
  BY <1>5 DEF OnePerNonce, chainVars
<1>11. ReturnedMeansExecuted'
  BY <1>5 DEF ReturnedMeansExecuted, chainVars, TypeOK
<1>12. QED
  BY <1>6, <1>7, <1>8, <1>9, <1>10, <1>11

\* A signed transaction is put on the way, as an original or a replacement.
LEMMA BroadcastKeeps ==
  ASSUME IInv, NEW c \in Calls, phase[c] \notin {"returned", "thrown"},
         Accepts(tx[c]), Broadcast(tx[c]),
         NEW p \in Phases \ (Unsent \cup {"returned"}), Goto(c, p),
         UNCHANGED <<opts, tx, count>>
  PROVE  IInv'
<1> USE DEF IInv
<1> DEFINE t == tx[c]
<1>1. t \in Txs /\ t.call = c /\ t.nonce >= nextNonce
  BY DEF TypeOK, TxOfItsCall, Accepts
<1>2. /\ network' = network \cup {t} /\ node' = {old \in node : old.nonce # t.nonce} \cup {t}
      /\ UNCHANGED <<baseFee, nextNonce, mined>>
  BY DEF Broadcast
<1>3. phase' = [phase EXCEPT ![c] = p]
  BY DEF Goto
<1>4. TypeOK'
  BY <1>1, <1>2, <1>3 DEF TypeOK
<1>5. TxOfItsCall'
  BY DEF TxOfItsCall
<1>6. \A d \in Calls : phase[d] \notin Unsent => phase'[d] \notin Unsent
  BY <1>3 DEF TypeOK
<1>7. phase'[c] \notin Unsent
  BY <1>3 DEF TypeOK
<1>8. NetworkNonces'
  BY <1>1, <1>2, <1>6, <1>7 DEF NetworkNonces, TypeOK, Txs
<1>9. MinedNonces'
  BY <1>2, <1>6 DEF MinedNonces, TypeOK, Txs
<1>10. OnePerNonce'
  BY <1>2 DEF OnePerNonce
<1>11. ReturnedMeansExecuted'
  BY <1>2, <1>3 DEF ReturnedMeansExecuted, TypeOK
<1>12. QED
  BY <1>4, <1>5, <1>8, <1>9, <1>10, <1>11

\* SpeedUp signs the replacement under the nonce of the original.
LEMMA ReplaceKeeps ==
  ASSUME FeeAssumption, IInv, NEW c \in Calls, phase[c] = "speedup",
         tx' = [tx EXCEPT ![c] = Replacement(@)], Goto(c, "resend"),
         UNCHANGED <<chainVars, opts, count>>
  PROVE  IInv'
<1> USE DEF IInv
<1> DEFINE t == Replacement(tx[c])
<1>1. tx[c] \in Txs /\ tx[c].call = c
  BY DEF TypeOK, TxOfItsCall
<1>2. t \in Txs /\ t.call = c /\ t.nonce = tx[c].nonce
  BY <1>1, ReplacementKeeps DEF TypeOK
<1> HIDE DEF t
<1>3. tx' = [tx EXCEPT ![c] = t]
  BY DEF t, TypeOK
<1>4. phase' = [phase EXCEPT ![c] = "resend"]
  BY DEF Goto
<1>5. TypeOK'
  BY <1>2, <1>3, <1>4 DEF TypeOK, Phases, chainVars
<1>6. TxOfItsCall'
  BY <1>2, <1>3 DEF TxOfItsCall, TypeOK
<1>7. \A d \in Calls : tx'[d].nonce = tx[d].nonce
  BY <1>2, <1>3 DEF TypeOK
<1>8. \A d \in Calls : phase[d] \notin Unsent => phase'[d] \notin Unsent
  BY <1>4 DEF TypeOK, Unsent
<1>9. NetworkNonces'
  BY <1>7, <1>8 DEF NetworkNonces, TypeOK, Txs, chainVars
<1>10. MinedNonces'
  BY <1>7, <1>8 DEF MinedNonces, TypeOK, Txs, chainVars
<1>11. OnePerNonce'
  BY DEF OnePerNonce, chainVars
<1>12. ReturnedMeansExecuted'
  BY <1>4 DEF ReturnedMeansExecuted, chainVars, TypeOK
<1>13. QED
  BY <1>5, <1>6, <1>9, <1>10, <1>11, <1>12

-----------------------------------------------------------------------------
(* An error before anything was sent. *)

LEMMA UnsentFailKeeps ==
  ASSUME IInv, NEW c \in Calls, phase[c] = "prepared", Fail(c), UNCHANGED <<chainVars, opts, tx, count>>
  PROVE  IInv'
<1> USE DEF IInv
<1>1. PICK p \in {"returned", "thrown"} : phase' = [phase EXCEPT ![c] = p] /\ (p = "returned" => ~opts[c].stop)
  BY DEF Fail, Goto
<1>2. TypeOK'
  BY <1>1 DEF TypeOK, Phases, chainVars
<1>3. \A d \in Calls : phase[d] \notin Unsent => phase'[d] \notin Unsent
  BY <1>1 DEF TypeOK, Unsent
<1>4. NetworkNonces' /\ MinedNonces'
  BY <1>3 DEF NetworkNonces, MinedNonces, TypeOK, Txs, chainVars
<1>5. TxOfItsCall' /\ OnePerNonce' /\ ReturnedMeansExecuted'
  BY <1>1 DEF TxOfItsCall, OnePerNonce, ReturnedMeansExecuted, chainVars, TypeOK
<1>6. QED
  BY <1>2, <1>4, <1>5

-----------------------------------------------------------------------------
(* The steps of a process, the chain and the node. *)

LEMMA ProcessKeeps ==
  ASSUME FeeAssumption, IInv, NEW c \in Calls, Process(c)
  PROVE  IInv'
<1>1. ASSUME NEW o \in Options, Prepare(c, o) PROVE IInv'
  BY <1>1, PrepareKeeps
<1>2. CASE Send(c)
  <2>0. phase[c] = "prepared" /\ UNCHANGED <<opts, tx, count>>
    BY <1>2 DEF Send
  <2>1. CASE Accepts(tx[c]) /\ Broadcast(tx[c]) /\ Goto(c, "polling")
    BY <2>0, <2>1, BroadcastKeeps DEF Phases, Unsent
  <2>2. CASE Fail(c) /\ UNCHANGED chainVars
    BY <2>0, <2>2, UnsentFailKeeps
  <2>3. QED
    BY <1>2, <2>1, <2>2 DEF Send
<1>3. CASE Wait(c)
  <2>1. phase[c] \notin Unsent /\ UNCHANGED <<chainVars, opts, tx, count>> /\ count' \in [Calls -> Nat]
    BY <1>3 DEF Wait, Unsent, IInv, TypeOK
  <2>2. CASE Succeeded(tx[c]) /\ Goto(c, "returned")
    BY <2>1, <2>2, QuietStepKeeps DEF Phases, Unsent
  <2>3. CASE Fail(c)
    BY <2>1, <2>3, FailKeeps
  <2>4. QED
    BY <1>3, <2>2, <2>3 DEF Wait
<1>4. CASE Poll(c)
  <2>1. phase[c] \notin Unsent /\ UNCHANGED <<chainVars, opts, tx>> /\ count' \in [Calls -> Nat]
    BY <1>4 DEF Poll, Unsent, IInv, TypeOK
  <2>2. CASE Goto(c, "confirming")
    BY <2>1, <2>2, QuietStepKeeps DEF Phases, Unsent
  <2>3. CASE Goto(c, "speedup")
    BY <2>1, <2>3, QuietStepKeeps DEF Phases, Unsent
  <2>4. CASE UNCHANGED phase
    BY <2>1, <2>4 DEF IInv, TypeOK, TxOfItsCall, NetworkNonces, MinedNonces, OnePerNonce, ReturnedMeansExecuted, chainVars
  <2>5. QED
    BY <1>4, <2>2, <2>3, <2>4 DEF Poll
<1>5. CASE Confirm(c)
  <2>1. phase[c] \notin Unsent /\ UNCHANGED <<chainVars, opts, tx, count>> /\ count' \in [Calls -> Nat]
    BY <1>5 DEF Confirm, Unsent, IInv, TypeOK
  <2>2. CASE Succeeded(tx[c]) /\ Goto(c, "returned")
    BY <2>1, <2>2, QuietStepKeeps DEF Phases, Unsent
  <2>3. CASE Fail(c)
    BY <2>1, <2>3, FailKeeps
  <2>4. QED
    BY <1>5, <2>2, <2>3 DEF Confirm
<1>6. CASE SpeedUp(c)
  <2>1. phase[c] = "speedup" /\ UNCHANGED <<chainVars, opts, count>> /\ count' \in [Calls -> Nat]
    BY <1>6 DEF SpeedUp, IInv, TypeOK
  <2>2. CASE tx' = [tx EXCEPT ![c] = Replacement(@)] /\ Goto(c, "resend")
    BY <2>1, <2>2, ReplaceKeeps
  <2>3. CASE Fail(c) /\ UNCHANGED tx
    BY <2>1, <2>3, FailKeeps DEF Unsent
  <2>4. QED
    BY <1>6, <2>2, <2>3 DEF SpeedUp
<1>7. CASE Resend(c)
  <2>1. phase[c] = "resend" /\ UNCHANGED <<opts, tx, count>> /\ count' \in [Calls -> Nat]
    BY <1>7 DEF Resend, IInv, TypeOK
  <2>2. CASE Accepts(tx[c]) /\ Broadcast(tx[c]) /\ Goto(c, "awaiting")
    BY <2>1, <2>2, BroadcastKeeps DEF Phases, Unsent
  <2>3. CASE Fail(c) /\ UNCHANGED chainVars
    BY <2>1, <2>3, FailKeeps DEF Unsent
  <2>4. QED
    BY <1>7, <2>2, <2>3 DEF Resend
<1>8. CASE AwaitReceipt(c)
  <2>1. phase[c] \notin Unsent /\ UNCHANGED <<chainVars, opts, tx>> /\ count' \in [Calls -> Nat]
    BY <1>8 DEF AwaitReceipt, Unsent, IInv, TypeOK
  <2>2. CASE Goto(c, "polling")
    BY <2>1, <2>2, QuietStepKeeps DEF Phases, Unsent
  <2>3. CASE Fail(c)
    BY <2>1, <2>3, FailKeeps
  <2>4. QED
    BY <1>8, <2>2, <2>3 DEF AwaitReceipt
<1>9. QED
  BY <1>1, <1>2, <1>3, <1>4, <1>5, <1>6, <1>7, <1>8 DEF Process

\* The chain takes the transaction whose turn it is, and no other of its nonce.
LEMMA MineKeeps ==
  ASSUME IInv, NEW t \in network, Mine(t)
  PROVE  IInv'
<1> USE DEF IInv
<1>1. PICK ok \in BOOLEAN : mined' = mined \cup {[tx |-> t, ok |-> ok]}
  BY DEF Mine
<1> DEFINE new == [tx |-> t, ok |-> ok]
<1>2. /\ t.nonce = nextNonce /\ nextNonce' = nextNonce + 1
      /\ network' = {u \in network : u.nonce > nextNonce} /\ node' = {u \in node : u.nonce > nextNonce}
      /\ UNCHANGED <<baseFee, phase, opts, tx, count>>
  BY DEF Mine
<1>3. t \in Txs /\ t.nonce = tx[t.call].nonce /\ phase[t.call] \notin Unsent /\ nextNonce \in Nat
  BY DEF TypeOK, NetworkNonces
<1>4. TypeOK'
  BY <1>1, <1>2, <1>3 DEF TypeOK
<1>5. TxOfItsCall'
  BY <1>2 DEF TxOfItsCall
<1>6. NetworkNonces'
  BY <1>2, <1>3 DEF NetworkNonces, TypeOK, Txs
<1>7. \A m \in mined : m.tx \in Txs
  BY DEF TypeOK
<1>8. MinedNonces'
  <2>1. \A m \in mined : m.tx.nonce < nextNonce + 1
    BY <1>3, <1>7 DEF MinedNonces, Txs
  <2>2. new.tx.nonce < nextNonce + 1 /\ new.tx = t
    BY <1>2, <1>3
  <2>3. QED
    BY <1>1, <1>2, <1>3, <2>1, <2>2 DEF MinedNonces
<1>9. OnePerNonce'
  <2>1. \A m \in mined : m.tx.nonce # new.tx.nonce
    BY <1>2, <1>3, <1>7 DEF MinedNonces, Txs
  <2>2. QED
    BY <1>1, <2>1 DEF OnePerNonce
<1>10. ReturnedMeansExecuted'
  BY <1>1, <1>2 DEF ReturnedMeansExecuted
<1>11. QED
  BY <1>4, <1>5, <1>6, <1>8, <1>9, <1>10

LEMMA NextKeeps ==
  ASSUME FeeAssumption, IInv, [Next]_vars
  PROVE  IInv'
<1> USE DEF IInv
<1>1. ASSUME NEW c \in Calls, Process(c) PROVE IInv'
  BY <1>1, ProcessKeeps
<1>2. ASSUME NEW t \in network, Mine(t) PROVE IInv'
  BY <1>2, MineKeeps
<1>3. ASSUME NEW t \in node, Drop(t) PROVE IInv'
  BY <1>3 DEF Drop, TypeOK, TxOfItsCall, NetworkNonces, MinedNonces, OnePerNonce, ReturnedMeansExecuted
<1>4. CASE MarketMove
  BY <1>4 DEF MarketMove, TypeOK, TxOfItsCall, NetworkNonces, MinedNonces, OnePerNonce, ReturnedMeansExecuted
<1>5. CASE UNCHANGED vars
  BY <1>5 DEF vars, chainVars, TypeOK, TxOfItsCall, NetworkNonces, MinedNonces, OnePerNonce, ReturnedMeansExecuted
<1>6. QED
  BY <1>1, <1>2, <1>3, <1>4, <1>5 DEF Next

-----------------------------------------------------------------------------
(* Theorems *)

LEMMA Invariance == ASSUME FeeAssumption PROVE Spec => []IInv
<1>1. Init => IInv
  BY InitIInv
<1>2. IInv /\ [Next]_vars => IInv'
  BY NextKeeps
<1>3. QED
  BY <1>1, <1>2, PTL DEF Spec

\* The variables keep their types; what the node knows is on the way.
THEOREM TypeCorrect == ASSUME FeeAssumption PROVE Spec => []TypeOK
<1>1. IInv => TypeOK
  BY DEF IInv
<1>2. QED
  BY <1>1, Invariance, PTL

\* Two mined transactions of one call bear the nonce its process holds.
LEMMA OnceOfNonces == ASSUME IInv PROVE ExecutedAtMostOnce
  BY DEF IInv, OnePerNonce, MinedNonces, ExecutedAtMostOnce

\* However often RunHelper replaces the transaction of a call, and whichever
\* of them the nodes keep or forget, the chain executes the call at most once.
THEOREM Once == ASSUME FeeAssumption PROVE Spec => []ExecutedAtMostOnce
<1>1. IInv => ExecutedAtMostOnce
  BY OnceOfNonces
<1>2. QED
  BY <1>1, Invariance, PTL

\* With stopOnError, RunHelper returns only of calls executed and not reverted.
THEOREM ReturnedIsExecuted == ASSUME FeeAssumption PROVE Spec => []ReturnedMeansExecuted
<1>1. IInv => ReturnedMeansExecuted
  BY DEF IInv
<1>2. QED
  BY <1>1, Invariance, PTL

-----------------------------------------------------------------------------
(* RunHelper implements CallOnce: a mined transaction is an Execute of its *)
(* call, an end of a process is a Tell, all other steps stutter.           *)

AbstractOutcome == [c \in Calls |-> Outcome(c)]
AbstractTold == [c \in Calls |-> Told(c)]

LEMMA InitRefines == ASSUME Init PROVE Abstract!Init
  BY DEF Init, Abstract!Init, Outcome, Told

\* A step that mines nothing and ends nothing is a stutter.
LEMMA StutterRefines ==
  ASSUME mined' = mined, \A c \in Calls : Told(c)' = Told(c)
  PROVE  UNCHANGED <<AbstractOutcome, AbstractTold>>
  BY DEF AbstractOutcome, AbstractTold, Outcome

LEMMA MineRefines ==
  ASSUME IInv, NEW t \in network, Mine(t)
  PROVE  Abstract!Execute(t.call)
<1>1. PICK ok \in BOOLEAN : mined' = mined \cup {[tx |-> t, ok |-> ok]}
  BY DEF Mine
<1>2. t.call \in Calls /\ t.nonce = tx[t.call].nonce /\ t.nonce >= nextNonce /\ t.nonce \in Nat /\ nextNonce \in Nat
  BY DEF IInv, TypeOK, NetworkNonces, Txs
<1>3. \A m \in mined : m.tx.call # t.call
  BY <1>2 DEF IInv, TypeOK, MinedNonces, Txs
<1>4. Outcome(t.call) = "none"
  BY <1>3 DEF Outcome
<1> DEFINE new == [tx |-> t, ok |-> ok]
<1>a. new.tx = t /\ new.ok = ok /\ mined' = mined \cup {new}
  BY <1>1
<1> HIDE DEF new
<1>5. Outcome(t.call)' = IF ok THEN "ok" ELSE "reverted"
  <2>1. CASE ok
    BY <1>3, <1>a, <2>1, Zenon DEF Outcome
  <2>2. CASE ~ok
    BY <1>3, <1>a, <2>2, Zenon DEF Outcome
  <2>3. QED
    BY <2>1, <2>2
<1>6. \A c \in Calls : c # t.call => Outcome(c)' = Outcome(c)
  BY <1>a DEF Outcome
<1>7. AbstractTold' = AbstractTold
  BY DEF Mine, AbstractTold, Told
<1>8. AbstractOutcome' = [AbstractOutcome EXCEPT ![t.call] = IF ok THEN "ok" ELSE "reverted"]
  BY <1>2, <1>5, <1>6 DEF AbstractOutcome
<1>9. AbstractOutcome[t.call] = "none"
  BY <1>2, <1>4 DEF AbstractOutcome
<1>10. QED
  BY <1>7, <1>8, <1>9 DEF Abstract!Execute, AbstractOutcome, AbstractTold

\* A process that goes on, or ends, with the chain as it is.
LEMMA PhaseRefines ==
  ASSUME IInv, IInv', NEW c \in Calls, phase[c] \notin Ended,
         NEW p \in Phases, Goto(c, p), UNCHANGED <<mined, opts>>
  PROVE  Abstract!Tell(c) \/ UNCHANGED <<AbstractOutcome, AbstractTold>>
<1>1. phase' = [phase EXCEPT ![c] = p] /\ phase \in [Calls -> Phases]
  BY DEF Goto, IInv, TypeOK
<1>2. \A d \in Calls : d # c => Told(d)' = Told(d)
  BY <1>1 DEF Told
<1>3. Told(c) = "none"
  BY DEF Told, Ended
<1>4. AbstractOutcome' = AbstractOutcome
  BY DEF AbstractOutcome, Outcome
<1>5. CASE p \notin Ended
  <2>1. Told(c)' = "none"
    BY <1>1, <1>5 DEF Told, Ended
  <2>2. QED
    BY <1>2, <1>3, <1>4, <2>1 DEF AbstractTold
<1>6. CASE p \in Ended
  <2>1. phase'[c] = p
    BY <1>1
  <2>2. Told(c)' \in {"returned", "thrown", "silent"}
    BY <1>6, <2>1 DEF Told, Ended
  <2>3. Told(c)' = "returned" => Outcome(c) = "ok"
    <3> SUFFICES ASSUME Told(c)' = "returned" PROVE Outcome(c) = "ok"
      OBVIOUS
    <3>1. phase'[c] = "returned" /\ opts'[c].stop
      BY <1>6, <2>1 DEF Told, Ended
    <3>2. \E m \in mined : m.tx.call = c /\ m.ok
      BY <3>1 DEF IInv, ReturnedMeansExecuted
    <3>3. QED
      BY <3>2 DEF Outcome
  <2>4. AbstractTold' = [AbstractTold EXCEPT ![c] = Told(c)']
    BY <1>2 DEF AbstractTold
  <2>5. AbstractTold[c] = "none" /\ AbstractOutcome[c] = Outcome(c)
    BY <1>3 DEF AbstractTold, AbstractOutcome
  <2>6. QED
    BY <1>4, <2>2, <2>3, <2>4, <2>5 DEF Abstract!Tell, AbstractTold, AbstractOutcome
<1>7. QED
  BY <1>5, <1>6

\* Each step of a process is a Goto, but for reading the nonce, which tells
\* nothing, and a poll without a receipt.
LEMMA ProcessRefines ==
  ASSUME IInv, IInv', NEW c \in Calls, Process(c)
  PROVE  Abstract!Tell(c) \/ UNCHANGED <<AbstractOutcome, AbstractTold>>
<1>1. ASSUME NEW o \in Options, Prepare(c, o) PROVE UNCHANGED <<AbstractOutcome, AbstractTold>>
  <2>1. /\ phase[c] = "new" /\ phase' = [phase EXCEPT ![c] = "prepared"]
        /\ opts' = [opts EXCEPT ![c] = o] /\ mined' = mined
    BY <1>1 DEF Prepare, Goto, chainVars
  <2>2. \A d \in Calls : Told(d)' = Told(d)
    <3> SUFFICES ASSUME NEW d \in Calls PROVE Told(d)' = Told(d)
      OBVIOUS
    <3>1. CASE d = c
      BY <2>1, <3>1 DEF Told, IInv, TypeOK
    <3>2. CASE d # c
      <4>1. phase'[d] = phase[d] /\ opts'[d] = opts[d]
        BY <2>1, <3>2 DEF IInv, TypeOK
      <4>2. QED
        BY <4>1 DEF Told
    <3>3. QED
      BY <3>1, <3>2
  <2>3. QED
    BY <2>1, <2>2, StutterRefines
<1>2. ASSUME Send(c) \/ Wait(c) \/ Poll(c) \/ Confirm(c) \/ SpeedUp(c) \/ Resend(c) \/ AwaitReceipt(c)
      PROVE  Abstract!Tell(c) \/ UNCHANGED <<AbstractOutcome, AbstractTold>>
  <2>1. phase[c] \notin Ended /\ UNCHANGED <<mined, opts>>
    BY <1>2 DEF Send, Wait, Poll, Confirm, SpeedUp, Resend, AwaitReceipt, Broadcast, Ended, chainVars
  <2>2. UNCHANGED phase \/ \E p \in Phases : Goto(c, p)
    BY <1>2 DEF Send, Wait, Poll, Confirm, SpeedUp, Resend, AwaitReceipt, Fail, Goto, Phases
  <2>3. CASE UNCHANGED phase
    <3>1. \A d \in Calls : Told(d)' = Told(d)
      BY <2>1, <2>3 DEF Told
    <3>2. QED
      BY <2>1, <3>1, StutterRefines
  <2>4. CASE \E p \in Phases : Goto(c, p)
    BY <2>1, <2>4, PhaseRefines
  <2>5. QED
    BY <2>2, <2>3, <2>4
<1>3. QED
  BY <1>1, <1>2 DEF Process

LEMMA NextRefines ==
  ASSUME IInv, IInv', [Next]_vars
  PROVE  [Abstract!Next]_<<AbstractOutcome, AbstractTold>>
<1>1. ASSUME NEW c \in Calls, Process(c) PROVE [Abstract!Next]_<<AbstractOutcome, AbstractTold>>
  BY <1>1, ProcessRefines DEF Abstract!Next
<1>2. ASSUME NEW t \in network, Mine(t) PROVE [Abstract!Next]_<<AbstractOutcome, AbstractTold>>
  <2>1. t.call \in Calls
    BY DEF IInv, TypeOK, Txs
  <2>2. QED
    BY <1>2, <2>1, MineRefines DEF Abstract!Next
<1>3. CASE (\E t \in node : Drop(t)) \/ MarketMove \/ UNCHANGED vars
  <2>1. mined' = mined /\ phase' = phase /\ opts' = opts
    BY <1>3 DEF Drop, MarketMove, vars, chainVars
  <2>2. \A c \in Calls : Told(c)' = Told(c)
    BY <2>1 DEF Told
  <2>3. QED
    BY <2>1, <2>2, StutterRefines
<1>4. QED
  BY <1>1, <1>2, <1>3 DEF Next

\* RunHelper, with its speed-ups and errors, does what CallOnce promises: it
\* executes a call at most once and says "returned" of executed calls only.
THEOREM Refinement == ASSUME FeeAssumption PROVE Spec => ImplementsCallOnce
<1>1. Init => Abstract!Init
  BY InitRefines
<1>2. IInv /\ IInv' /\ [Next]_vars => [Abstract!Next]_<<AbstractOutcome, AbstractTold>>
  BY NextRefines
<1>3. QED
  BY <1>1, <1>2, Invariance, PTL DEF Spec, ImplementsCallOnce, Abstract!Spec, AbstractOutcome, AbstractTold
=============================================================================
