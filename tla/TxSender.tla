------------------------------ MODULE TxSender ------------------------------
(***************************************************************************)
(* How the scripts get a call onto the chain: RunHelper.runAndWait and     *)
(* RunHelper.runAndWaitAndSpeedUp, with the replacements of SpeedUp.       *)
(*                                                                         *)
(* Each call is a process of its own: bots and manual scripts sign with    *)
(* the same key and know nothing of one another.  A transaction is its     *)
(* call, its nonce and its two fees.  Prices of gas are in small units.    *)
(***************************************************************************)
EXTENDS Integers

CONSTANTS
  Calls,       \* the calls the scripts make, one process each
  BaseFees,    \* base fees the market may ask
  ChainId,     \* the network of the scripts
  WaitCycles   \* polls without a receipt before a speed-up, SpeedUp.waitCycles()

FeeAssumption ==
  /\ BaseFees \subseteq Nat \ {0}
  /\ WaitCycles \in Nat
  /\ ChainId \in Nat

VARIABLES
  baseFee,     \* asked by the chain now
  nextNonce,   \* of the account, as the chain counts it
  mined,       \* transactions on the chain, with whether they succeeded
  network,     \* transactions some validator may still include
  node,        \* those of them that the scripts' RPC node knows of
  phase,       \* call |-> where its process is
  opts,        \* call |-> [speedUp, stop]: which function, and stopOnError
  tx,          \* call |-> the transaction (hash) its process waits for
  count        \* call |-> polls without a receipt

chainVars == <<baseFee, nextNonce, mined, network, node>>
vars == <<chainVars, phase, opts, tx, count>>

Options == [speedUp : BOOLEAN, stop : BOOLEAN]
Txs == [call : Calls, nonce : Nat, maxFee : Nat, priorityFee : Nat]
Phases == {"new", "prepared", "polling", "confirming", "speedup", "resend",
           "awaiting", "returned", "thrown"}
Ended == {"returned", "thrown"}

Larger(a, b) == IF a > b THEN a ELSE b

-----------------------------------------------------------------------------
(* The chain and the node. *)

\* What ethers suggests when the base fee is b.
FeeData(b) == [maxFee |-> 2 * b + 1, priorityFee |-> 1, baseFee |-> b]

IsMined(t) == \E m \in mined : m.tx = t
Succeeded(t) == [tx |-> t, ok |-> TRUE] \in mined
Reverted(t) == [tx |-> t, ok |-> FALSE] \in mined

\* eth_getTransactionCount("pending"): the first nonce that is not in use (one element).
PendingNonces ==
  {n \in {nextNonce} \cup {t.nonce + 1 : t \in node} :
     /\ \A t \in node : t.nonce # n
     /\ \A k \in nextNonce..(n - 1) : \E t \in node : t.nonce = k}

\* A node takes a replacement only if both fees rise by a tenth.
Outbids(t, old) ==
  /\ 10 * t.maxFee >= 11 * old.maxFee
  /\ 10 * t.priorityFee >= 11 * old.priorityFee

Accepts(t) ==
  /\ t.nonce >= nextNonce
  /\ \A old \in node : old.nonce = t.nonce => Outbids(t, old)

Broadcast(t) ==
  /\ network' = network \cup {t}
  /\ node' = {old \in node : old.nonce # t.nonce} \cup {t}
  /\ UNCHANGED <<baseFee, nextNonce, mined>>

Mine(t) ==
  /\ t.nonce = nextNonce
  /\ t.maxFee >= baseFee
  /\ \E ok \in BOOLEAN : mined' = mined \cup {[tx |-> t, ok |-> ok]}
  /\ nextNonce' = nextNonce + 1
  /\ network' = {u \in network : u.nonce > nextNonce}
  /\ node' = {u \in node : u.nonce > nextNonce}
  /\ UNCHANGED <<baseFee, phase, opts, tx, count>>

MarketMove ==
  /\ baseFee' \in BaseFees
  /\ UNCHANGED <<nextNonce, mined, network, node, phase, opts, tx, count>>

\* The node forgets t; whether other nodes keep it is not known.
Drop(t) ==
  /\ node' = node \ {t}
  /\ network' \in {network, network \ {t}}
  /\ UNCHANGED <<baseFee, nextNonce, mined, phase, opts, tx, count>>

-----------------------------------------------------------------------------
(* A process. *)

Goto(c, p) == phase' = [phase EXCEPT ![c] = p]

\* Mutant: errors swallowed whatever stopOnError.
FailSwallowed(c) == Goto(c, IF opts[c].speedUp THEN "returned" ELSE "thrown")

\* An error inside runAndWaitAndSpeedUp is swallowed unless stopOnError;
\* runAndWait has no such catch.
Fail(c) == Goto(c, IF opts[c].speedUp /\ ~opts[c].stop THEN "returned" ELSE "thrown")

TxParams(b) ==
  LET fee == FeeData(b)
  IN  [maxFee |-> 2 * fee.maxFee, priorityFee |-> Larger(fee.priorityFee, fee.baseFee)]

\* The callback: fees and nonce are read first, then the call is sent.
Prepare(c, o) ==
  /\ phase[c] = "new"
  /\ opts' = [opts EXCEPT ![c] = o]
  /\ \E n \in PendingNonces :
       tx' = [tx EXCEPT ![c] = [call |-> c, nonce |-> n,
                               maxFee |-> TxParams(baseFee).maxFee,
                               priorityFee |-> TxParams(baseFee).priorityFee]]
  /\ Goto(c, "prepared")
  /\ UNCHANGED <<chainVars, count>>

Send(c) ==
  /\ phase[c] = "prepared"
  /\ \/ Accepts(tx[c]) /\ Broadcast(tx[c]) /\ Goto(c, "polling")
     \/ Fail(c) /\ UNCHANGED chainVars      \* refused, or the request was lost
  /\ UNCHANGED <<opts, tx, count>>

\* runAndWait: tr.wait() ends when the transaction, or one in its place, is mined.
Wait(c) ==
  /\ phase[c] = "polling" /\ ~opts[c].speedUp
  /\ \/ Succeeded(tx[c]) /\ Goto(c, "returned")
     \/ Reverted(tx[c]) /\ Fail(c)
     \/ tx[c].nonce < nextNonce /\ ~IsMined(tx[c]) /\ Fail(c)
  /\ UNCHANGED <<chainVars, opts, tx, count>>

\* waitAndSpeedUp: the node may answer without the receipt of a mined transaction.
Poll(c) ==
  /\ phase[c] = "polling" /\ opts[c].speedUp
  /\ \/ /\ IsMined(tx[c])
        /\ Goto(c, "confirming")
        /\ UNCHANGED count
     \/ /\ count' = [count EXCEPT ![c] = @ + 1]
        /\ IF count[c] + 1 > WaitCycles THEN Goto(c, "speedup") ELSE UNCHANGED phase
  /\ UNCHANGED <<chainVars, opts, tx>>

\* The receipt is read once more; an empty one counts as a wrong status.
Confirm(c) ==
  /\ phase[c] = "confirming"
  /\ \/ Succeeded(tx[c]) /\ Goto(c, "returned")
     \/ Fail(c)
  /\ UNCHANGED <<chainVars, opts, tx, count>>

\* getBlockGasLimit knows these networks only.
BlockGasLimitKnown == ChainId \in {137, 31337, 250}

\* The transaction that replaces t: the same call and nonce, other fees.
Replacement(t) ==
  LET fee == FeeData(baseFee)
      doubled == 2 * t.maxFee
  IN  [t EXCEPT !.maxFee = IF doubled < fee.maxFee THEN 2 * fee.maxFee ELSE doubled,
                !.priorityFee = IF @ < fee.baseFee THEN 2 * fee.baseFee ELSE @]

\* SpeedUp.speedUp up to signing; fails if the node does not know the transaction.
SpeedUp(c) ==
  /\ phase[c] = "speedup"
  /\ \/ /\ tx[c] \in node \/ IsMined(tx[c])
        /\ BlockGasLimitKnown
        /\ tx' = [tx EXCEPT ![c] = Replacement(@)]
        /\ Goto(c, "resend")
     \/ Fail(c) /\ UNCHANGED tx
  /\ UNCHANGED <<chainVars, opts, count>>

\* sendAndWait, the 'error' event of a refused transaction included.
Resend(c) ==
  /\ phase[c] = "resend"
  /\ \/ Accepts(tx[c]) /\ Broadcast(tx[c]) /\ Goto(c, "awaiting")
     \/ Fail(c) /\ UNCHANGED chainVars
  /\ UNCHANGED <<opts, tx, count>>

\* The 'receipt' event, or 'error' when none came in time.
AwaitReceipt(c) ==
  /\ phase[c] = "awaiting"
  /\ \/ /\ Succeeded(tx[c])
        /\ Goto(c, "polling")
        /\ count' = [count EXCEPT ![c] = 0]
     \/ Fail(c) /\ UNCHANGED count
  /\ UNCHANGED <<chainVars, opts, tx>>

Process(c) ==
  \/ \E o \in Options : Prepare(c, o)
  \/ Send(c) \/ Wait(c) \/ Poll(c) \/ Confirm(c)
  \/ SpeedUp(c) \/ Resend(c) \/ AwaitReceipt(c)

Init ==
  /\ baseFee \in BaseFees
  /\ nextNonce = 0
  /\ mined = {} /\ network = {} /\ node = {}
  /\ phase = [c \in Calls |-> "new"]
  /\ opts = [c \in Calls |-> [speedUp |-> TRUE, stop |-> TRUE]]
  /\ tx = [c \in Calls |-> [call |-> c, nonce |-> 0, maxFee |-> 0, priorityFee |-> 0]]
  /\ count = [c \in Calls |-> 0]

Next ==
  \/ \E c \in Calls : Process(c)
  \/ \E t \in network : Mine(t)
  \/ \E t \in node : Drop(t)
  \/ MarketMove

Spec == Init /\ [][Next]_vars

-----------------------------------------------------------------------------
TypeOK ==
  /\ baseFee \in BaseFees
  /\ nextNonce \in Nat
  /\ mined \subseteq [tx : Txs, ok : BOOLEAN]
  /\ network \subseteq Txs
  /\ node \subseteq network
  /\ phase \in [Calls -> Phases]
  /\ opts \in [Calls -> Options]
  /\ tx \in [Calls -> Txs]
  /\ count \in [Calls -> Nat]

\* SpeedUp signs every replacement with the nonce of the original (speedUp), so the
\* chain executes a call at most once, whichever of its transactions gets mined.
ExecutedAtMostOnce ==
  \A m, k \in mined : m.tx.call = k.tx.call => m = k

\* With stopOnError, runAndWait and runAndWaitAndSpeedUp return only for a call
\* that was executed and did not revert, after any number of replacements.
ReturnedMeansExecuted ==
  \A c \in Calls :
    (phase[c] = "returned" /\ opts[c].stop) => \E m \in mined : m.tx.call = c /\ m.ok

\* RunHelper implements CallOnce.
Outcome(c) ==
  IF \E m \in mined : m.tx.call = c /\ m.ok THEN "ok"
  ELSE IF \E m \in mined : m.tx.call = c THEN "reverted" ELSE "none"

Told(c) ==
  CASE phase[c] = "thrown" -> "thrown"
    [] phase[c] = "returned" -> IF opts[c].stop THEN "returned" ELSE "silent"
    [] OTHER -> "none"

Abstract == INSTANCE CallOnce WITH outcome <- [c \in Calls |-> Outcome(c)],
                                   told <- [c \in Calls |-> Told(c)]

\* What the script is told, and what the chain does, are as CallOnce promises.
ImplementsCallOnce == Abstract!Spec
=============================================================================
