--------------------------- MODULE CommandReceipt ---------------------------
(***************************************************************************)
(* The receipt of a rank takeover command: requests that carry one key     *)
(* (repeats of a client that has lost the answer, often while the first is *)
(* still at work) are answered as if there had been one.                   *)
(*                                                                         *)
(* What the command does is a transaction, and the receipt of its success  *)
(* is written in it.  The receipt of a failure is written in a second one, *)
(* after the first has been rolled back; some failures may pass and leave  *)
(* none.  Two transactions that write the receipt of one key exclude each  *)
(* other, so that each is one step.                                        *)
(***************************************************************************)
EXTENDS Naturals

CONSTANTS
    Calls,          \* the requests that carry the key
    Fingerprint,    \* the fingerprint of what a request asks for
    Refusals,       \* the failures that a repeat cannot change (shouldPersistCommandFailure)
    Unknown

ASSUME CallsAssumption ==
    /\ Unknown \notin Refusals
    /\ {"DONE", "LATER", "CONFLICT"} \cap (Refusals \cup {Unknown}) = {}

VARIABLES
    receipt,        \* RankTakeoverCommandReceipt: what it answers, and to which fingerprint
    timesDone,      \* how often the command has taken effect
    call            \* call[c]: where a request is, how its work failed, and its answer

receiptVars == <<receipt, timesDone, call>>

NoReceipt == [answer |-> Unknown, of |-> Unknown]
NotCalled == [at |-> "OBSERVE", failure |-> Unknown, answer |-> Unknown]

ReceiptInit ==
    /\ receipt = NoReceipt
    /\ timesDone = 0
    /\ call = [c \in Calls |-> NotCalled]

HasReceipt == receipt # NoReceipt

(* replayCommandReceipt: a receipt answers what it holds, and only to the same request. *)
Replay(c) == IF receipt.of = Fingerprint[c] THEN receipt.answer ELSE "CONFLICT"

StageIs(c, step) == call[c].at = step
MovesTo(c, step) == call' = [call EXCEPT ![c].at = step]
Replies(c, answer) == call' = [call EXCEPT ![c].at = "END", ![c].answer = answer]

Observe(c) ==
    /\ StageIs(c, "OBSERVE")
    /\ IF HasReceipt THEN Replies(c, Replay(c)) ELSE MovesTo(c, "WORK")
    /\ UNCHANGED <<receipt, timesDone>>

(* The answer to the commit may be lost, which to the request is a failure like another. *)
Succeeds(c) ==
    /\ receipt' = [answer |-> "DONE", of |-> Fingerprint[c]]
    /\ timesDone' = timesDone + 1
    /\ \/ Replies(c, "DONE")
       \/ call' = [call EXCEPT ![c].at = "FAILED", ![c].failure = "LATER"]

WorkFails(c, failure) ==
    /\ call' = [call EXCEPT ![c].at = "FAILED", ![c].failure = failure]
    /\ UNCHANGED <<receipt, timesDone>>

(* The transaction looks again, does the work, and completes the receipt; or all is rolled back. *)
DoWork(c) ==
    /\ StageIs(c, "WORK")
    /\ IF HasReceipt
       THEN Replies(c, Replay(c)) /\ UNCHANGED <<receipt, timesDone>>
       ELSE \/ Succeeds(c)
            \/ \E failure \in Refusals \cup {"LATER"} : WorkFails(c, failure)

(* Somebody else may have answered meanwhile; a failure that may pass is not kept. *)
AfterFailure(c) ==
    /\ StageIs(c, "FAILED")
    /\ IF HasReceipt THEN Replies(c, Replay(c))
       ELSE IF call[c].failure = "LATER" THEN Replies(c, "LATER")
       ELSE MovesTo(c, "STORE")
    /\ UNCHANGED <<receipt, timesDone>>

(* The second transaction. *)
StoreFailure(c) ==
    /\ StageIs(c, "STORE")
    /\ IF HasReceipt
       THEN /\ IF receipt.of = Fingerprint[c] THEN MovesTo(c, "REPLAY") ELSE Replies(c, "CONFLICT")
            /\ UNCHANGED receipt
       ELSE /\ receipt' = [answer |-> call[c].failure, of |-> Fingerprint[c]]
            /\ MovesTo(c, "REPLAY")
    /\ UNCHANGED timesDone

\* Defect: the request answers with its own failure, whatever the receipt says by now.
ReplayOwn(c) ==
    /\ StageIs(c, "REPLAY")
    /\ Replies(c, call[c].failure)
    /\ UNCHANGED <<receipt, timesDone>>

ReplayStored(c) ==
    /\ StageIs(c, "REPLAY")
    /\ Replies(c, IF HasReceipt THEN Replay(c) ELSE call[c].failure)
    /\ UNCHANGED <<receipt, timesDone>>

(* The process dies. *)
CallIsLost(c) ==
    /\ call[c].at \notin {"END", "LOST"}
    /\ call' = [call EXCEPT ![c].at = "LOST"]
    /\ UNCHANGED <<receipt, timesDone>>

ReceiptNext ==
    \E c \in Calls :
        \/ Observe(c)
        \/ DoWork(c)
        \/ AfterFailure(c)
        \/ StoreFailure(c)
        \/ ReplayStored(c)
        \/ CallIsLost(c)

ReceiptSpec == ReceiptInit /\ [][ReceiptNext]_receiptVars

-----------------------------------------------------------------------------
Final == Refusals \cup {"DONE"}

(***************************************************************************)
(* Of the requests with one key, those that are told how it ended are told *)
(* the same, however they overlap, and it is the truth: nobody is told of  *)
(* a refusal when the command has taken effect or still will (by another   *)
(* request), nobody of a success it has not had, and it takes effect once  *)
(* at most.  To be told to come back, or that the key is used for          *)
(* something else, says nothing about the command (executeCommand).        *)
(***************************************************************************)
AnswersAgree ==
    /\ timesDone <= 1
    /\ \A c \in Calls : call[c].answer \in Final =>
        /\ call[c].answer = "DONE" <=> timesDone = 1
        /\ \A d \in Calls : call[d].answer \in Final => call[d].answer = call[c].answer

=============================================================================
