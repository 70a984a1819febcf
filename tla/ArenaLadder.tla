---------------------------- MODULE ArenaLadder -----------------------------
(***************************************************************************)
(* What a match promises to the ladder and to the accounts, with nothing   *)
(* of how it is played: a challenger deposits a stake against one rival;   *)
(* while the deposit is open neither of the two is in another one; closing *)
(* it divides the whole stake between the two and the fire, and either     *)
(* swaps their two seats or moves no seat at all.  A deposit closes once.  *)
(* Whoever closes it may also fine the two, never below nothing.           *)
(***************************************************************************)
EXTENDS Integers

CONSTANTS Users, Matches, None, InitialSeat, InitialScore

VARIABLES seat, score, locked, burned, deposit

vars == <<seat, score, locked, burned, deposit>>

Free   == [state |-> "FREE", owner |-> None, rival |-> None, amount |-> 0]
Closed == [Free EXCEPT !.state = "CLOSED"]

Deposit(c, d, n) == [state |-> "OPEN", owner |-> c, rival |-> d, amount |-> n]

Engaged(u) == \E m \in Matches :
  deposit[m].state = "OPEN" /\ u \in {deposit[m].owner, deposit[m].rival}

Init ==
  /\ seat = InitialSeat /\ score = InitialScore
  /\ locked = [u \in Users |-> 0]
  /\ burned = 0
  /\ deposit = [m \in Matches |-> Free]

Open(m, c, d, n) ==
  /\ deposit[m] = Free /\ c # d /\ n <= score[c]
  /\ deposit' = [deposit EXCEPT ![m] = Deposit(c, d, n)]
  /\ ~ Engaged(c) /\ ~ Engaged(d)
  /\ score'   = [score EXCEPT ![c] = @ - n]
  /\ locked'  = [locked EXCEPT ![c] = @ + n]
  /\ UNCHANGED <<seat, burned>>

\* The owner gets `back` of the stake and the rival `paid`; what is left is burned,
\* and so are the fines.
Divide(o, r, n) ==
  \E back \in 0..n : \E paid \in 0..(n - back) :
  \E fineO \in 0..(score[o] + back), fineR \in 0..(score[r] + paid) :
    /\ score'  = [score EXCEPT ![o] = @ + back - fineO, ![r] = @ + paid - fineR]
    /\ burned' = burned + (n - back - paid) + fineO + fineR

Close(m) ==
  LET o == deposit[m].owner
      r == deposit[m].rival
      n == deposit[m].amount
  IN
  /\ deposit[m].state = "OPEN"
  /\ deposit' = [deposit EXCEPT ![m] = Closed]
  /\ locked'  = [locked EXCEPT ![o] = @ - n]
  /\ seat' \in {seat, [seat EXCEPT ![o] = seat[r], ![r] = seat[o]]}
  /\ Divide(o, r, n)

Next ==
  \E m \in Matches :
    \/ \E c, d \in Users : \E n \in 1..score[c] : Open(m, c, d, n)
    \/ Close(m)

Spec == Init /\ [][Next]_vars
=============================================================================
