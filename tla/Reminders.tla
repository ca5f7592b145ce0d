------------------------------ MODULE Reminders ------------------------------
(***************************************************************************)
(* The letters that warn of the end of a subscription (reminders.py): a    *)
(* sweep takes the linked rows, asks the panel for the date of each, finds *)
(* the threshold reached, marks it in subscription_reminders and only then *)
(* sends the letter.  The api is one process, but a second one may run     *)
(* beside it while it is replaced, and the unique constraint of the marks  *)
(* is there for that: Sweepers are the sweeps that may overlap.            *)
(*                                                                         *)
(* A day is a number.  What the letter says is left out.                   *)
(***************************************************************************)
EXTENDS Integers, FiniteSets

CONSTANTS
  Users,
  Sweepers,
  Stays,        \* the sweeper of the process that stays; others come and go
  Thresholds,   \* reminder_days_list
  Dates,        \* days a subscription may end on
  MaxDay,       \* bound of the time modelled
  Nobody, Never

ASSUME DaysAssumption == /\ Thresholds \subseteq Nat \ {0} /\ IsFiniteSet(Thresholds)
                         /\ Dates \subseteq Nat /\ Never \notin Dates
                         /\ MaxDay \in Nat /\ Stays \in Sweepers /\ Nobody \notin Users

VARIABLES
  today,
  expires,      \* the panel's date of each account
  linked,       \* rows that are active and linked to an account
  marks,        \* the table subscription_reminders
  letters,      \* how many letters went out for each mark (history)
  lost,         \* marks whose letter the mail refused or a stop cut off (history)
  sweep         \* the sweeps in progress

vars == <<today, expires, linked, marks, letters, lost, sweep>>

Marks == [user : Users, on : Dates, days : Thresholds]

(* at      the await a sweep stands at                                     *)
(* rest    the rows it has not come to                                     *)
(* user, on, days   the row at hand, the panel's date and the threshold    *)
Idle == [at |-> "idle", rest |-> {}, user |-> Nobody, on |-> Never, days |-> 0]

(* The mark a sweep is about to make or has made.                          *)
Held(s) == [user |-> sweep[s].user, on |-> sweep[s].on, days |-> sweep[s].days]
-----------------------------------------------------------------------------
Init ==
  /\ today = 0
  /\ expires \in [Users -> Dates]
  /\ linked \in SUBSET Users
  /\ marks = {}
  /\ letters = [m \in Marks |-> 0]
  /\ lost = {}
  /\ sweep = [s \in Sweepers |-> Idle]

Stop(s) == sweep' = [sweep EXCEPT ![s] = Idle]
Continue(s) == sweep' = [sweep EXCEPT ![s] = [@ EXCEPT !.at = "next", !.user = Nobody,
                                              !.on = Never, !.days = 0]]

BeginSweep(s) ==
  /\ sweep[s].at = "idle" /\ linked # {}
  /\ sweep' = [sweep EXCEPT ![s] = [Idle EXCEPT !.at = "next", !.rest = linked]]
  /\ UNCHANGED <<today, expires, linked, marks, letters, lost>>

(* The panel has told the date of the next row.                            *)
Visit(s, u) ==
  /\ sweep[s].at = "next" /\ u \in sweep[s].rest
  /\ sweep' = [sweep EXCEPT ![s] = [@ EXCEPT !.at = "seek", !.user = u, !.on = expires[u],
                                    !.rest = sweep[s].rest \ {u}]]
  /\ UNCHANGED <<today, expires, linked, marks, letters, lost>>

(* The panel does not know the account, does not answer, or sets no end:   *)
(* one row only.                                                           *)
Skip(s, u) ==
  /\ sweep[s].at = "next" /\ u \in sweep[s].rest
  /\ sweep' = [sweep EXCEPT ![s].rest = @ \ {u}]
  /\ UNCHANGED <<today, expires, linked, marks, letters, lost>>

EndSweep(s) ==
  /\ sweep[s].at = "next" /\ sweep[s].rest = {}
  /\ Stop(s)
  /\ UNCHANGED <<today, expires, linked, marks, letters, lost>>

(* _porog: the nearest of the thresholds that have been reached, if any.   *)
Porog(left) ==
  {p \in Thresholds : left <= p /\ \A q \in Thresholds : left <= q => p <= q}

(* _uzhe_pisali                                                            *)
AlreadyWritten(u, on, porog) == \E m \in marks : m.user = u /\ m.on = on /\ m.days <= porog

(* Mutant: a mark of a farther threshold is taken for one of this.         *)
DueFarther(u, on) ==
  {p \in Porog(on - today) : /\ on >= today
     /\ ~\E m \in marks : m.user = u /\ m.on = on /\ m.days >= p}

(* The threshold a person is to be written to about, if any.               *)
Due(u, on) == {p \in Porog(on - today) : on >= today /\ ~AlreadyWritten(u, on, p)}

(* _odin up to the mark                                                    *)
Seek(s, u) == LET on == sweep[s].on IN
  /\ sweep[s].at = "seek" /\ sweep[s].user = u
  /\ \/ Due(u, on) = {} /\ Continue(s)
     \/ \E p \in Due(u, on) : sweep' = [sweep EXCEPT ![s] = [@ EXCEPT !.at = "mark", !.days = p]]
  /\ UNCHANGED <<today, expires, linked, marks, letters, lost>>

(* The query fails, and every later one of this session with it.           *)
SeekFails(s) ==
  /\ sweep[s].at = "seek"
  /\ Stop(s)
  /\ UNCHANGED <<today, expires, linked, marks, letters, lost>>

(* Mutant: the mark is not checked against the table.                      *)
MarkAgain(s, u) ==
  /\ sweep[s].at = "mark" /\ sweep[s].user = u
  /\ marks' = marks \cup {Held(s)}
  /\ sweep' = [sweep EXCEPT ![s].at = "send"]
  /\ UNCHANGED <<today, expires, linked, letters, lost>>

(* _otmetit: the constraint refuses a second mark.  The rollback expires   *)
(* the rows the sweep holds: to read the next one raises, and so does the  *)
(* handler of that error, which reads it too.  The sweep is over.          *)
Mark(s, u) ==
  /\ sweep[s].at = "mark" /\ sweep[s].user = u
  /\ IF Held(s) \in marks
     THEN Stop(s) /\ UNCHANGED marks
     ELSE /\ marks' = marks \cup {Held(s)}
          /\ sweep' = [sweep EXCEPT ![s].at = "send"]
  /\ UNCHANGED <<today, expires, linked, letters, lost>>

(* The commit fails, or only its answer is lost: the sweep ends likewise.  *)
MarkFails(s) ==
  /\ sweep[s].at = "mark"
  /\ Stop(s)
  /\ \/ UNCHANGED <<marks, lost>>
     \/ /\ Held(s) \notin marks
        /\ marks' = marks \cup {Held(s)} /\ lost' = lost \cup {Held(s)}
  /\ UNCHANGED <<today, expires, linked, letters>>

(* Mutant: a letter is not sent if the date has moved since.               *)
SendIfCurrent(s) ==
  /\ sweep[s].at = "send"
  /\ letters' = IF expires[sweep[s].user] = sweep[s].on
                THEN [letters EXCEPT ![Held(s)] = @ + 1] ELSE letters
  /\ Continue(s)
  /\ UNCHANGED <<today, expires, linked, marks, lost>>

Send(s) ==
  /\ sweep[s].at = "send"
  /\ letters' = [letters EXCEPT ![Held(s)] = @ + 1]
  /\ Continue(s)
  /\ UNCHANGED <<today, expires, linked, marks, lost>>

SendFails(s) ==
  /\ sweep[s].at = "send"
  /\ lost' = lost \cup {Held(s)}
  /\ Continue(s)
  /\ UNCHANGED <<today, expires, linked, marks, letters>>

(* The process stops, before or during the sending of a letter.            *)
Crash(s) ==
  /\ sweep[s].at # "idle"
  /\ lost' = IF sweep[s].at = "send" THEN lost \cup {Held(s)} ELSE lost
  /\ Stop(s)
  /\ UNCHANGED <<today, expires, linked, marks, letters>>
-----------------------------------------------------------------------------
Day == /\ today < MaxDay
       /\ today' = today + 1
       /\ UNCHANGED <<expires, linked, marks, letters, lost, sweep>>

(* The panel moves a date: a purchase, a reward, an administrator.         *)
Extend(u) == /\ \E d \in Dates : d # expires[u] /\ expires' = [expires EXCEPT ![u] = d]
             /\ UNCHANGED <<today, linked, marks, letters, lost, sweep>>

(* A row is linked or unlinked, or its owner removes it.                   *)
Link(u) == /\ linked' = IF u \in linked THEN linked \ {u} ELSE linked \cup {u}
           /\ UNCHANGED <<today, expires, marks, letters, lost, sweep>>

Work(s) ==
  \/ BeginSweep(s) \/ EndSweep(s) \/ Send(s)
  \/ \E u \in Users : Visit(s, u) \/ Skip(s, u) \/ Seek(s, u) \/ Mark(s, u)

Fault(s) == SeekFails(s) \/ MarkFails(s) \/ SendFails(s) \/ Crash(s)

Next == \/ \E s \in Sweepers : Work(s) \/ Fault(s)
        \/ Day \/ \E u \in Users : Extend(u) \/ Link(u)

Spec == Init /\ [][Next]_vars

(* The sweep of the process that stays begins again and again (main.py); a *)
(* panel and a database that are asked about a person again and again      *)
(* answer at last.                                                         *)
Fairness ==
  /\ WF_vars(BeginSweep(Stays)) /\ WF_vars(EndSweep(Stays))
  /\ WF_vars(Send(Stays) \/ SendFails(Stays))
  /\ \A u \in Users : /\ SF_vars(Visit(Stays, u)) /\ SF_vars(Seek(Stays, u))
                      /\ SF_vars(Mark(Stays, u))

FairSpec == Spec /\ Fairness
-----------------------------------------------------------------------------
Stages == {"idle", "next", "seek", "mark", "send"}
Records == [at : Stages, rest : SUBSET Users, user : Users \cup {Nobody},
            on : Dates \cup {Never}, days : Thresholds \cup {0}]

TypeOK ==
  /\ today \in 0..MaxDay
  /\ expires \in [Users -> Dates]
  /\ linked \subseteq Users
  /\ marks \subseteq Marks
  /\ letters \in [Marks -> Nat]
  /\ lost \subseteq Marks
  /\ sweep \in [Sweepers -> Records]

(* Nobody gets a letter twice for one threshold of one date, though sweeps *)
(* overlap, stop and begin anew (models/reminder.py:14).                   *)
LetterOnce == \A m \in Marks : letters[m] <= 1

Sending(m) == {s \in Sweepers : sweep[s].at = "send" /\ Held(s) = m}

(* A threshold that is marked has had its letter, or it is being sent, or  *)
(* the mail or a stop at that very moment has cost it (reminders.py:106).  *)
MarkedMeansWritten ==
  \A m \in marks : letters[m] = 1 \/ m \in lost \/ Sending(m) # {}

(* Whoever stays linked with a date that has come near is marked for the   *)
(* nearest threshold or for one nearer still, whatever was marked before.  *)
DueIsMarked ==
  \A u \in Users, d \in Dates :
    <>[](u \in linked /\ expires[u] = d /\ d >= today)
      => <>(\A p \in Porog(d - today) : AlreadyWritten(u, d, p))
-----------------------------------------------------------------------------
(* The inductive invariant: a letter goes out for a mark, which one sweep  *)
(* alone holds between its commit and the letter.                          *)
SweepOK(s) ==
  /\ sweep[s].at \in {"seek", "mark", "send"} => sweep[s].user \in Users
  /\ sweep[s].at \in {"seek", "mark", "send"} => sweep[s].on \in Dates
  /\ sweep[s].at \in {"mark", "send"} => sweep[s].days \in Thresholds
  /\ sweep[s].at = "send" => Held(s) \in marks /\ letters[Held(s)] = 0

OneSender == \A s, t \in Sweepers :
  s # t /\ sweep[s].at = "send" /\ sweep[t].at = "send" => Held(s) # Held(t)

LetterInv ==
  /\ TypeOK
  /\ \A m \in Marks : letters[m] \in {0, 1} /\ (letters[m] = 1 => m \in marks)
  /\ \A s \in Sweepers : SweepOK(s)
  /\ OneSender
  /\ MarkedMeansWritten
=============================================================================
