--------------------------- MODULE RemindersProofs ---------------------------
(***************************************************************************)
(* LetterInv is an invariant of Reminders for any number of people,        *)
(* sweeps, dates and thresholds: one letter to a mark, and a mark without  *)
(* one only by the mail or by a stop.                                      *)
(***************************************************************************)
EXTENDS Reminders, TLAPS

LEMMA IdleOK == Idle \in Records /\ Idle.at = "idle"
BY DEF Idle, Records, Stages

LEMMA InitLetterInv == Init => LetterInv
<1>. SUFFICES ASSUME Init PROVE LetterInv
  OBVIOUS
<1>1. TypeOK
  BY IdleOK, DaysAssumption DEF Init, TypeOK
<1>2. \A s \in Sweepers : sweep[s].at = "idle"
  BY IdleOK DEF Init
<1>. QED BY <1>1, <1>2 DEF Init, LetterInv, SweepOK, OneSender, MarkedMeansWritten

(* What the invariant says of one sweep.                                   *)
LEMMA SweepFacts ==
  ASSUME LetterInv, NEW s \in Sweepers
  PROVE  /\ sweep[s] \in Records /\ SweepOK(s)
         /\ sweep[s].at \in {"mark", "send"} => Held(s) \in Marks
<1>1. sweep[s] \in Records /\ SweepOK(s)
  BY DEF LetterInv, TypeOK
<1>2. sweep[s].at \in {"mark", "send"} => Held(s) \in Marks
  BY <1>1 DEF SweepOK, Held, Marks
<1>. QED BY <1>1, <1>2

(* A sweep that moves without a mark or a letter, and does not stand at    *)
(* the sending of one.                                                     *)
LEMMA SweepStep ==
  ASSUME LetterInv, NEW s \in Sweepers, NEW q \in Records,
         sweep' = [sweep EXCEPT ![s] = q], sweep[s].at # "send", q.at # "send",
         q.at \in {"seek", "mark"} => q.user \in Users /\ q.on \in Dates,
         q.at = "mark" => q.days \in Thresholds,
         UNCHANGED <<today, expires, linked, marks, letters, lost>>
  PROVE  LetterInv'
<1>1. TypeOK'
  BY DEF LetterInv, TypeOK
<1>2. \A t \in Sweepers : sweep'[t] = IF t = s THEN q ELSE sweep[t]
  BY DEF LetterInv, TypeOK
<1>3. ASSUME NEW t \in Sweepers PROVE SweepOK(t)'
  <2>1. CASE t = s
    BY <1>2, <2>1 DEF SweepOK
  <2>2. CASE t # s
    BY <1>2, <2>2, SweepFacts DEF SweepOK, Held
  <2>. QED BY <2>1, <2>2
<1>4. OneSender'
  BY <1>2 DEF LetterInv, OneSender, Held
<1>5. MarkedMeansWritten'
  <2>1. ASSUME NEW m \in marks, NEW t \in Sending(m) PROVE t \in Sending(m)'
    BY <1>2, <2>1 DEF Sending, Held
  <2>2. SUFFICES ASSUME NEW m \in marks, letters[m] # 1, m \notin lost
                 PROVE  Sending(m)' # {}
    BY DEF MarkedMeansWritten
  <2>. QED BY <2>1, <2>2 DEF LetterInv, MarkedMeansWritten
<1>. QED BY <1>1, <1>3, <1>4, <1>5 DEF LetterInv

LEMMA StopStep ==
  ASSUME LetterInv, NEW s \in Sweepers, Stop(s), sweep[s].at # "send",
         UNCHANGED <<today, expires, linked, marks, letters, lost>>
  PROVE  LetterInv'
BY IdleOK, SweepStep DEF Stop

(* A sweep that goes on to the next row.                                   *)
LEMMA ContinueRecord ==
  ASSUME LetterInv, NEW s \in Sweepers, Continue(s)
  PROVE  \E q \in Records : sweep' = [sweep EXCEPT ![s] = q] /\ q.at = "next"
<1>. DEFINE q == [sweep[s] EXCEPT !.at = "next", !.user = Nobody, !.on = Never, !.days = 0]
<1>1. sweep' = [sweep EXCEPT ![s] = q]
  BY DEF Continue
<1>2. q \in Records /\ q.at = "next"
  BY SweepFacts DEF Records, Stages
<1>. QED BY <1>1, <1>2

LEMMA BeginSweepStep ==
  ASSUME LetterInv, NEW s \in Sweepers, BeginSweep(s) PROVE LetterInv'
<1>. DEFINE q == [Idle EXCEPT !.at = "next", !.rest = linked]
<1>1. sweep' = [sweep EXCEPT ![s] = q] /\ sweep[s].at = "idle"
      /\ UNCHANGED <<today, expires, linked, marks, letters, lost>>
  BY DEF BeginSweep
<1>2. q \in Records /\ q.at = "next"
  BY IdleOK DEF LetterInv, TypeOK, Records, Stages
<1>. HIDE DEF q
<1>. QED BY <1>1, <1>2, SweepStep

LEMMA VisitStep ==
  ASSUME LetterInv, NEW s \in Sweepers, NEW u \in Users, Visit(s, u) PROVE LetterInv'
<1>. DEFINE q == [sweep[s] EXCEPT !.at = "seek", !.user = u, !.on = expires[u],
                                  !.rest = sweep[s].rest \ {u}]
<1>1. sweep' = [sweep EXCEPT ![s] = q] /\ sweep[s].at = "next"
      /\ UNCHANGED <<today, expires, linked, marks, letters, lost>>
  BY DEF Visit
<1>2. q \in Records /\ q.at = "seek" /\ q.user = u /\ q.on \in Dates
  BY SweepFacts DEF LetterInv, TypeOK, Records, Stages
<1>. HIDE DEF q
<1>. QED BY <1>1, <1>2, SweepStep

LEMMA SkipStep ==
  ASSUME LetterInv, NEW s \in Sweepers, NEW u \in Users, Skip(s, u) PROVE LetterInv'
<1>. DEFINE q == [sweep[s] EXCEPT !.rest = @ \ {u}]
<1>1. sweep' = [sweep EXCEPT ![s] = q] /\ sweep[s].at = "next"
      /\ UNCHANGED <<today, expires, linked, marks, letters, lost>>
  BY SweepFacts DEF Skip, LetterInv, TypeOK
<1>2. q \in Records /\ q.at = "next"
  BY <1>1, SweepFacts DEF Records
<1>. HIDE DEF q
<1>. QED BY <1>1, <1>2, SweepStep

LEMMA EndSweepStep ==
  ASSUME LetterInv, NEW s \in Sweepers, EndSweep(s) PROVE LetterInv'
BY StopStep DEF EndSweep

LEMMA SeekStep ==
  ASSUME LetterInv, NEW s \in Sweepers, NEW u \in Users, Seek(s, u) PROVE LetterInv'
<1>0. /\ sweep[s].at = "seek" /\ sweep[s].user = u
      /\ UNCHANGED <<today, expires, linked, marks, letters, lost>>
  BY DEF Seek
<1>1. CASE Continue(s)
  BY <1>0, <1>1, ContinueRecord, SweepStep
<1>2. ASSUME NEW p \in Due(u, sweep[s].on),
             sweep' = [sweep EXCEPT ![s] = [@ EXCEPT !.at = "mark", !.days = p]]
      PROVE  LetterInv'
  <2>. DEFINE q == [sweep[s] EXCEPT !.at = "mark", !.days = p]
  <2>1. sweep' = [sweep EXCEPT ![s] = q]
    BY <1>2
  <2>2. p \in Thresholds
    BY DEF Due, Porog
  <2>3. q \in Records /\ q.at = "mark" /\ q.user = u /\ q.days = p /\ q.on = sweep[s].on
    BY <1>0, <2>2, SweepFacts DEF Records, Stages
  <2>4. sweep[s].on \in Dates
    BY <1>0, SweepFacts DEF SweepOK
  <2>. HIDE DEF q
  <2>. QED BY <1>0, <2>1, <2>2, <2>3, <2>4, SweepStep
<1>. QED BY <1>1, <1>2 DEF Seek

LEMMA SeekFailsStep ==
  ASSUME LetterInv, NEW s \in Sweepers, SeekFails(s) PROVE LetterInv'
BY StopStep DEF SeekFails
-----------------------------------------------------------------------------
(* A mark that is new to the table: its letter has not been sent, and no   *)
(* other sweep is sending it.                                              *)
LEMMA NewMark ==
  ASSUME LetterInv, NEW s \in Sweepers, sweep[s].at = "mark", Held(s) \notin marks
  PROVE  /\ Held(s) \in Marks /\ letters[Held(s)] = 0
         /\ \A t \in Sweepers : sweep[t].at = "send" => Held(t) # Held(s)
<1>1. Held(s) \in Marks
  BY SweepFacts
<1>2. letters[Held(s)] = 0
  BY <1>1 DEF LetterInv
<1>3. \A t \in Sweepers : sweep[t].at = "send" => Held(t) \in marks
  BY SweepFacts DEF SweepOK
<1>. QED BY <1>1, <1>2, <1>3

LEMMA MarkStep ==
  ASSUME LetterInv, NEW s \in Sweepers, NEW u \in Users, Mark(s, u) PROVE LetterInv'
<1>0. /\ sweep[s].at = "mark" /\ sweep[s] \in Records /\ SweepOK(s)
      /\ UNCHANGED <<today, expires, linked, letters, lost>>
  BY SweepFacts DEF Mark
<1>1. CASE Held(s) \in marks
  BY <1>0, <1>1, StopStep DEF Mark
<1>2. CASE Held(s) \notin marks
  <2>. DEFINE q == [sweep[s] EXCEPT !.at = "send"]
              h == Held(s)
  <2>1. sweep' = [sweep EXCEPT ![s] = q] /\ marks' = marks \cup {h}
    BY <1>2, SweepFacts DEF Mark, LetterInv, TypeOK
  <2>2. /\ q \in Records /\ q.at = "send" /\ q.user = sweep[s].user
        /\ q.on = sweep[s].on /\ q.days = sweep[s].days
    BY <1>0 DEF Records, Stages
  <2>3. /\ h \in Marks /\ letters[h] = 0
        /\ \A t \in Sweepers : sweep[t].at = "send" => Held(t) # h
    BY <1>0, <1>2, NewMark
  <2>4. h = [user |-> sweep[s].user, on |-> sweep[s].on, days |-> sweep[s].days]
    BY DEF Held
  <2>. HIDE DEF q, h
  <2>5. \A t \in Sweepers : sweep'[t] = IF t = s THEN q ELSE sweep[t]
    BY <2>1, <2>2 DEF LetterInv, TypeOK
  <2>6. \A t \in Sweepers : Held(t)' = IF t = s THEN h ELSE Held(t)
    BY <2>2, <2>4, <2>5 DEF Held
  <2>7. TypeOK'
    BY <1>0, <2>1, <2>2, <2>3 DEF LetterInv, TypeOK
  <2>8. ASSUME NEW t \in Sweepers PROVE SweepOK(t)'
    <3>1. CASE t = s
      BY <1>0, <2>1, <2>2, <2>3, <2>5, <2>6, <3>1 DEF SweepOK
    <3>2. CASE t # s
      BY <1>0, <2>1, <2>5, <2>6, <3>2, SweepFacts DEF SweepOK
    <3>. QED BY <3>1, <3>2
  <2>9. OneSender'
    BY <2>3, <2>5, <2>6 DEF LetterInv, OneSender
  <2>10. MarkedMeansWritten'
    <3>1. SUFFICES ASSUME NEW m \in marks \cup {h}, letters[m] # 1, m \notin lost
                   PROVE  Sending(m)' # {}
      BY <1>0, <2>1 DEF MarkedMeansWritten
    <3>2. CASE m = h
      BY <2>2, <2>5, <2>6, <3>2 DEF Sending
    <3>3. CASE m # h
      <4>1. PICK t \in Sweepers : sweep[t].at = "send" /\ Held(t) = m
        BY <3>1, <3>3 DEF LetterInv, MarkedMeansWritten, Sending
      <4>2. t # s
        BY <1>0, <4>1
      <4>. QED BY <2>5, <2>6, <4>1, <4>2 DEF Sending
    <3>. QED BY <3>2, <3>3
  <2>11. \A m \in Marks : letters'[m] \in {0, 1} /\ (letters'[m] = 1 => m \in marks')
    BY <1>0, <2>1 DEF LetterInv
  <2>. QED BY <2>7, <2>8, <2>9, <2>10, <2>11 DEF LetterInv
<1>. QED BY <1>1, <1>2

LEMMA MarkFailsStep ==
  ASSUME LetterInv, NEW s \in Sweepers, MarkFails(s) PROVE LetterInv'
<1>0. /\ sweep[s].at = "mark" /\ sweep[s] \in Records /\ SweepOK(s) /\ Stop(s)
      /\ UNCHANGED <<today, expires, linked, letters>>
  BY SweepFacts DEF MarkFails
<1>1. CASE UNCHANGED <<marks, lost>>
  BY <1>0, <1>1, StopStep
<1>2. CASE /\ Held(s) \notin marks
           /\ marks' = marks \cup {Held(s)} /\ lost' = lost \cup {Held(s)}
  <2>. DEFINE h == Held(s)
  <2>1. h \in Marks
    BY <1>0, SweepFacts
  <2>2. \A t \in Sweepers : sweep'[t] = IF t = s THEN Idle ELSE sweep[t]
    BY <1>0 DEF Stop, LetterInv, TypeOK
  <2>. HIDE DEF h
  <2>3. \A t \in Sweepers : t # s => Held(t)' = Held(t)
    BY <2>2 DEF Held
  <2>4. TypeOK'
    BY <1>0, <1>2, <2>1, IdleOK DEF LetterInv, TypeOK, Stop, h
  <2>5. ASSUME NEW t \in Sweepers PROVE SweepOK(t)'
    <3>1. CASE t = s
      BY <2>2, <3>1, IdleOK DEF SweepOK
    <3>2. CASE t # s
      BY <1>0, <1>2, <2>2, <2>3, <3>2, SweepFacts DEF SweepOK
    <3>. QED BY <3>1, <3>2
  <2>6. OneSender'
    BY <2>2, <2>3, IdleOK DEF LetterInv, OneSender
  <2>7. MarkedMeansWritten'
    <3>1. SUFFICES ASSUME NEW m \in marks \cup {h}, letters[m] # 1, m \notin lost \cup {h}
                   PROVE  Sending(m)' # {}
      BY <1>0, <1>2 DEF MarkedMeansWritten, h
    <3>2. PICK t \in Sweepers : sweep[t].at = "send" /\ Held(t) = m
      BY <3>1 DEF LetterInv, MarkedMeansWritten, Sending
    <3>3. t # s
      BY <1>0, <3>2
    <3>. QED BY <2>2, <2>3, <3>2, <3>3 DEF Sending
  <2>8. \A m \in Marks : letters'[m] \in {0, 1} /\ (letters'[m] = 1 => m \in marks')
    BY <1>0, <1>2 DEF LetterInv
  <2>. QED BY <2>4, <2>5, <2>6, <2>7, <2>8 DEF LetterInv
<1>. QED BY <1>1, <1>2 DEF MarkFails
-----------------------------------------------------------------------------
(* A sweep leaves the sending of a letter: it is sent, or it is lost.      *)
LEMMA SentStep ==
  ASSUME LetterInv, NEW s \in Sweepers, sweep[s].at = "send",
         NEW q \in Records, sweep' = [sweep EXCEPT ![s] = q], q.at \in {"next", "idle"},
         UNCHANGED <<today, expires, linked, marks>>,
         \/ letters' = [letters EXCEPT ![Held(s)] = @ + 1] /\ lost' = lost
         \/ letters' = letters /\ lost' = lost \cup {Held(s)}
  PROVE  LetterInv'
<1>. DEFINE h == Held(s)
<1>1. h \in Marks /\ h \in marks /\ letters[h] = 0
  BY SweepFacts DEF SweepOK
<1>2. \A t \in Sweepers : sweep'[t] = IF t = s THEN q ELSE sweep[t]
  BY DEF LetterInv, TypeOK
<1>3. \A t \in Sweepers : t # s /\ sweep[t].at = "send" => Held(t) # h
  BY DEF LetterInv, OneSender
<1>. HIDE DEF h
<1>4. \A t \in Sweepers : t # s => Held(t)' = Held(t)
  BY <1>2 DEF Held
<1>5. /\ letters' \in [Marks -> Nat] /\ lost' \subseteq Marks
      /\ \A m \in Marks : m # h => letters'[m] = letters[m]
      /\ letters'[h] = 1 \/ h \in lost'
      /\ letters'[h] \in {0, 1} /\ lost \subseteq lost'
  BY <1>1 DEF LetterInv, TypeOK, h
<1>6. TypeOK'
  BY <1>5 DEF LetterInv, TypeOK
<1>7. ASSUME NEW t \in Sweepers PROVE SweepOK(t)'
  <2>1. CASE t = s
    BY <1>2, <2>1 DEF SweepOK
  <2>2. CASE t # s
    <3>1. sweep'[t] = sweep[t] /\ Held(t)' = Held(t) /\ SweepOK(t)
          /\ (sweep[t].at = "send" => Held(t) \in Marks /\ Held(t) # h)
      BY <1>2, <1>3, <1>4, <2>2, SweepFacts
    <3>. QED BY <1>5, <3>1 DEF SweepOK
  <2>. QED BY <2>1, <2>2
<1>8. OneSender'
  BY <1>2, <1>4 DEF LetterInv, OneSender
<1>9. MarkedMeansWritten'
  <2>1. SUFFICES ASSUME NEW m \in marks, letters'[m] # 1, m \notin lost'
                 PROVE  Sending(m)' # {}
    BY DEF MarkedMeansWritten
  <2>2. m \in Marks /\ m # h
    BY <1>5, <2>1 DEF LetterInv, TypeOK
  <2>3. PICK t \in Sweepers : sweep[t].at = "send" /\ Held(t) = m
    BY <1>5, <2>1, <2>2 DEF LetterInv, MarkedMeansWritten, Sending
  <2>4. t # s
    BY <2>2, <2>3 DEF h
  <2>. QED BY <1>2, <1>4, <2>3, <2>4 DEF Sending
<1>10. \A m \in Marks : letters'[m] \in {0, 1} /\ (letters'[m] = 1 => m \in marks')
  BY <1>1, <1>5 DEF LetterInv
<1>. QED BY <1>6, <1>7, <1>8, <1>9, <1>10 DEF LetterInv

LEMMA SendStep ==
  ASSUME LetterInv, NEW s \in Sweepers, Send(s) \/ SendFails(s) PROVE LetterInv'
<1>1. PICK q \in Records : sweep' = [sweep EXCEPT ![s] = q] /\ q.at = "next"
  BY ContinueRecord DEF Send, SendFails
<1>. QED BY <1>1, SentStep DEF Send, SendFails

LEMMA CrashStep ==
  ASSUME LetterInv, NEW s \in Sweepers, Crash(s) PROVE LetterInv'
<1>1. CASE sweep[s].at = "send"
  BY <1>1, IdleOK, SentStep DEF Crash, Stop
<1>2. CASE sweep[s].at # "send"
  BY <1>2, StopStep DEF Crash
<1>. QED BY <1>1, <1>2

(* Time passes, a date moves, a row is linked: no sweep is touched.        *)
LEMMA OutsideStep ==
  ASSUME LetterInv, UNCHANGED <<marks, letters, lost, sweep>>,
         today' \in 0..MaxDay, expires' \in [Users -> Dates], linked' \subseteq Users
  PROVE  LetterInv'
BY DEF LetterInv, TypeOK, SweepOK, Held, OneSender, MarkedMeansWritten, Sending

LEMMA NextLetterInv == LetterInv /\ [Next]_vars => LetterInv'
<1>. SUFFICES ASSUME LetterInv, [Next]_vars PROVE LetterInv'
  OBVIOUS
<1>1. ASSUME NEW s \in Sweepers, Work(s) PROVE LetterInv'
  BY <1>1, BeginSweepStep, EndSweepStep, SendStep, VisitStep, SkipStep, SeekStep, MarkStep
     DEF Work
<1>2. ASSUME NEW s \in Sweepers, Fault(s) PROVE LetterInv'
  BY <1>2, SeekFailsStep, MarkFailsStep, SendStep, CrashStep DEF Fault
<1>3. CASE Day
  BY <1>3, OutsideStep, DaysAssumption DEF Day, LetterInv, TypeOK
<1>4. ASSUME NEW u \in Users, Extend(u) PROVE LetterInv'
  BY <1>4, OutsideStep DEF Extend, LetterInv, TypeOK
<1>5. ASSUME NEW u \in Users, Link(u) PROVE LetterInv'
  BY <1>5, OutsideStep DEF Link, LetterInv, TypeOK
<1>6. CASE UNCHANGED vars
  BY <1>6, OutsideStep DEF vars, LetterInv, TypeOK
<1>. QED BY <1>1, <1>2, <1>3, <1>4, <1>5, <1>6 DEF Next

(* A sweep that stands before a letter is alone with a mark of the table.  *)
THEOREM LetterInvariant == Spec => []LetterInv
BY InitLetterInv, NextLetterInv, PTL DEF Spec

(* One letter to a threshold of a date, however many sweeps overlap.       *)
THEOREM OneLetter == Spec => []LetterOnce
<1>1. LetterInv => LetterOnce
  BY DEF LetterInv, LetterOnce, TypeOK
<1>. QED BY <1>1, LetterInvariant, PTL

(* A mark without its letter is the work of the mail or of a stop.         *)
THEOREM MarkedIsWritten == Spec => []MarkedMeansWritten
<1>1. LetterInv => MarkedMeansWritten
  BY DEF LetterInv
<1>. QED BY <1>1, LetterInvariant, PTL
=============================================================================
