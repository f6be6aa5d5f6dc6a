-------------------------- MODULE AnchoringProofs ---------------------------
(***************************************************************************)
(* What holds of anchoring for every list of calendars and TSAs, every     *)
(* schedule and every number of calls.  TypeInv types the variables;       *)
(* ProofsInv and QueueInv are what a call keeps of its tracks, RowsInv     *)
(* what the table keeps of the schedule: ReadInv and DueInv say of the     *)
(* call that runs that the row it may still insert will be far enough, and *)
(* DurableInv of the one that commits that its row is the newest.          *)
(***************************************************************************)
EXTENDS Anchoring, DataLemmas, TLAPS

\* A call that runs, and one whose row is not inserted yet.
Asking == {"start", "ots", "tsa", "decide"}
Live == Asking \cup {"committing"}

AnchorRow == [head: Nat, submitted_at: Nat, scheduled: BOOLEAN]

TypeInv ==
    /\ pc \in Between \cup Live
    /\ head \in Nat
    /\ toAsk \in Seq(ToSet(Calendars)) /\ accepted \in Seq(ToSet(Calendars))
    /\ toTry \in Seq(ToSet(Tsas)) /\ contacted \in Seq(ToSet(Tsas))
    /\ token \in TokenType \cup {None}
    /\ row \in RowType \cup {None}
    /\ fault \in {"none", "cancelled", "escaped", "refused"}
    /\ schedule \in Schedules /\ blobRequired \in BOOLEAN
    /\ entries \in Nat /\ now \in Nat
    /\ scheduled \in BOOLEAN
    /\ rows \in Seq(AnchorRow) /\ durable \in 0..Len(rows)

-----------------------------------------------------------------------------
\* Every variable keeps its type, whatever is called, answered and logged.
LEMMA TypesHold == Spec => []TypeInv
<1> USE DEF Between, Live, Asking
<1>1. Init => TypeInv
  <2> SUFFICES ASSUME Init PROVE TypeInv
    OBVIOUS
  <2>1. pc \in Between \cup Live /\ head \in Nat /\ entries \in Nat /\ now \in Nat
    BY DEF Init, TracksInit
  <2>2. /\ toAsk \in Seq(ToSet(Calendars)) /\ accepted \in Seq(ToSet(Calendars))
        /\ toTry \in Seq(ToSet(Tsas)) /\ contacted \in Seq(ToSet(Tsas))
        /\ rows \in Seq(AnchorRow)
    BY DEF Init, TracksInit
  <2>3. token \in TokenType \cup {None} /\ row \in RowType \cup {None}
    BY DEF Init, TracksInit
  <2>4. /\ fault \in {"none", "cancelled", "escaped", "refused"}
        /\ scheduled \in BOOLEAN /\ schedule \in Schedules /\ blobRequired \in BOOLEAN
    BY Zenon DEF Init, TracksInit
  <2>5. durable \in 0..Len(rows)
    BY DEF Init
  <2> QED
    BY <2>1, <2>2, <2>3, <2>4, <2>5 DEF TypeInv
<1>2. TypeInv /\ [Next]_vars => TypeInv'
  <2> SUFFICES ASSUME TypeInv, [Next]_vars PROVE TypeInv'
    OBVIOUS
  <2> USE DEF setup
  <2>0. Len(rows) \in 0..Len(rows)
    BY DEF TypeInv
  <2>1. CASE LogEntry \/ OtherCommit
    BY <2>0, <2>1 DEF TypeInv, LogEntry, OtherCommit, tracks
  <2>2. CASE Tick
    BY <2>2 DEF TypeInv, Tick, tracks
  <2>9. CASE Close
    <3>1. /\ SubSeq(rows, 1, durable) \in Seq(AnchorRow)
          /\ Len(SubSeq(rows, 1, durable)) = durable
      BY InitialParts DEF TypeInv
    <3> QED
      BY <2>9, <3>1 DEF TypeInv, Close, tracks
  <2>3. CASE CallDue \/ CallUnasked
    <3>1. /\ schedule.calendars \in Nat /\ schedule.calendars <= Len(Calendars)
          /\ schedule.tsas \in Nat /\ schedule.tsas <= Len(Tsas)
      BY SchedulesAssumption, TracksAssumption DEF TypeInv
    <3>2. /\ SubSeq(Calendars, 1, schedule.calendars) \in Seq(ToSet(Calendars))
          /\ SubSeq(Tsas, 1, schedule.tsas) \in Seq(ToSet(Tsas))
      BY <3>1, TracksAssumption, InitialParts
    <3>3. PICK asked \in BOOLEAN : CallAnchor(asked)
      BY <2>3 DEF CallDue, CallUnasked
    <3>4. /\ pc' \in Between \cup Live /\ head' \in Nat
          /\ accepted' \in Seq(ToSet(Calendars)) /\ contacted' \in Seq(ToSet(Tsas))
          /\ token' \in TokenType \cup {None} /\ row' \in RowType \cup {None}
      BY <3>3 DEF CallAnchor, Call
    <3>5. fault' = "none" /\ scheduled' \in BOOLEAN
      BY <3>3, Zenon DEF CallAnchor, Call
    <3> QED
      BY <3>2, <3>3, <3>4, <3>5 DEF TypeInv, CallAnchor, Call
  <2>4. CASE Read
    BY <2>4 DEF TypeInv, Read, NothingToDo, Begin
  <2>5. CASE Submit
    <3>1. CASE AskCalendar
      <4>1. /\ Tail(toAsk) \in Seq(ToSet(Calendars))
            /\ Append(accepted, Head(toAsk)) \in Seq(ToSet(Calendars))
        BY <3>1, Tails, Appends DEF TypeInv, AskCalendar
      <4> QED
        BY <2>5, <3>1, <4>1 DEF TypeInv, Submit, AskCalendar
    <3>2. CASE Granted
      <4>1. /\ Head(toTry) \in ToSet(Tsas)
            /\ Append(contacted, Head(toTry)) \in Seq(ToSet(Tsas))
        BY <3>2, Tails, Appends DEF TypeInv, Granted
      <4>2. Answers(head) \subseteq AnswerType
        BY DEF TypeInv, Answers, AnswerType, AnswersWith, Imprint, OtherData
      <4>3. token' \in TokenType
        BY <3>2, <4>1, <4>2 DEF Granted, TokenType
      <4> QED
        BY <2>5, <3>2, <4>1, <4>3 DEF TypeInv, Submit, Granted
    <3>3. CASE Refused
      <4>1. /\ Tail(toTry) \in Seq(ToSet(Tsas))
            /\ Append(contacted, Head(toTry)) \in Seq(ToSet(Tsas))
        BY <3>3, Tails, Appends DEF TypeInv, Refused
      <4> QED
        BY <2>5, <3>3, <4>1 DEF TypeInv, Submit, Refused
    <3>4. CASE Escapes
      <4>1. /\ Append(contacted, Head(toTry)) \in Seq(ToSet(Tsas))
            /\ contacted' = contacted \/ contacted' = Append(contacted, Head(toTry))
        BY <3>4, Tails, Appends DEF TypeInv, Escapes
      <4> QED
        BY <2>5, <3>4, <4>1 DEF TypeInv, Submit, Escapes
    <3>5. CASE CalendarsAsked \/ TsasExhausted \/ BothFailed
      BY <2>5, <3>5 DEF TypeInv, Submit, CalendarsAsked, TsasExhausted, BothFailed
    <3> QED
      BY <2>5, <3>1, <3>2, <3>3, <3>4, <3>5 DEF Submit, Submissions
  <2>6. CASE Store
    <3>1. [head |-> head, calendars |-> accepted, token |-> token] \in RowType
      BY DEF TypeInv, RowType
    <3>2. /\ rows' \in Seq(AnchorRow) /\ Len(rows') = Len(rows) + 1
          /\ durable' = durable
      BY <2>6, Appends DEF TypeInv, AnchorRow, Store
    <3>3. durable' \in 0..Len(rows')
      BY <3>2 DEF TypeInv
    <3> QED
      BY <2>6, <3>1, <3>2, <3>3 DEF TypeInv, Store, Insert, GoesOn
  <2>7. CASE Publish
    BY <2>0, <2>7 DEF TypeInv, Publish, Commit, GoesOn
  <2>8. CASE Fail \/ Cancelled
    BY <2>8 DEF TypeInv, Fail, ConstraintFails, DatabaseRefuses, Cancelled, Cancel
  <2>10. CASE UNCHANGED vars
    BY <2>10 DEF TypeInv, vars, tracks
  <2> QED
    BY <2>1, <2>2, <2>3, <2>4, <2>5, <2>6, <2>7, <2>8, <2>9, <2>10 DEF Next
<1> QED
  BY <1>1, <1>2, PTL DEF Spec

-----------------------------------------------------------------------------
(* The tracks of a call. *)

\* The row and the proofs it is made of.
ProofsInv ==
    /\ RowCarriesProofs
    /\ EitherTrackSuffices
    /\ pc \in Asking => row = None
    /\ pc \in {"ots", "tsa", "decide"} => head > 0
    /\ pc \in {"start", "ots", "tsa"} => token = None
    /\ token # None => SubmitAccepts(token.tst)

\* The TSAs contacted are the first of Tsas, those to try are the next.
QueueInv ==
    /\ Len(contacted) <= Len(Tsas)
    /\ \A i \in 1..Len(contacted) : contacted[i] = Tsas[i]
    /\ token # None => contacted # << >> /\ Last(contacted) = token.tsa
    /\ pc \in {"start", "ots", "tsa"} =>
          /\ Len(contacted) + Len(toTry) <= Len(Tsas)
          /\ \A i \in 1..Len(toTry) : toTry[i] = Tsas[Len(contacted) + i]
    /\ pc \in {"start", "ots", "tsa"} => token = None
    /\ pc \in {"decide", "committing", "anchored"} /\ token = None => toTry = << >>

\* A row carries the proofs there are; proofs in hand are lost to a
\* cancellation, an exception that is no TSAError, the database or its old
\* NOT NULL only; a token in hand was accepted.
LEMMA ProofsHold == Spec => []ProofsInv
<1> USE DEF Between, Live, Asking
<1>1. Init => ProofsInv
  BY DEF Init, TracksInit, ProofsInv, RowCarriesProofs, EitherTrackSuffices, InHand
<1>2. TypeInv /\ ProofsInv /\ [Next]_vars => ProofsInv'
  <2> SUFFICES ASSUME TypeInv, ProofsInv, [Next]_vars PROVE ProofsInv'
    OBVIOUS
  <2> USE DEF ProofsInv, RowCarriesProofs, EitherTrackSuffices, InHand, setup
  <2>1. CASE LogEntry \/ OtherCommit \/ Close \/ Tick \/ UNCHANGED vars
    BY <2>1 DEF LogEntry, OtherCommit, Close, Tick, vars, tracks
  <2>2. CASE CallDue \/ CallUnasked
    BY <2>2 DEF CallDue, CallUnasked, CallAnchor, Call
  <2>3. CASE Read
    BY <2>3 DEF Read, NothingToDo, Begin, TypeInv
  <2>4. CASE Submit
    <3>1. CASE Granted
      <4>1. PICK a \in Answers(head) :
               SubmitAccepts(a) /\ token' = [tsa |-> Head(toTry), tst |-> a]
        BY <3>1 DEF Granted
      <4>2. SubmitAccepts(token'.tst)
        BY <4>1
      <4> QED
        BY <2>4, <3>1, <4>2 DEF Submit, Granted
    <3>2. CASE AskCalendar
      BY <2>4, <3>2 DEF Submit, AskCalendar
    <3>3. CASE Refused
      BY <2>4, <3>3 DEF Submit, Refused
    <3>4. CASE CalendarsAsked \/ Escapes \/ TsasExhausted \/ BothFailed
      BY <2>4, <3>4 DEF Submit, CalendarsAsked, Escapes, TsasExhausted, BothFailed
    <3> QED
      BY <2>4, <3>1, <3>2, <3>3, <3>4 DEF Submit, Submissions
  <2>5. CASE Store
    <3>1. [head |-> head, calendars |-> accepted, token |-> token] # None
      BY TracksAssumption DEF TypeInv, RowType
    <3> QED
      BY <2>5, <3>1 DEF Store, Insert, GoesOn
  <2>6. CASE Publish
    BY <2>6 DEF Publish, Commit, GoesOn
  <2>7. CASE Fail \/ Cancelled
    BY <2>7 DEF Fail, ConstraintFails, DatabaseRefuses, Cancelled, Cancel
  <2> QED
    BY <2>1, <2>2, <2>3, <2>4, <2>5, <2>6, <2>7 DEF Next
<1> QED
  BY <1>1, <1>2, TypesHold, PTL DEF Spec

\* The TSAs are contacted in the order of the schedule.
LEMMA QueueHolds == Spec => []QueueInv
<1> USE DEF Between, Live, Asking
<1>1. Init => QueueInv
  BY TracksAssumption DEF Init, TracksInit, QueueInv
<1>2. TypeInv /\ QueueInv /\ [Next]_vars => QueueInv'
  <2> SUFFICES ASSUME TypeInv, QueueInv, [Next]_vars PROVE QueueInv'
    OBVIOUS
  <2>1. CASE LogEntry \/ OtherCommit \/ Close \/ Tick \/ UNCHANGED vars
    <3>1. UNCHANGED tracks
      BY <2>1, Zenon DEF LogEntry, OtherCommit, Close, Tick, vars
    <3> QED
      BY <3>1 DEF tracks, QueueInv
  <2>2. CASE CallDue \/ CallUnasked
    <3>1. schedule.tsas \in Nat /\ schedule.tsas <= Len(Tsas)
      BY SchedulesAssumption, TracksAssumption DEF TypeInv
    <3>2. /\ contacted' = << >> /\ token' = None /\ pc' = "start"
          /\ toTry' = SubSeq(Tsas, 1, schedule.tsas)
      BY <2>2 DEF CallDue, CallUnasked, CallAnchor, Call
    <3>3. /\ Len(toTry') = schedule.tsas
          /\ \A i \in 1..schedule.tsas : toTry'[i] = Tsas[i]
      BY <3>1, <3>2, TracksAssumption, InitialParts
    <3> QED
      BY <3>1, <3>2, <3>3, TracksAssumption DEF QueueInv
  <2>3. CASE Read \/ Cancelled
    BY <2>3 DEF Read, NothingToDo, Begin, Cancelled, Cancel, QueueInv
  <2>5. CASE Store \/ Publish \/ Fail
    BY <2>5 DEF Store, Insert, Publish, Commit, GoesOn, Fail, ConstraintFails, DatabaseRefuses,
                QueueInv
  <2>4. CASE Submit
    <3>1. CASE Granted \/ Refused \/ (Escapes /\ Head(toTry) \notin Unparseable)
      <4> DEFINE u == Head(toTry)
      <4>1. /\ toTry # << >> /\ pc = "tsa"
            /\ contacted' = Append(contacted, u)
        BY <3>1 DEF Granted, Refused, Escapes
      <4>2. /\ u \in ToSet(Tsas) /\ u = toTry[1]
            /\ Len(toTry) \in Nat \ {0}
            /\ Len(Tail(toTry)) = Len(toTry) - 1
            /\ \A i \in 1..Len(Tail(toTry)) : Tail(toTry)[i] = toTry[i + 1]
        BY <4>1, Tails DEF TypeInv
      <4>3. /\ Len(contacted') = Len(contacted) + 1
            /\ \A i \in 1..Len(contacted) : contacted'[i] = contacted[i]
            /\ contacted'[Len(contacted) + 1] = u
            /\ contacted' # << >> /\ Len(contacted) \in Nat
        BY <4>1, <4>2, Appends DEF TypeInv
      <4>4. u = Tsas[Len(contacted) + 1] /\ Len(contacted) + Len(toTry) <= Len(Tsas)
        BY <4>1, <4>2 DEF QueueInv
      <4>5. /\ Len(contacted') <= Len(Tsas)
            /\ \A i \in 1..Len(contacted') : contacted'[i] = Tsas[i]
        BY <4>2, <4>3, <4>4, TracksAssumption DEF QueueInv
      <4>6. CASE Granted
        <5>1. pc' = "decide" /\ token'.tsa = u /\ Last(contacted') = u
          BY <4>3, <4>6 DEF Granted, Last
        <5>2. token' # None
          <6>1. Answers(head) \subseteq AnswerType
            BY DEF TypeInv, Answers, AnswerType, AnswersWith, Imprint, OtherData
          <6>2. token' \in TokenType
            BY <4>2, <4>6, <6>1 DEF Granted, TokenType
          <6> QED
            BY <6>2, TracksAssumption
        <5> QED
          BY <4>3, <4>5, <5>1, <5>2 DEF QueueInv
      <4>7. CASE Refused
        <5>1. pc' = "tsa" /\ token' = None /\ toTry' = Tail(toTry)
          BY <4>1, <4>7 DEF Refused, QueueInv
        <5>2. Len(contacted') + Len(toTry') <= Len(Tsas)
          BY <4>2, <4>3, <4>4, <5>1, TracksAssumption
        <5>3. \A i \in 1..Len(toTry') : toTry'[i] = Tsas[Len(contacted') + i]
          <6> SUFFICES ASSUME NEW i \in 1..Len(toTry')
                       PROVE  toTry'[i] = Tsas[Len(contacted') + i]
            OBVIOUS
          <6>1. toTry'[i] = toTry[i + 1] /\ i + 1 \in 1..Len(toTry)
            BY <4>2, <5>1
          <6>2. toTry[i + 1] = Tsas[Len(contacted) + (i + 1)]
            BY <4>1, <6>1 DEF QueueInv
          <6> QED
            BY <4>3, <6>1, <6>2
        <5> QED
          BY <4>5, <5>1, <5>2, <5>3 DEF QueueInv
      <4>8. CASE Escapes
        <5>1. pc' = "raised" /\ token' = None
          BY <4>1, <4>8 DEF Escapes, QueueInv
        <5> QED
          BY <4>5, <5>1 DEF QueueInv
      <4> QED
        BY <3>1, <4>6, <4>7, <4>8
    <3>2. CASE TsasExhausted
      BY <2>4, <3>2 DEF Submit, TsasExhausted, QueueInv
    <3>3. CASE AskCalendar
      BY <2>4, <3>3 DEF Submit, AskCalendar, QueueInv
    <3>4. CASE CalendarsAsked \/ BothFailed \/ (Escapes /\ Head(toTry) \in Unparseable)
      BY <2>4, <3>4 DEF Submit, CalendarsAsked, Escapes, BothFailed, QueueInv
    <3> QED
      BY <2>4, <3>1, <3>2, <3>3, <3>4 DEF Submit, Submissions
  <2> QED
    BY <2>1, <2>2, <2>3, <2>4, <2>5 DEF Next
<1> QED
  BY <1>1, <1>2, TypesHold, PTL DEF Spec

\* A row that INSERT put in the table carries every proof of its call, at least
\* one, and a call that raises of its own accord has inserted none: cancelled or
\* refused in its commit, it may have (anchor, _insert_anchor_locked).
THEOREM RowsCarryProofs == Spec => []RowCarriesProofs
<1>1. ProofsInv => RowCarriesProofs
  BY DEF ProofsInv
<1> QED
  BY <1>1, ProofsHold, PTL

\* A call with a proof in hand raises only if it is cancelled, meets an exception
\* that is no TSAError, is refused by the database, or has the TSA's token alone
\* for a table with the old NOT NULL: the failures of a track are no reason.
THEOREM EitherTrackIsEnough == Spec => []EitherTrackSuffices
<1>1. ProofsInv => EitherTrackSuffices
  BY DEF ProofsInv
<1> QED
  BY <1>1, ProofsHold, PTL

\* submit_to_tsa stores no token that verify_tst refuses, if its TSA stamped
\* the request.
THEOREM TokensVerify == Spec => []StoredTokensVerify
<1>1. ProofsInv => StoredTokensVerify
  <2> SUFFICES ASSUME ProofsInv, row # None, row.token # None,
                      row.token.tst.imprint = Imprint("sha256", row.head)
               PROVE  VerifyTst(row.token.tst, row.head)
    BY DEF StoredTokensVerify
  <2>1. row.token = token /\ SubmitAccepts(row.token.tst)
    BY DEF ProofsInv, RowCarriesProofs
  <2>2. /\ row.token.tst.imprint.algorithm = "sha256"
        /\ row.token.tst.imprint.data = row.head
    BY DEF Imprint
  <2> QED
    BY <2>1, <2>2 DEF SubmitAccepts, VerifyTst
<1> QED
  BY <1>1, ProofsHold, PTL

\* The TSAs are contacted in order, until one grants a token or all have failed.
THEOREM TsasInOrder == Spec => []FallbackInOrder
<1>1. TypeInv /\ QueueInv => FallbackInOrder
  <2> SUFFICES ASSUME TypeInv, QueueInv PROVE FallbackInOrder
    OBVIOUS
  <2>1. IsPrefix(contacted, Tsas)
    <3>1. contacted \in Seq(ToSet(Tsas)) /\ Tsas \in Seq(ToSet(Tsas))
      BY TracksAssumption DEF TypeInv
    <3>2. Len(contacted) <= Len(Tsas) /\ \A i \in 1..Len(contacted) : contacted[i] = Tsas[i]
      BY DEF QueueInv
    <3>3. SubSeq(contacted, 1, Len(contacted)) = SubSeq(Tsas, 1, Len(contacted))
      BY <3>1, <3>2
    <3> QED
      BY <3>2, <3>3 DEF IsPrefix
  <2> QED
    BY <2>1 DEF QueueInv, FallbackInOrder
<1> QED
  BY <1>1, TypesHold, QueueHolds, PTL

-----------------------------------------------------------------------------
(* The schedule. *)

Newest == rows[Len(rows)]

\* The head a call has read is an entry, and no anchor is ahead of it.
ReadInv ==
    pc \in {"ots", "tsa", "decide"} =>
        /\ head \in 1..entries
        /\ rows # << >> => Newest.head <= head

\* Whether an anchor of the entry, made now, is as far from the newest as
\* should_anchor asks for.
Far(entry) ==
    \/ entry - Newest.head >= schedule.every_n_entries
    \/ /\ entry > Newest.head
       /\ now - Newest.submitted_at >= schedule.every_m_minutes

\* A call that should_anchor asked for stays due: entries and the clock only grow.
DueInv ==
    pc \in Asking /\ scheduled /\ rows # << >> => Far(IF pc = "start" THEN entries ELSE head)

RowsInv ==
    /\ \A i \in 1..Len(rows) : rows[i].head \in 1..entries /\ rows[i].submitted_at <= now
    /\ AnchorsAdvance
    /\ AnchorsAreSpaced

\* The parts of a schedule.
LEMMA ScheduleType ==
    TypeInv => schedule.every_n_entries \in Int /\ schedule.every_m_minutes \in Int
  BY SchedulesAssumption DEF TypeInv

\* The newest row of a table that has one.
LEMMA NewestType == TypeInv /\ rows # << >> => Len(rows) \in 1..Len(rows) /\ Newest \in AnchorRow
  BY DEF TypeInv, Newest

\* Every row is an entry that was there, and rows keep the schedule's distance.
LEMMA RowsHold == Spec => [](ReadInv /\ DueInv /\ RowsInv)
<1> USE DEF Between, Live, Asking
<1>1. Init => ReadInv /\ DueInv /\ RowsInv
  BY DEF Init, TracksInit, ReadInv, DueInv, RowsInv, AnchorsAdvance, AnchorsAreSpaced
<1>2. TypeInv /\ ReadInv /\ DueInv /\ RowsInv /\ [Next]_vars => (ReadInv /\ DueInv /\ RowsInv)'
  <2> SUFFICES ASSUME TypeInv, ReadInv, DueInv, RowsInv, [Next]_vars
               PROVE  (ReadInv /\ DueInv /\ RowsInv)'
    OBVIOUS
  <2>n. schedule.every_n_entries \in Int /\ schedule.every_m_minutes \in Int
    BY ScheduleType
  <2>r. rows # << >> => /\ Len(rows) \in 1..Len(rows) /\ Newest.head \in Nat
                        /\ Newest.submitted_at \in Nat /\ Newest.head <= entries
    BY NewestType DEF RowsInv, AnchorRow, Newest
  <2>t. \A i \in 1..Len(rows) : rows[i].head \in Nat /\ rows[i].submitted_at \in Nat
    <3>1. \A i \in 1..Len(rows) : rows[i] \in AnchorRow
      BY ElementsOf DEF TypeInv
    <3> QED
      BY <3>1 DEF AnchorRow
  <2>s. ASSUME rows' = rows, schedule' = schedule, entries' \in Nat, entries' >= entries,
               now' \in Nat, now' >= now
        PROVE  RowsInv'
    <3>1. \A i \in 1..Len(rows) : rows[i].head \in 1..entries' /\ rows[i].submitted_at <= now'
      BY <2>s, <2>t DEF RowsInv, TypeInv
    <3> QED
      BY <2>s, <3>1 DEF RowsInv, AnchorsAdvance, AnchorsAreSpaced
  <2>1. CASE LogEntry \/ OtherCommit \/ Tick
    <3>1. /\ rows' = rows /\ schedule' = schedule /\ pc' = pc /\ head' = head
          /\ scheduled' = scheduled
          /\ entries' \in Nat /\ entries' >= entries /\ now' \in Nat /\ now' >= now
      BY <2>1 DEF LogEntry, OtherCommit, Tick, tracks, setup, TypeInv
    <3>2. ReadInv'
      BY <3>1 DEF ReadInv, Newest, TypeInv
    <3>3. DueInv'
      <4> SUFFICES ASSUME (pc \in Asking /\ scheduled /\ rows # << >>)'
                   PROVE  Far(IF pc = "start" THEN entries ELSE head)'
        BY DEF DueInv
      <4>1. pc \in Asking /\ scheduled /\ rows # << >>
        BY <3>1, Zenon
      <4>2. Far(IF pc = "start" THEN entries ELSE head)
        BY <4>1 DEF DueInv
      <4> QED
        <5>1. Newest' = Newest /\ rows # << >>
          BY <3>1, <4>1 DEF Newest
        <5>2. CASE pc = "start"
          <6>1. Far(entries)
            BY <4>2, <5>2
          <6>2. entries \in Nat /\ now \in Nat
            BY DEF TypeInv
          <6>3. \/ entries' - Newest.head >= schedule.every_n_entries
                \/ /\ entries' > Newest.head
                   /\ now' - Newest.submitted_at >= schedule.every_m_minutes
            BY <3>1, <5>1, <6>1, <6>2, <2>n, <2>r DEF Far
          <6> QED
            BY <3>1, <5>1, <5>2, <6>3 DEF Far
        <5>3. CASE pc # "start"
          <6>1. Far(head)
            BY <4>2, <5>3
          <6> QED
            BY <3>1, <5>1, <5>3, <6>1, <2>n, <2>r DEF Far, TypeInv
        <5> QED
          BY <5>2, <5>3
    <3> QED
      BY <2>s, <3>1, <3>2, <3>3
  <2>2. CASE CallDue \/ CallUnasked
    <3>1. /\ rows' = rows /\ schedule' = schedule /\ entries' = entries /\ now' = now
          /\ pc' = "start"
      BY <2>2 DEF CallDue, CallUnasked, CallAnchor, Call, setup
    <3>2. DueInv'
      <4>1. CASE CallDue
        <5>1. rows # << >> => Far(entries)
          BY <4>1, <2>n, <2>r
          DEF CallDue, ShouldAnchor, EntriesSinceLast, Last, Far, Newest, TypeInv
        <5> QED
          BY <3>1, <5>1 DEF DueInv, Far, Newest
      <4>2. CASE CallUnasked
        BY <4>2 DEF CallUnasked, CallAnchor, DueInv
      <4> QED
        BY <2>2, <4>1, <4>2
    <3> QED
      BY <2>s, <3>1, <3>2 DEF ReadInv, TypeInv
  <2>3. CASE Read
    <3>1. rows' = rows /\ schedule' = schedule /\ entries' = entries /\ now' = now
          /\ scheduled' = scheduled
      BY <2>3 DEF Read, setup
    <3>2. /\ pc = "start"
          /\ \/ pc' \in Between
             \/ pc' = "ots" /\ head' = entries /\ entries > 0
      BY <2>3 DEF Read, NothingToDo, Begin
    <3>3. ReadInv' /\ DueInv'
      BY <3>1, <3>2, <2>r DEF ReadInv, DueInv, Far, Newest, TypeInv
    <3> QED
      BY <2>s, <3>1, <3>3 DEF TypeInv
  <2>4. CASE Submit \/ Publish \/ Fail \/ Cancelled \/ UNCHANGED vars
    <3>1. rows' = rows /\ schedule' = schedule /\ entries' = entries /\ now' = now
          /\ scheduled' = scheduled /\ head' = head
      BY <2>4 DEF Submit, Submissions, AskCalendar, CalendarsAsked, Granted, Refused, Escapes,
                  TsasExhausted, BothFailed, Publish, Commit, GoesOn, Fail, ConstraintFails,
                  DatabaseRefuses, Cancelled, Cancel, vars, tracks, setup
    <3>2. \/ pc' = pc \/ pc' \in Between
          \/ pc \in {"ots", "tsa", "decide"} /\ pc' \in {"ots", "tsa", "decide"}
      BY <2>4 DEF Submit, Submissions, AskCalendar, CalendarsAsked, Granted, Refused, Escapes,
                  TsasExhausted, BothFailed, Publish, Commit, GoesOn, Fail, ConstraintFails,
                  DatabaseRefuses, Cancelled, Cancel, vars, tracks, setup
    <3>3. ReadInv' /\ DueInv'
      BY <3>1, <3>2 DEF ReadInv, DueInv, Far, Newest
    <3> QED
      BY <2>s, <3>1, <3>3 DEF TypeInv
  <2>5. CASE Store
    <3> DEFINE e == [head |-> head, submitted_at |-> now, scheduled |-> scheduled]
               n == Len(rows)
    <3>1. /\ rows' = Append(rows, e) /\ pc = "decide" /\ pc' \in {"committing", "raised"}
          /\ schedule' = schedule /\ entries' = entries /\ now' = now
      BY <2>5 DEF Store, Insert, GoesOn, setup
    <3>2. e \in AnchorRow /\ rows \in Seq(AnchorRow) /\ n \in Nat
      BY DEF TypeInv, AnchorRow
    <3>3. /\ Len(rows') = n + 1 /\ rows'[n + 1] = e
          /\ \A i \in 1..n : rows'[i] = rows[i]
      BY <3>1, <3>2, Appends
    <3>4. e.head \in 1..entries /\ e.submitted_at = now /\ e.scheduled = scheduled
          /\ e.head = head
      BY <3>1 DEF ReadInv
    <3>5. \A i \in 1..n : /\ rows[i].head <= head /\ rows[i].submitted_at <= now
                          /\ rows[i].head <= Newest.head
      <4> SUFFICES ASSUME NEW i \in 1..n
                   PROVE  /\ rows[i].head <= head /\ rows[i].submitted_at <= now
                          /\ rows[i].head <= Newest.head
        OBVIOUS
      <4>1. rows # << >>
        BY <3>2
      <4>2. rows[i].head <= Newest.head
        BY <4>1, <2>r, <2>t, <3>2 DEF RowsInv, AnchorsAdvance, Newest
      <4> QED
        BY <4>1, <4>2, <2>r, <2>t, <3>1, <3>4 DEF ReadInv, RowsInv, TypeInv
    <3>6. n > 0 /\ scheduled => Far(head)
      BY <3>1, <3>2 DEF DueInv
    <3>7. AnchorsAdvance'
      <4> SUFFICES ASSUME NEW i \in 1..n + 1, NEW j \in 1..n + 1, i < j
                   PROVE  /\ rows'[i].head <= rows'[j].head
                          /\ rows'[i].submitted_at <= rows'[j].submitted_at
                          /\ rows'[j].scheduled /\ schedule.every_n_entries > 0 =>
                                rows'[i].head < rows'[j].head
        BY <3>1, <3>3 DEF AnchorsAdvance
      <4>1. CASE j \in 1..n
        BY <4>1, <3>2, <3>3 DEF RowsInv, AnchorsAdvance
      <4>2. CASE j = n + 1
        <5>1. i \in 1..n /\ rows'[i] = rows[i] /\ rows'[j] = e
          BY <4>2, <3>2, <3>3
        <5>2. scheduled /\ schedule.every_n_entries > 0 => head > Newest.head
          BY <5>1, <3>2, <3>4, <3>6, <2>n, <2>r DEF Far
        <5> QED
          BY <5>1, <5>2, <3>4, <3>5, <2>r, <2>t DEF TypeInv
      <4> QED
        BY <4>1, <4>2, <3>2
    <3>8. AnchorsAreSpaced'
      <4> SUFFICES ASSUME NEW i \in 2..n + 1, rows'[i].scheduled
                   PROVE  \/ rows'[i].head - rows'[i - 1].head >= schedule.every_n_entries
                          \/ rows'[i].submitted_at - rows'[i - 1].submitted_at
                                >= schedule.every_m_minutes
        BY <3>1, <3>3 DEF AnchorsAreSpaced
      <4>1. CASE i \in 2..n
        BY <4>1, <3>2, <3>3 DEF RowsInv, AnchorsAreSpaced
      <4>2. CASE i = n + 1
        <5>1. n > 0 /\ i - 1 = n /\ rows'[i - 1] = Newest /\ rows'[i] = e
          BY <4>2, <3>2, <3>3 DEF Newest
        <5>2. Far(head)
          BY <5>1, <3>4, <3>6
        <5> QED
          BY <5>1, <5>2, <3>4 DEF Far
      <4> QED
        BY <4>1, <4>2, <3>2
    <3>9. \A i \in 1..Len(rows') : /\ rows'[i].head \in 1..entries'
                                   /\ rows'[i].submitted_at <= now'
      BY <3>1, <3>2, <3>3, <3>4 DEF RowsInv, TypeInv
    <3> QED
      BY <3>1, <3>7, <3>8, <3>9 DEF ReadInv, DueInv, RowsInv
  <2>6. CASE Close
    <3>1. /\ schedule' = schedule /\ entries' = entries /\ now' = now /\ pc' = pc
          /\ scheduled' = scheduled /\ head' = head
      BY <2>6 DEF Close, tracks, setup
    <3>2. /\ rows' = SubSeq(rows, 1, durable) /\ durable \in 0..Len(rows) /\ durable < Len(rows)
      BY <2>6 DEF Close, TypeInv
    <3>3. /\ Len(rows') = durable
          /\ \A i \in 1..durable : rows'[i] = rows[i]
      BY <3>2, InitialParts DEF TypeInv
    <3>4. RowsInv'
      <4>1. AnchorsAdvance'
        <5> SUFFICES ASSUME NEW i \in 1..durable, NEW j \in 1..durable, i < j
                     PROVE  /\ rows'[i].head <= rows'[j].head
                            /\ rows'[i].submitted_at <= rows'[j].submitted_at
                            /\ rows'[j].scheduled /\ schedule.every_n_entries > 0 =>
                                  rows'[i].head < rows'[j].head
          BY <3>1, <3>3, Zenon DEF AnchorsAdvance
        <5>1. /\ i \in 1..Len(rows) /\ rows'[i] = rows[i]
              /\ j \in 1..Len(rows) /\ rows'[j] = rows[j]
          BY <3>2, <3>3
        <5> QED
          BY <5>1 DEF RowsInv, AnchorsAdvance
      <4>2. AnchorsAreSpaced'
        <5> SUFFICES ASSUME NEW i \in 2..durable, rows'[i].scheduled
                     PROVE  \/ rows'[i].head - rows'[i - 1].head >= schedule.every_n_entries
                            \/ rows'[i].submitted_at - rows'[i - 1].submitted_at
                                  >= schedule.every_m_minutes
          BY <3>1, <3>3, Zenon DEF AnchorsAreSpaced
        <5>1. i \in 2..Len(rows) /\ rows'[i] = rows[i] /\ rows'[i - 1] = rows[i - 1]
          BY <3>2, <3>3
        <5> QED
          BY <5>1 DEF RowsInv, AnchorsAreSpaced
      <4>3. \A i \in 1..Len(rows') : /\ rows'[i].head \in 1..entries'
                                     /\ rows'[i].submitted_at <= now'
        BY <3>1, <3>2, <3>3 DEF RowsInv
      <4> QED
        BY <4>1, <4>2, <4>3 DEF RowsInv
    <3>5. rows' # << >> => /\ rows # << >> /\ Newest'.head \in Nat /\ Newest'.submitted_at \in Nat
                           /\ Newest'.head <= Newest.head
                           /\ Newest'.submitted_at <= Newest.submitted_at
      BY <2>t, <3>2, <3>3 DEF RowsInv, AnchorsAdvance, Newest
    <3>6. ReadInv'
      BY <3>1, <3>5, <2>r DEF ReadInv, TypeInv
    <3>7. DueInv'
      <4> SUFFICES ASSUME (pc \in Asking /\ scheduled /\ rows # << >>)'
                   PROVE  Far(IF pc = "start" THEN entries ELSE head)'
        BY DEF DueInv
      <4> DEFINE entry == IF pc = "start" THEN entries ELSE head
      <4>1. Far(entry) /\ entry \in Nat
        BY <3>1, <3>5 DEF DueInv, TypeInv
      <4>2. ASSUME NEW e \in Nat, Far(e)
            PROVE  \/ e - Newest'.head >= schedule.every_n_entries
                   \/ /\ e > Newest'.head
                      /\ now - Newest'.submitted_at >= schedule.every_m_minutes
        <5>1. /\ Newest.head \in Nat /\ Newest.submitted_at \in Nat /\ now \in Nat
              /\ Newest'.head \in Nat /\ Newest'.submitted_at \in Nat
              /\ Newest'.head <= Newest.head /\ Newest'.submitted_at <= Newest.submitted_at
          BY <3>5, <2>r DEF TypeInv
        <5> QED
          BY <4>2, <5>1, <2>n DEF Far
      <4> HIDE DEF entry
      <4>3. \/ entry - Newest'.head >= schedule.every_n_entries
            \/ /\ entry > Newest'.head
               /\ now - Newest'.submitted_at >= schedule.every_m_minutes
        BY <4>1, <4>2
      <4> QED
        BY <3>1, <4>3 DEF Far, entry
    <3> QED
      BY <3>4, <3>6, <3>7
  <2> QED
    BY <2>1, <2>2, <2>3, <2>4, <2>5, <2>6 DEF Next
<1> QED
  BY <1>1, <1>2, TypesHold, PTL DEF Spec

\* Anchors advance along the chain, strictly when should_anchor asked for them.
THEOREM AnchorsGoForward == Spec => []AnchorsAdvance
<1>1. RowsInv => AnchorsAdvance
  BY DEF RowsInv
<1> QED
  BY <1>1, RowsHold, PTL

\* Anchors that should_anchor asked for keep the distance of the schedule.
THEOREM AnchorsKeepDistance == Spec => []AnchorsAreSpaced
<1>1. RowsInv => AnchorsAreSpaced
  BY DEF RowsInv
<1> QED
  BY <1>1, RowsHold, PTL

-----------------------------------------------------------------------------
(* The commit. *)

\* The row of a call that may still commit is the newest of the table.
DurableInv ==
    /\ AnchoredIsDurable
    /\ pc = "committing" /\ durable < Len(rows) => Newest.head = row.head

\* A commit that succeeds publishes the row of its call.
LEMMA DurableHolds == Spec => []DurableInv
<1> USE DEF Between, Live, Asking
<1>1. Init => DurableInv
  BY DEF Init, TracksInit, DurableInv, AnchoredIsDurable
<1>2. TypeInv /\ DurableInv /\ [Next]_vars => DurableInv'
  <2> SUFFICES ASSUME TypeInv, DurableInv, [Next]_vars PROVE DurableInv'
    OBVIOUS
  <2> USE DEF DurableInv, AnchoredIsDurable
  <2>1. CASE LogEntry \/ OtherCommit \/ Tick \/ UNCHANGED vars
    BY <2>1 DEF LogEntry, OtherCommit, LockFree, Tick, vars, tracks, Newest, TypeInv
  <2>2. CASE Close
    <3>1. Len(rows') = durable /\ durable' = durable /\ pc' = pc /\ durable \in Nat
      BY <2>2, InitialParts DEF Close, tracks, TypeInv
    <3> QED
      BY <2>2, <3>1 DEF Close, TypeInv
  <2>3. CASE CallDue \/ CallUnasked \/ Read \/ Fail \/ Cancelled
    <3>1. pc' \in Between \cup {"start", "ots"} /\ pc' # "anchored"
      BY <2>3 DEF CallDue, CallUnasked, CallAnchor, Call, Read, NothingToDo, Begin, Fail,
                  ConstraintFails, DatabaseRefuses, Cancelled, Cancel
    <3> QED
      BY <3>1
  <2>4. CASE Submit
    BY <2>4 DEF Submit, Submissions, AskCalendar, CalendarsAsked, Granted, Refused, Escapes,
                TsasExhausted, BothFailed
  <2>5. CASE Store
    <3> DEFINE e == [head |-> head, submitted_at |-> now, scheduled |-> scheduled]
    <3>1. rows' = Append(rows, e) /\ pc' # "anchored" /\ row'.head = head
      BY <2>5 DEF Store, Insert, GoesOn
    <3>2. Len(rows') = Len(rows) + 1 /\ rows'[Len(rows) + 1] = e
      BY <3>1, Appends DEF TypeInv, AnchorRow
    <3> QED
      BY <3>1, <3>2 DEF Newest
  <2>6. CASE Publish
    <3>1. /\ durable < Len(rows) /\ rows' = rows /\ durable' = Len(rows) /\ row' = row
          /\ pc = "committing" /\ pc' # "committing"
      BY <2>6 DEF Publish, Commit, GoesOn
    <3>2. rows # << >> /\ Last(rows) = Newest /\ Newest.head = row.head
      BY <3>1 DEF Last, Newest, TypeInv
    <3> QED
      BY <3>1, <3>2 DEF Last, Newest
  <2> QED
    BY <2>1, <2>2, <2>3, <2>4, <2>5, <2>6 DEF Next
<1> QED
  BY <1>1, <1>2, TypesHold, PTL DEF Spec

\* An anchor() that returned its anchor has committed it, whoever closed the
\* Ledger between its insert and its commit.
THEOREM AnchoredStaysDurable == Spec => []AnchoredIsDurable
<1>1. DurableInv => AnchoredIsDurable
  BY DEF DurableInv
<1> QED
  BY <1>1, DurableHolds, PTL

-----------------------------------------------------------------------------
\* The type invariant of Anchoring.
THEOREM TypeCorrect == Spec => []TypeOK
<1>1. TypeInv /\ RowsInv => TypeOK
  <2> SUFFICES ASSUME TypeInv, RowsInv PROVE TypeOK
    OBVIOUS
  <2>1. rows \in Seq([head: 1..entries, submitted_at: 0..now, scheduled: BOOLEAN])
    <3>1. \A i \in 1..Len(rows) :
             rows[i] \in [head: 1..entries, submitted_at: 0..now, scheduled: BOOLEAN]
      <4>1. \A i \in 1..Len(rows) : rows[i] \in AnchorRow
        BY ElementsOf DEF TypeInv
      <4>2. \A i \in 1..Len(rows) : rows[i].head \in 1..entries /\ rows[i].submitted_at \in 0..now
        BY <4>1 DEF RowsInv, AnchorRow, TypeInv
      <4> QED
        BY <4>1, <4>2 DEF AnchorRow
    <3> QED
      BY <3>1, Elements DEF TypeInv
  <2>2. TracksTypeOK
    BY DEF TypeInv, TracksTypeOK, Live, Asking
  <2> QED
    BY <2>1, <2>2 DEF TypeInv, TypeOK
<1> QED
  BY <1>1, TypesHold, RowsHold, PTL
=============================================================================
