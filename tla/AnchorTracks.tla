---------------------------- MODULE AnchorTracks ----------------------------
(***************************************************************************)
(* The steps of Ledger.anchor(): the head is read, every calendar of the   *)
(* schedule is asked in turn, then the TSA URLs until one grants a token;  *)
(* then the row is inserted and committed, in two awaits, or the call      *)
(* raises.  The Ledger lock is held throughout (module Ledger), so calls   *)
(* follow one another.  Module Anchoring makes the calls, and has the      *)
(* table.                                                                  *)
(***************************************************************************)
EXTENDS Naturals, Sequences, SequencesExt, Rfc3161

CONSTANTS
    Calendars,      \* calendar_servers, as a sequence
    Tsas,           \* tsa_urls, as a sequence
    Unparseable,    \* URLs urllib's Request refuses (no scheme): a ValueError
    None

TokenType == [tsa: ToSet(Tsas), tst: AnswerType]

RowType == [head: Nat, calendars: Seq(ToSet(Calendars)), token: TokenType \cup {None}]

ASSUME TracksAssumption ==
    /\ Calendars \in Seq(ToSet(Calendars)) /\ Tsas \in Seq(ToSet(Tsas))
    /\ None \notin ToSet(Tsas) \cup TokenType \cup RowType

VARIABLES
    pc,
    head,         \* the entry_id of the chain head that was read
    toAsk,        \* calendars still to be asked
    accepted,     \* calendars that accepted the head, in order
    toTry,        \* TSA URLs still to be tried
    contacted,    \* TSA URLs that have been tried, in order
    token,        \* the TSA that granted a token and its answer, or None
    row,          \* the anchors row that INSERT has put in the table, or None
    fault         \* what made the call raise, other than its tracks

tracks == <<pc, head, toAsk, accepted, toTry, contacted, token, row, fault>>

Between == {"idle", "anchored", "raised", "refused", "empty"}

TracksInit ==
    /\ pc = "idle" /\ head = 0
    /\ toAsk = << >> /\ accepted = << >> /\ toTry = << >> /\ contacted = << >>
    /\ token = None /\ row = None
    /\ fault = "none"

\* anchor() with a schedule of these calendars and TSAs; either may be empty.
Call(calendars, tsas) ==
    /\ pc \in Between /\ pc' = "start"
    /\ toAsk' = calendars /\ toTry' = tsas
    /\ head' = 0 /\ accepted' = << >> /\ contacted' = << >>
    /\ token' = None /\ row' = None /\ fault' = "none"

\* A schedule that is disabled raises, an empty entries table gives None.
NothingToDo(enabled, entries) ==
    /\ pc = "start" /\ (~ enabled \/ entries = 0)
    /\ pc' = IF enabled THEN "empty" ELSE "refused"
    /\ UNCHANGED <<head, toAsk, accepted, toTry, contacted, token, row, fault>>

\* Mutant: an empty ledger is anchored.
BeginEmpty(enabled, entries) ==
    /\ pc = "start" /\ enabled
    /\ pc' = "ots" /\ head' = entries
    /\ UNCHANGED <<toAsk, accepted, toTry, contacted, token, row, fault>>

Begin(enabled, entries) ==
    /\ pc = "start" /\ enabled /\ entries > 0
    /\ pc' = "ots" /\ head' = entries
    /\ UNCHANGED <<toAsk, accepted, toTry, contacted, token, row, fault>>

\* _submit_ots_track: whatever a calendar's submission raises, the next is asked.
AskCalendar ==
    /\ pc = "ots" /\ toAsk # << >>
    /\ toAsk' = Tail(toAsk)
    /\ accepted' \in {accepted, Append(accepted, Head(toAsk))}
    /\ UNCHANGED <<pc, head, toTry, contacted, token, row, fault>>

\* Mutant: the OTS track waits until some calendar has accepted.
CalendarsAskedOnSuccess ==
    /\ pc = "ots" /\ toAsk = << >> /\ accepted # << >> /\ pc' = "tsa"
    /\ UNCHANGED <<head, toAsk, accepted, toTry, contacted, token, row, fault>>

CalendarsAsked ==
    /\ pc = "ots" /\ toAsk = << >> /\ pc' = "tsa"
    /\ UNCHANGED <<head, toAsk, accepted, toTry, contacted, token, row, fault>>

\* _submit_tsa_track: the first token ends the track, a TSAError moves it on.
Granted ==
    /\ pc = "tsa" /\ toTry # << >> /\ Head(toTry) \notin Unparseable
    /\ \E a \in Answers(head) :
          SubmitAccepts(a) /\ token' = [tsa |-> Head(toTry), tst |-> a]
    /\ contacted' = Append(contacted, Head(toTry))
    /\ pc' = "decide"
    /\ UNCHANGED <<head, toAsk, accepted, toTry, row, fault>>

\* Mutant: the same TSA is asked again.
RefusedAgain ==
    /\ pc = "tsa" /\ toTry # << >> /\ Head(toTry) \notin Unparseable
    /\ contacted' = Append(contacted, Head(toTry))
    /\ UNCHANGED <<pc, head, toAsk, accepted, toTry, token, row, fault>>

\* The TSA is not reached, or SubmitAccepts refuses its answer.
Refused ==
    /\ pc = "tsa" /\ toTry # << >> /\ Head(toTry) \notin Unparseable
    /\ contacted' = Append(contacted, Head(toTry))
    /\ toTry' = Tail(toTry)
    /\ UNCHANGED <<pc, head, toAsk, accepted, token, row, fault>>

\* submit_to_tsa builds its Request, and reads a TSTInfo, outside any try:
\* what they raise is no TSAError, and leaves anchor().
Escapes ==
    /\ pc = "tsa" /\ toTry # << >>
    /\ IF Head(toTry) \in Unparseable
       THEN UNCHANGED contacted
       ELSE /\ \E a \in Answers(head) : SubmitEscapes(a)
            /\ contacted' = Append(contacted, Head(toTry))
    /\ pc' = "raised" /\ fault' = "escaped"
    /\ UNCHANGED <<head, toAsk, accepted, toTry, token, row>>

TsasExhausted ==
    /\ pc = "tsa" /\ toTry = << >> /\ pc' = "decide"
    /\ UNCHANGED <<head, toAsk, accepted, toTry, contacted, token, row, fault>>

InHand == accepted # << >> \/ token # None

\* The statement has run; its task goes on, or was cancelled while it ran.
GoesOn(label) ==
    \/ pc' = label /\ UNCHANGED fault
    \/ pc' = "raised" /\ fault' = "cancelled"

\* Mutant: the proof of one track is stored.
InsertOneTrack(required) ==
    /\ pc = "decide" /\ InHand /\ ~ (required /\ accepted = << >>)
    /\ row' = [head |-> head, calendars |-> accepted,
               token |-> IF accepted = << >> THEN token ELSE None]
    /\ GoesOn("committing")
    /\ UNCHANGED <<head, toAsk, accepted, toTry, contacted, token>>

\* required: ots_proof_blob is NOT NULL, in a table of a development build.
Insert(required) ==
    /\ pc = "decide" /\ InHand /\ ~ (required /\ accepted = << >>)
    /\ row' = [head |-> head, calendars |-> accepted, token |-> token]
    /\ GoesOn("committing")
    /\ UNCHANGED <<head, toAsk, accepted, toTry, contacted, token>>

\* IntegrityError: the row has no blob, and the column wants one.
ConstraintFails(required) ==
    /\ pc = "decide" /\ InHand /\ required /\ accepted = << >>
    /\ pc' = "raised"
    /\ UNCHANGED <<head, toAsk, accepted, toTry, contacted, token, row, fault>>

Commit ==
    /\ pc = "committing"
    /\ GoesOn("anchored")
    /\ UNCHANGED <<head, toAsk, accepted, toTry, contacted, token, row>>

\* The SELECT of the head, the INSERT or the COMMIT is refused: the file is
\* locked, the connection closed, or the head has been rolled back.
DatabaseRefuses ==
    /\ pc \in {"start", "committing"} \/ (pc = "decide" /\ InHand)
    /\ pc' = "raised" /\ fault' = "refused"
    /\ UNCHANGED <<head, toAsk, accepted, toTry, contacted, token, row>>

\* Mutant: or for and.
OneFailed ==
    /\ pc = "decide" /\ (accepted = << >> \/ token = None)
    /\ pc' = "raised"
    /\ UNCHANGED <<head, toAsk, accepted, toTry, contacted, token, row, fault>>

BothFailed ==
    /\ pc = "decide" /\ accepted = << >> /\ token = None
    /\ pc' = "raised"
    /\ UNCHANGED <<head, toAsk, accepted, toTry, contacted, token, row, fault>>

\* The task is cancelled before its INSERT runs, while it waits for the lock,
\* the SELECT or a request; what was submitted stays submitted.
Cancel ==
    /\ pc \in {"start", "ots", "tsa", "decide"}
    /\ pc' = "raised" /\ fault' = "cancelled"
    /\ UNCHANGED <<head, toAsk, accepted, toTry, contacted, token, row>>

Submissions == \/ AskCalendar \/ CalendarsAsked \/ Granted \/ Refused \/ Escapes
               \/ TsasExhausted \/ BothFailed

-----------------------------------------------------------------------------
\* Every variable of a call keeps its type.
TracksTypeOK ==
    /\ pc \in Between \cup {"start", "ots", "tsa", "decide", "committing"}
    /\ head \in Nat
    /\ toAsk \in Seq(ToSet(Calendars)) /\ accepted \in Seq(ToSet(Calendars))
    /\ toTry \in Seq(ToSet(Tsas)) /\ contacted \in Seq(ToSet(Tsas))
    /\ token \in TokenType \cup {None}
    /\ row \in RowType \cup {None}
    /\ fault \in {"none", "cancelled", "escaped", "refused"}

\* A row carries every proof its call obtained, at least one, for a head the
\* chain has.  A call that raises of its own accord, neither cancelled nor
\* refused by the database, has written none (anchor: "no anchor row is
\* written"); one that was cancelled or refused may have.
RowCarriesProofs ==
    /\ row # None => /\ row = [head |-> head, calendars |-> accepted, token |-> token]
                     /\ head > 0 /\ InHand
    /\ pc \in {"committing", "anchored"} => row # None
    /\ pc = "raised" /\ fault \in {"none", "escaped"} => row = None

\* The token is from the last TSA that was contacted, and a TSA is contacted
\* only after all before it in the schedule have failed.
FallbackInOrder ==
    /\ IsPrefix(contacted, Tsas)
    /\ token # None => Last(contacted) = token.tsa
    /\ pc = "anchored" /\ token = None => toTry = << >>

\* nexuscone-verify --check-tst reports FAILED for a stored token only if its
\* TSA answered something else than the request (submit_to_tsa, verify_tst).
StoredTokensVerify ==
    row # None /\ row.token # None /\ row.token.tst.imprint = Imprint("sha256", row.head)
        => VerifyTst(row.token.tst, row.head)

=============================================================================
