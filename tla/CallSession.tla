---------------------------- MODULE CallSession ----------------------------
(***************************************************************************)
(* The call session of sip_media/call_session.c: one call identity at a    *)
(* time, a counter that names calls, and the numbered events of the call.  *)
(* Each operation runs under session->mutex, so it is one step.  Source,   *)
(* route, media state, reason and times are payload that no decision here  *)
(* reads and are left out.                                                 *)
(***************************************************************************)
EXTENDS Integers

CONSTANTS Mod,      \* next_call is a uint32_t: it counts modulo Mod = 2^32
          MaxSeq    \* bound: no further non-terminal event past this number

\* With Mod = 2 the only non-zero counter value would name every call.
ASSUME ModAssumption == Mod \in Nat /\ Mod > 2
ASSUME MaxSeqAssumption == MaxSeq \in Nat \ {0}

VARIABLES session,   \* the call_session_t
          nextCall,  \* session->next_call
          last       \* the last event filled in for a caller (history)

sessionVars == <<session, nextCall, last>>

NoId == 0                       \* the empty call_id
CallIds == 1 .. (Mod - 1)       \* "<boot nonce>-<next_call>", next_call # 0
NoSession == [active |-> FALSE, id |-> NoId, seq |-> 0]
NoEvent == [id |-> NoId, seq |-> 0, terminal |-> TRUE]

Event(id, seq, terminal) == [id |-> id, seq |-> seq, terminal |-> terminal]

\* next_call++, and once more when the increment wrapped to 0
NextCall(n) == IF n = Mod - 1 THEN 1 ELSE n + 1

SessionInit ==
  /\ session = NoSession
  /\ nextCall = 0
  /\ last = NoEvent

\* call_session_start: refused (returns 0) while a call is active
Start ==
  /\ ~session.active
  /\ nextCall' = NextCall(nextCall)
  /\ session' = [active |-> TRUE, id |-> nextCall', seq |-> 1]
  /\ last' = Event(nextCall', 1, FALSE)

\* Mutant: the event is filled in before event_sequence is incremented
RecordUncounted(terminal) ==
  /\ session.active
  /\ terminal \/ session.seq < MaxSeq
  /\ last' = Event(session.id, session.seq, terminal)
  /\ session' = IF terminal THEN NoSession
                ELSE [session EXCEPT !.seq = @ + 1]
  /\ UNCHANGED nextCall

\* call_session_record: refused without an active call; a terminal event
\* is numbered like any other and then clears the session
Record(terminal) ==
  /\ session.active
  /\ terminal \/ session.seq < MaxSeq
  /\ last' = Event(session.id, session.seq + 1, terminal)
  /\ session' = IF terminal THEN NoSession
                ELSE [session EXCEPT !.seq = @ + 1]
  /\ UNCHANGED nextCall

SessionNext == Start \/ \E terminal \in BOOLEAN : Record(terminal)

SessionSpec == SessionInit /\ [][SessionNext]_sessionVars

-----------------------------------------------------------------------------

SessionTypeOK ==
  /\ session \in [active : BOOLEAN, id : {NoId} \cup CallIds, seq : Nat]
  /\ nextCall \in {NoId} \cup CallIds
  /\ last \in [id : {NoId} \cup CallIds, seq : Nat, terminal : BOOLEAN]

\* The session and the last event handed to a caller describe the same call:
\* an open call is the one the counter names and its last event carries its
\* id and its number; without a call, nothing is left of the previous one and
\* the last event anyone was given closed it.
SessionMatchesLast ==
  IF session.active
  THEN /\ session.id = nextCall
       /\ session.id \in CallIds
       /\ session.seq >= 1
       /\ last = Event(session.id, session.seq, FALSE)
  ELSE /\ session = NoSession
       /\ last.terminal
       /\ last.id = nextCall

SessionInv == SessionTypeOK /\ SessionMatchesLast

\* What a consumer of wibox/<host>/call/event relies on: the events form a
\* sequence of calls, each under one non-empty id, numbered 1, 2, 3, ...
\* without a gap up to its terminal event, after which the next event is
\* number 1 of a call with another id - also when next_call wraps.
EventFollows(e, f) ==
  \/ /\ ~e.terminal
     /\ f.id = e.id
     /\ f.seq = e.seq + 1
  \/ /\ e.terminal
     /\ f.seq = 1
     /\ f.id # e.id
     /\ f.id # NoId
     /\ ~f.terminal

EventStream == [][last' # last => EventFollows(last, last')]_sessionVars
=============================================================================
