------------------------------ MODULE Told_proofs ------------------------------
(***************************************************************************)
(* Proofs about what is told to those outside: RingFlow, the publications  *)
(* that follow the ringing and the call, and MqttClient, what the broker   *)
(* is left with when connections and the daemon come and go.               *)
(***************************************************************************)
EXTENDS RingFlow, MqttClient, SequenceTheorems, TLAPS

-----------------------------------------------------------------------------
(* RingFlow, for any setting: every handler is followed as the program it  *)
(* has still to run.  A value that is not the quiet one is still owed to   *)
(* somebody who will silence it (Silenced), and the mutex says who may be  *)
(* in the middle of a call's end (Locked).                                 *)

\* What a handler has still to do of its program.
Asked == <<"mediaRinging", "start", "ringing", "schedule", "call">>
Hanging == <<"mediaIdle", "end", "notRinging", "terminate">>
Answering == <<"mediaEstablished", "start", "notRinging", "unlock">>
Started == <<"start", "notRinging", "unlock">>
Due == <<"ifInactive", "mediaIdle", "end", "notRinging">>
Expired == <<"mediaIdle", "end", "notRinging">>

Asking == {Asked, <<"start", "ringing", "schedule", "call">>,
           <<"ringing", "schedule", "call">>, <<"schedule", "call">>}
HangUps == {HangUp, Hanging, <<"end", "notRinging", "terminate">>,
            <<"notRinging", "terminate">>, <<"terminate">>}
Endings == {Ended, <<"end", "notRinging", "unlock">>, <<"notRinging", "unlock">>, <<"unlock">>}
Answers == {Established, Answering, Started}
Timeouts == {Timeout, Due, Expired, <<"end", "notRinging">>, <<"notRinging">>, <<>>}
Holding == Endings \cup Answers

Programs(p) ==
  {<<>>} \cup Endings \cup
    (IF p \in Panel THEN {Ding, <<"call">>} \cup Asking \cup HangUps
     ELSE IF p = "mqtt" THEN {DoorUnlock} ELSE Answers)

Tolds == [ringing : {"on", "off"}, media : {"idle", "ringing", "established"},
          session : {"none", "active"}]

TimersOK == timers \in Seq(Timeouts) /\ current \in 0..Len(timers)

RingTypeOK ==
  /\ setting \in Settings
  /\ sip \in {"idle", "asking", "incoming", "established"}
  /\ holder \in Thread \cup {"nobody"}
  /\ DOMAIN todo = Thread /\ \A p \in Thread : todo[p] \in Programs(p)
  /\ TimersOK
  /\ told \in Tolds

\* Who holds session_mutex, and what the call is meanwhile.
Locked ==
  /\ \A p \in Thread : holder = p <=> todo[p] \in Holding
  /\ holder \notin {"nobody", "main"} => sip = "idle"
  /\ todo["main"] \in Answers => sip = "established"
  /\ todo["main"] \in {Ended, <<"end", "notRinging", "unlock">>} => sip # "established"
  /\ sip = "incoming" => setting.incoming

Quiet == [ringing |-> "off", media |-> "idle", session |-> "none"]

\* What has still to publish the end of a ring or of a call.
Silences == [
  media   |-> {HangUp, Ended, Hanging},
  session |-> {HangUp, Ended, Hanging, <<"end", "notRinging", "terminate">>,
               <<"end", "notRinging", "unlock">>},
  ringing |-> {HangUp, Ended, Hanging, <<"end", "notRinging", "terminate">>,
               <<"end", "notRinging", "unlock">>, <<"notRinging", "terminate">>,
               <<"notRinging", "unlock">>}]
Expiring == [
  media   |-> {Timeout, Due, Expired},
  session |-> {Timeout, Due, Expired, <<"end", "notRinging">>},
  ringing |-> Timeouts \ {<<>>}]

Covered(field) ==
  told[field] # Quiet[field] =>
    \/ sip # "idle"
    \/ \E p \in Thread : todo[p] \in Asking \cup Silences[field]
    \/ current # 0 /\ timers[current] \in Expiring[field]

Silenced == ~setting.threadsFail => \A field \in {"media", "session", "ringing"} : Covered(field)

\* Once a call of a calm peer is up, nobody but its callback and those who end
\* it publish anything.
Undisturbed ==
  setting.calm /\ ~setting.incoming /\ sip = "established" =>
    /\ \A t \in DOMAIN timers : timers[t] \in {<<>>, Timeout, Due}
    /\ \A p \in Panel : todo[p] \in {<<>>, Ding} \cup HangUps
    /\ (\A p \in Panel : todo[p] \notin HangUps) =>
         /\ told.media = "established" \/ todo["main"] \in Answers \ {Started}
         /\ told.session = "active" \/ todo["main"] \in Answers
         /\ told.ringing = "off" \/ todo["main"] \in Answers \cup {<<"notRinging", "unlock">>}

RingInv == RingTypeOK /\ Locked /\ Silenced /\ Undisturbed

LEMMA SettingIs ==
  ASSUME setting \in Settings
  PROVE  /\ setting.calm \in BOOLEAN /\ setting.incoming \in BOOLEAN
         /\ setting.threadsFail \in BOOLEAN /\ setting.outgoing \in SUBSET BOOLEAN
BY SettingsAssumption

LEMMA Tails ==
  /\ \A a : Tail(<<a>>) = <<>> /\ Head(<<a>>) = a /\ <<a>> # <<>>
  /\ \A a, b : Tail(<<a, b>>) = <<b>> /\ Head(<<a, b>>) = a /\ <<a, b>> # <<>>
  /\ \A a, b, c : Tail(<<a, b, c>>) = <<b, c>> /\ Head(<<a, b, c>>) = a /\ <<a, b, c>> # <<>>
  /\ \A a, b, c, d :
       Tail(<<a, b, c, d>>) = <<b, c, d>> /\ Head(<<a, b, c, d>>) = a /\ <<a, b, c, d>> # <<>>
  /\ \A a, b, c, d, e : /\ Tail(<<a, b, c, d, e>>) = <<b, c, d, e>>
                        /\ Head(<<a, b, c, d, e>>) = a /\ <<a, b, c, d, e>> # <<>>
  /\ \A a, b, c, d, e, f : /\ Tail(<<a, b, c, d, e, f>>) = <<b, c, d, e, f>>
                           /\ Head(<<a, b, c, d, e, f>>) = a /\ <<a, b, c, d, e, f>> # <<>>
OBVIOUS

LEMMA PublishIs ==
  ASSUME told \in Tolds
  PROVE  /\ \A e \in Publications : Published(e) \in Tolds
         /\ Published("ringing") = [told EXCEPT !.ringing = "on"]
         /\ Published("notRinging") = [told EXCEPT !.ringing = "off"]
         /\ Published("mediaRinging") = [told EXCEPT !.media = "ringing"]
         /\ Published("mediaEstablished") = [told EXCEPT !.media = "established"]
         /\ Published("mediaIdle") = [told EXCEPT !.media = "idle"]
         /\ Published("start") = [told EXCEPT !.session = "active"]
         /\ Published("end") = [told EXCEPT !.session = "none"]
BY DEF Published, Publications, Tolds

\* What each program does next, and what is left of it.
LEMMA AskingIs ==
  \A s \in Asking :
    \/ Head(s) \in {"mediaRinging", "start", "ringing"} /\ Tail(s) \in Asking
    \/ s = <<"schedule", "call">> /\ Head(s) = "schedule" /\ Tail(s) = <<"call">>
<1> DEFINE a2 == <<"start", "ringing", "schedule", "call">>
           a3 == <<"ringing", "schedule", "call">>
           a4 == <<"schedule", "call">>
<1>1. /\ Head(Asked) = "mediaRinging" /\ Tail(Asked) = a2
      /\ Head(a2) = "start" /\ Tail(a2) = a3
      /\ Head(a3) = "ringing" /\ Tail(a3) = a4
      /\ Head(a4) = "schedule" /\ Tail(a4) = <<"call">>
  BY Tails DEF Asked
<1>2. Asking = {Asked, a2, a3, a4}
  BY DEF Asking
<1> QED
  BY <1>1, <1>2

LEMMA HangUpsAre ==
  /\ Head(HangUp) = "invalidate" /\ Tail(HangUp) = Hanging
  /\ \A s \in HangUps \ {HangUp, <<"terminate">>} :
       /\ Head(s) \in {"mediaIdle", "end", "notRinging"}
       /\ Tail(s) \in HangUps \ {HangUp}
  /\ Head(<<"terminate">>) = "terminate" /\ Tail(<<"terminate">>) = <<>>
<1> DEFINE h3 == <<"end", "notRinging", "terminate">>
           h4 == <<"notRinging", "terminate">>
<1>1. /\ Head(HangUp) = "invalidate" /\ Tail(HangUp) = Hanging
      /\ Head(Hanging) = "mediaIdle" /\ Tail(Hanging) = h3
      /\ Head(h3) = "end" /\ Tail(h3) = h4
      /\ Head(h4) = "notRinging" /\ Tail(h4) = <<"terminate">>
      /\ Head(<<"terminate">>) = "terminate" /\ Tail(<<"terminate">>) = <<>>
  BY Tails DEF HangUp, Hanging
<1>2. HangUps = {HangUp, Hanging, h3, h4, <<"terminate">>}
  BY DEF HangUps
<1>3. HangUp \notin {h3, h4, <<"terminate">>}
  BY DEF HangUp
<1> QED
  BY <1>1, <1>2, <1>3

LEMMA EndingsAre ==
  /\ \A s \in Endings \ {<<"unlock">>} :
       Head(s) \in {"mediaIdle", "end", "notRinging"} /\ Tail(s) \in Endings
  /\ Head(<<"unlock">>) = "unlock" /\ Tail(<<"unlock">>) = <<>>
<1> DEFINE e2 == <<"end", "notRinging", "unlock">>
           e3 == <<"notRinging", "unlock">>
<1>1. /\ Head(Ended) = "mediaIdle" /\ Tail(Ended) = e2
      /\ Head(e2) = "end" /\ Tail(e2) = e3
      /\ Head(e3) = "notRinging" /\ Tail(e3) = <<"unlock">>
      /\ Head(<<"unlock">>) = "unlock" /\ Tail(<<"unlock">>) = <<>>
  BY Tails DEF Ended
<1>2. Endings = {Ended, e2, e3, <<"unlock">>}
  BY DEF Endings
<1> QED
  BY <1>1, <1>2

LEMMA AnswersAre ==
  /\ Head(Established) = "invalidate" /\ Tail(Established) = Answering
  /\ Head(Answering) = "mediaEstablished" /\ Tail(Answering) = Started
  /\ Head(Started) = "start" /\ Tail(Started) = <<"notRinging", "unlock">>
BY Tails DEF Established, Answering, Started

LEMMA TimeoutsAre ==
  /\ Head(Timeout) = "ifCurrent" /\ Tail(Timeout) = Due
  /\ Head(Due) = "ifInactive" /\ Tail(Due) = Expired
  /\ \A s \in Timeouts \ {<<>>, Timeout, Due} :
       /\ Head(s) \in {"mediaIdle", "end", "notRinging"}
       /\ Tail(s) \in Timeouts \ {Timeout, Due}
<1> DEFINE t4 == <<"end", "notRinging">>
           t5 == <<"notRinging">>
<1>1. /\ Head(Timeout) = "ifCurrent" /\ Tail(Timeout) = Due
      /\ Head(Due) = "ifInactive" /\ Tail(Due) = Expired
      /\ Head(Expired) = "mediaIdle" /\ Tail(Expired) = t4
      /\ Head(t4) = "end" /\ Tail(t4) = t5
      /\ Head(t5) = "notRinging" /\ Tail(t5) = <<>>
  BY Tails DEF Timeout, Due, Expired
<1>2. Timeouts = {Timeout, Due, Expired, t4, t5, <<>>}
  BY DEF Timeouts
<1>3. {t4, t5, <<>>} \subseteq Timeouts \ {Timeout, Due}
  BY DEF Timeouts, Timeout, Due
<1> QED
  BY <1>1, <1>2, <1>3

LEMMA Separate ==
  /\ \A s \in Asking : s \notin Holding /\ s \notin HangUps /\ s # <<>> /\ s # Ding
  /\ \A s \in HangUps : s \notin Holding /\ s # <<>> /\ s # Ding
  /\ \A s \in Endings : s \notin Answers /\ s # <<>> /\ s # Ding /\ s # <<"call">>
  /\ \A s \in Answers : s # <<>> /\ s # Ding
  /\ <<>> # Ding /\ <<"call">> # <<>> /\ <<"call">> \notin Asking /\ <<"call">> \notin HangUps
  /\ <<>> \notin Holding /\ <<"call">> \notin Holding
  /\ Ding \notin Holding /\ DoorUnlock \in HangUps
BY DEF Asking, HangUps, Endings, Answers, Holding, Ding, HangUp, Established, Ended, DoorUnlock,
       Asked, Hanging, Answering, Started

LEMMA ProgramIs ==
  ASSUME NEW p \in Thread, NEW s \in Programs(p), s # <<>>
  PROVE  /\ Head(s) = "look" => s = Ding /\ p \in Panel
         /\ Head(s) = "invalidate" =>
              \/ s = HangUp /\ p \in Panel
              \/ s = Established /\ p = "main"
         /\ Head(s) = "schedule" => s = <<"schedule", "call">> /\ p \in Panel
         /\ Head(s) = "call" => s = <<"call">> /\ p \in Panel
         /\ Head(s) = "terminate" => s = <<"terminate">> /\ p # "main"
         /\ Head(s) = "unlock" => s = <<"unlock">>
         /\ Head(s) \in Publications =>
              \/ p \in Panel /\ s \in Asking /\ Tail(s) \in Asking
              \/ /\ p \in Panel /\ s \in HangUps \ {HangUp, <<"terminate">>}
                 /\ Tail(s) \in HangUps \ {HangUp}
              \/ s \in Endings \ {<<"unlock">>} /\ Tail(s) \in Endings
              \/ p = "main" /\ s \in Answers \ {Established}
<1>1. "main" \notin Panel /\ "mqtt" \notin Panel
  BY DEF Panel
<1> USE DEF Publications
<1>2. CASE p \in Panel /\ s = Ding
  <2>1. Head(s) = "look"
    BY <1>2, Tails DEF Ding
  <2> QED
    BY <1>2, <2>1
<1>3. CASE p \in Panel /\ s = <<"call">>
  <2>1. Head(s) = "call"
    BY <1>3, Tails
  <2> QED
    BY <1>3, <2>1
<1>4. CASE p \in Panel /\ s \in Asking
  BY <1>4, AskingIs
<1>5. CASE p \in Panel /\ s \in HangUps
  BY <1>1, <1>5, HangUpsAre
<1>6. CASE s \in Endings
  BY <1>6, EndingsAre
<1>7. CASE p = "mqtt" /\ s = DoorUnlock
  <2>1. Head(s) = "terminate" /\ s = <<"terminate">> /\ p # "main"
    BY <1>7, HangUpsAre DEF DoorUnlock
  <2> QED
    BY <2>1
<1>8. CASE p = "main" /\ s \in Answers
  BY <1>8, AnswersAre DEF Answers
<1> QED
  BY <1>2, <1>3, <1>4, <1>5, <1>6, <1>7, <1>8 DEF Programs, Thread

LEMMA MayBe ==
  ASSUME NEW p \in Thread
  PROVE  /\ <<>> \in Programs(p) /\ Endings \subseteq Programs(p)
         /\ p \in Panel => /\ Ding \in Programs(p) /\ <<"call">> \in Programs(p)
                           /\ Asking \subseteq Programs(p) /\ HangUps \subseteq Programs(p)
         /\ p = "mqtt" => DoorUnlock \in Programs(p)
         /\ p = "main" => Answers \subseteq Programs(p)
BY DEF Programs, Panel

LEMMA Turned ==
  ASSUME RingTypeOK, NEW p \in Thread, NEW s \in Programs(p), Turn(p, s)
  PROVE  /\ DOMAIN todo' = Thread /\ todo'[p] = s
         /\ \A q \in Thread : todo'[q] \in Programs(q)
         /\ \A q \in Thread : q # p => todo'[q] = todo[q]
BY DEF RingTypeOK, Turn

\* A step that publishes for the end of a ring or of a call either takes back
\* what was told or leaves it to the steps that follow.
LEMMA SilencingIs ==
  ASSUME told \in Tolds, NEW field \in {"media", "session", "ringing"}
  PROVE  /\ \A s \in (HangUps \ {HangUp, <<"terminate">>}) \cup (Endings \ {<<"unlock">>}) :
              \/ Published(Head(s))[field] = Quiet[field]
              \/ /\ Published(Head(s))[field] = told[field]
                 /\ s \in Silences[field] => Tail(s) \in Silences[field]
         /\ \A s \in Timeouts \ {<<>>, Timeout, Due} :
              \/ Published(Head(s))[field] = Quiet[field]
              \/ /\ Published(Head(s))[field] = told[field]
                 /\ s \in Expiring[field] => Tail(s) \in Expiring[field]
         /\ {HangUp, Ended, Hanging} \subseteq Silences[field]
         /\ {Timeout, Due, Expired} \subseteq Expiring[field]
         /\ \A s \in {<<>>, <<"call">>, <<"terminate">>, <<"unlock">>, Ding} :
              s \notin Asking /\ s \notin Silences[field]
         /\ <<>> \notin Expiring[field]
<1>1. /\ Published("notRinging") = [told EXCEPT !.ringing = "off"]
      /\ Published("mediaIdle") = [told EXCEPT !.media = "idle"]
      /\ Published("end") = [told EXCEPT !.session = "none"]
  BY PublishIs
<1>2. /\ Published("notRinging").ringing = "off" /\ Published("notRinging").media = told.media
      /\ Published("notRinging").session = told.session
      /\ Published("mediaIdle").media = "idle" /\ Published("mediaIdle").ringing = told.ringing
      /\ Published("mediaIdle").session = told.session
      /\ Published("end").session = "none" /\ Published("end").media = told.media
      /\ Published("end").ringing = told.ringing
  BY <1>1 DEF Tolds
<1>3. /\ Quiet.media = "idle" /\ Quiet.ringing = "off" /\ Quiet.session = "none"
  BY DEF Quiet
<1>4. ASSUME NEW s \in (HangUps \ {HangUp, <<"terminate">>}) \cup (Endings \ {<<"unlock">>})
      PROVE  \/ Published(Head(s))[field] = Quiet[field]
             \/ /\ Published(Head(s))[field] = told[field]
                /\ s \in Silences[field] => Tail(s) \in Silences[field]
  <2> DEFINE h3 == <<"end", "notRinging", "terminate">>
             h4 == <<"notRinging", "terminate">>
             e2 == <<"end", "notRinging", "unlock">>
             e3 == <<"notRinging", "unlock">>
  <2>1. s \in {Hanging, h3, h4, Ended, e2, e3}
    BY DEF HangUps, Endings
  <2>2. /\ Head(Hanging) = "mediaIdle" /\ Tail(Hanging) = h3
        /\ Head(Ended) = "mediaIdle" /\ Tail(Ended) = e2
        /\ Head(h3) = "end" /\ Head(e2) = "end" /\ Tail(h3) = h4 /\ Tail(e2) = e3
        /\ Head(h4) = "notRinging" /\ Head(e3) = "notRinging"
    BY Tails DEF Hanging, Ended
  <2>3. /\ {h3, e2} \subseteq Silences.session /\ {h3, e2} \subseteq Silences.ringing
        /\ {h4, e3} \subseteq Silences.ringing
    BY DEF Silences
  <2>4. /\ \A x \in {h3, e2, h4, e3} : x \notin Silences.media
        /\ \A x \in {h4, e3} : x \notin Silences.session
    BY DEF Silences, HangUp, Ended, Hanging
  <2> HIDE DEF h3, h4, e2, e3
  <2>5. CASE s \in {Hanging, Ended}
    BY <1>2, <1>3, <2>2, <2>3, <2>5
  <2>6. CASE s \in {h3, e2}
    BY <1>2, <1>3, <2>2, <2>3, <2>4, <2>6
  <2>7. CASE s \in {h4, e3}
    BY <1>2, <1>3, <2>2, <2>4, <2>7
  <2> QED
    BY <2>1, <2>5, <2>6, <2>7
<1>5. ASSUME NEW s \in Timeouts \ {<<>>, Timeout, Due}
      PROVE  \/ Published(Head(s))[field] = Quiet[field]
             \/ /\ Published(Head(s))[field] = told[field]
                /\ s \in Expiring[field] => Tail(s) \in Expiring[field]
  <2> DEFINE t4 == <<"end", "notRinging">>
             t5 == <<"notRinging">>
  <2>1. s \in {Expired, t4, t5}
    BY DEF Timeouts
  <2>2. /\ Head(Expired) = "mediaIdle" /\ Tail(Expired) = t4 /\ Head(t4) = "end" /\ Tail(t4) = t5
        /\ Head(t5) = "notRinging"
    BY Tails DEF Expired
  <2>3. t4 \in Expiring.session /\ t4 \in Expiring.ringing /\ t5 \in Expiring.ringing
    BY DEF Expiring, Timeouts
  <2>4. t4 \notin Expiring.media /\ t5 \notin Expiring.media /\ t5 \notin Expiring.session
    BY DEF Expiring, Timeout, Due, Expired
  <2> HIDE DEF t4, t5
  <2> QED
    BY <1>2, <1>3, <2>1, <2>2, <2>3, <2>4
<1>6. {HangUp, Ended, Hanging} \subseteq Silences[field]
  BY DEF Silences
<1>7. {Timeout, Due, Expired} \subseteq Expiring[field]
  BY DEF Expiring, Timeouts, Timeout, Due, Expired
<1>8. \A s \in {<<>>, <<"call">>, <<"terminate">>, <<"unlock">>, Ding} : s \notin Silences[field]
  BY DEF Silences, HangUp, Ended, Hanging, Ding
<1>9. \A s \in {<<>>, <<"call">>, <<"terminate">>, <<"unlock">>, Ding} : s \notin Asking
  BY DEF Asking, Asked, Ding
<1>10. <<>> \notin Expiring[field]
  BY DEF Expiring, Timeout, Due, Expired
<1> QED
  BY <1>4, <1>5, <1>6, <1>7, <1>8, <1>9, <1>10

LEMMA RingStart == Init => RingInv
<1> SUFFICES ASSUME Init PROVE RingInv
  OBVIOUS
<1>1. /\ sip = "idle" /\ holder = "nobody" /\ timers = <<>> /\ current = 0 /\ told = Quiet
      /\ setting \in Settings /\ todo = [p \in Thread |-> <<>>]
  BY DEF Init, Quiet
<1>2. \A p \in Thread : todo[p] = <<>> /\ todo[p] \notin Holding
  BY <1>1, Separate
<1>3. RingTypeOK
  <2>1. told \in Tolds
    BY <1>1 DEF Quiet, Tolds
  <2>2. timers \in Seq(Timeouts) /\ Len(timers) = 0
    BY <1>1
  <2> QED
    BY <1>1, <1>2, <2>1, <2>2, MayBe DEF RingTypeOK, TimersOK
<1>4. Locked
  <2>1. "nobody" \notin Thread /\ "main" \in Thread
    BY DEF Thread, Panel
  <2>2. todo["main"] \notin Answers
    BY <1>2, <2>1 DEF Holding
  <2> QED
    BY <1>1, <1>2, <2>1, <2>2, Zenon DEF Locked
<1>5. Silenced
  BY <1>1 DEF Silenced, Covered
<1>6. Undisturbed
  BY <1>1 DEF Undisturbed
<1> QED
  BY <1>3, <1>4, <1>5, <1>6 DEF RingInv

\* The steps of a thread, with the program they find it at.
LEMMA SayIs ==
  ASSUME RingTypeOK, NEW p \in Thread, Say(p)
  PROVE  /\ Turn(p, Tail(todo[p])) /\ Tail(todo[p]) \in Programs(p)
         /\ told' = Published(Head(todo[p])) /\ Head(todo[p]) \in Publications
         /\ \/ p \in Panel /\ todo[p] \in Asking /\ Tail(todo[p]) \in Asking
            \/ /\ p \in Panel /\ todo[p] \in HangUps \ {HangUp, <<"terminate">>}
               /\ Tail(todo[p]) \in HangUps \ {HangUp}
            \/ todo[p] \in Endings \ {<<"unlock">>} /\ Tail(todo[p]) \in Endings
            \/ p = "main" /\ todo[p] = Answering
            \/ p = "main" /\ todo[p] = Started
<1> DEFINE s == todo[p]
<1>1. s \in Programs(p) /\ s # <<>> /\ Head(s) \in Publications
  BY DEF RingTypeOK, Say
<1>2. Turn(p, Tail(s)) /\ told' = Published(Head(s))
  BY DEF Say, Advance
<1> HIDE DEF s
<1>3. \/ p \in Panel /\ s \in Asking /\ Tail(s) \in Asking
      \/ /\ p \in Panel /\ s \in HangUps \ {HangUp, <<"terminate">>}
         /\ Tail(s) \in HangUps \ {HangUp}
      \/ s \in Endings \ {<<"unlock">>} /\ Tail(s) \in Endings
      \/ p = "main" /\ s \in Answers \ {Established}
  BY <1>1, ProgramIs, Zenon
<1>4. \A a \in Answers \ {Established} : a = Answering \/ a = Started
  BY DEF Answers
<1>5. Started \in Answers /\ <<"notRinging", "unlock">> \in Endings
  BY DEF Answers, Endings
<1>6. Tail(s) \in Programs(p)
  BY <1>3, <1>4, <1>5, MayBe, AnswersAre
<1> QED
  BY <1>1, <1>2, <1>3, <1>4, <1>6 DEF s

LEMMA StepsAre ==
  ASSUME RingTypeOK, NEW p \in Thread
  PROVE  /\ Look(p) =>
              /\ p \in Panel /\ todo[p] = Ding
              /\ Turn(p, IF sip = "idle" THEN Asked ELSE <<>>)
         /\ Invalidate(p) =>
              \/ p \in Panel /\ todo[p] = HangUp /\ Turn(p, Hanging)
              \/ p = "main" /\ todo[p] = Established /\ Turn(p, Answering)
         /\ Schedule(p) =>
              p \in Panel /\ todo[p] = <<"schedule", "call">> /\ Turn(p, <<"call">>)
         /\ Call(p) =>
              /\ p \in Panel /\ todo[p] = <<"call">> /\ Unlocked
              /\ \/ /\ Turn(p, <<>>) /\ UNCHANGED holder
                    /\ sip' = sip \/ (sip' = "asking" /\ sip = "idle")
                 \/ Turn(p, Ended) /\ holder' = p /\ sip = "idle" /\ sip' = sip
         /\ Terminate(p) =>
              /\ p # "main" /\ todo[p] = <<"terminate">> /\ Unlocked /\ sip' = "idle"
              /\ \/ sip = "idle" /\ Turn(p, <<>>) /\ UNCHANGED holder
                 \/ sip # "idle" /\ Turn(p, Ended) /\ holder' = p
         /\ Unlock(p) =>
              todo[p] = <<"unlock">> /\ Turn(p, <<>>) /\ holder' = "nobody"
<1> DEFINE s == todo[p]
<1>1. s \in Programs(p)
  BY DEF RingTypeOK
<1>2. ASSUME NEW first, At(p, first)
      PROVE  s # <<>> /\ Head(s) = first
  BY <1>2 DEF At
<1>3. /\ Tail(Ding) = Asked /\ Tail(<<"schedule", "call">>) = <<"call">>
      /\ Tail(<<"call">>) = <<>> /\ Tail(<<"terminate">>) = <<>> /\ Tail(<<"unlock">>) = <<>>
  BY Tails DEF Ding, Asked
<1>4. ASSUME Look(p)
      PROVE  p \in Panel /\ s = Ding /\ Turn(p, IF sip = "idle" THEN Asked ELSE <<>>)
  <2>1. At(p, "look") /\ Turn(p, IF sip = "idle" THEN Tail(s) ELSE <<>>)
    BY <1>4 DEF Look
  <2>2. p \in Panel /\ s = Ding
    BY <1>1, <1>2, <2>1, ProgramIs
  <2> QED
    BY <1>3, <2>1, <2>2
<1>5. ASSUME Invalidate(p)
      PROVE  \/ p \in Panel /\ s = HangUp /\ Turn(p, Hanging)
             \/ p = "main" /\ s = Established /\ Turn(p, Answering)
  <2>1. At(p, "invalidate") /\ Turn(p, Tail(s))
    BY <1>5 DEF Invalidate, Advance
  <2> QED
    BY <1>1, <1>2, <2>1, ProgramIs, HangUpsAre, AnswersAre
<1>6. ASSUME Schedule(p)
      PROVE  p \in Panel /\ s = <<"schedule", "call">> /\ Turn(p, <<"call">>)
  <2>1. At(p, "schedule") /\ Turn(p, Tail(s))
    BY <1>6 DEF Schedule, Advance
  <2>2. p \in Panel /\ s = <<"schedule", "call">>
    BY <1>1, <1>2, <2>1, ProgramIs
  <2> QED
    BY <1>3, <2>1, <2>2
<1>7. ASSUME Call(p)
      PROVE  /\ p \in Panel /\ s = <<"call">> /\ Unlocked
             /\ \/ /\ Turn(p, <<>>) /\ UNCHANGED holder
                   /\ sip' = sip \/ (sip' = "asking" /\ sip = "idle")
                \/ Turn(p, Ended) /\ holder' = p /\ sip = "idle" /\ sip' = sip
  <2>1. /\ At(p, "call") /\ Unlocked
        /\ \/ Turn(p, Tail(s)) /\ UNCHANGED <<sip, holder>>
           \/ sip = "idle" /\ sip' = "asking" /\ Turn(p, Tail(s)) /\ UNCHANGED holder
           \/ sip = "idle" /\ Turn(p, Ended) /\ holder' = p /\ UNCHANGED sip
    BY <1>7 DEF Call, Advance, Lock
  <2>2. p \in Panel /\ s = <<"call">>
    BY <1>1, <1>2, <2>1, ProgramIs
  <2> QED
    BY <1>3, <2>1, <2>2
<1>8. ASSUME Terminate(p)
      PROVE  /\ p # "main" /\ s = <<"terminate">> /\ Unlocked /\ sip' = "idle"
             /\ \/ sip = "idle" /\ Turn(p, <<>>) /\ UNCHANGED holder
                \/ sip # "idle" /\ Turn(p, Ended) /\ holder' = p
  <2>1. /\ At(p, "terminate") /\ Unlocked /\ sip' = "idle"
        /\ \/ sip = "idle" /\ Turn(p, Tail(s)) /\ UNCHANGED holder
           \/ sip # "idle" /\ Turn(p, Ended) /\ holder' = p
    BY <1>8 DEF Terminate, Advance, Lock
  <2>2. p # "main" /\ s = <<"terminate">>
    BY <1>1, <1>2, <2>1, ProgramIs
  <2> QED
    BY <1>3, <2>1, <2>2
<1>9. ASSUME Unlock(p)
      PROVE  s = <<"unlock">> /\ Turn(p, <<>>) /\ holder' = "nobody"
  <2>1. At(p, "unlock") /\ Turn(p, Tail(s)) /\ holder' = "nobody"
    BY <1>9 DEF Unlock, Advance
  <2>2. s = <<"unlock">>
    BY <1>1, <1>2, <2>1, ProgramIs
  <2> QED
    BY <1>3, <2>1, <2>2
<1> QED
  BY <1>4, <1>5, <1>6, <1>7, <1>8, <1>9

\* The steps of a timeout.
LEMMA TimerIs ==
  ASSUME RingTypeOK, NEW t \in DOMAIN timers
  PROVE  /\ t \in 1..Len(timers) /\ timers[t] \in Timeouts
         /\ Expire(t) => timers[t] = Timeout /\ TimerTurns(t, IF current = t THEN Due ELSE <<>>)
         /\ LookInactive(t) =>
              timers[t] = Due /\ TimerTurns(t, IF sip = "idle" THEN Expired ELSE <<>>)
         /\ TimerSays(t) =>
              /\ timers[t] \in Timeouts \ {<<>>, Timeout, Due}
              /\ told' = Published(Head(timers[t])) /\ Head(timers[t]) \in Publications
              /\ TimerTurns(t, Tail(timers[t])) /\ Tail(timers[t]) \in Timeouts
         /\ \A s \in Timeouts : TimerTurns(t, s) =>
              /\ timers' \in Seq(Timeouts) /\ Len(timers') = Len(timers)
              /\ DOMAIN timers' = DOMAIN timers
              /\ timers'[t] = s /\ \A u \in DOMAIN timers : u # t => timers'[u] = timers[u]
<1>1. timers \in Seq(Timeouts)
  BY DEF RingTypeOK, TimersOK
<1>2. t \in 1..Len(timers) /\ timers[t] \in Timeouts
  BY <1>1, ElementOfSeq, LenProperties
<1> DEFINE x == timers[t]
<1>3. ASSUME x # <<>>
      PROVE  /\ Head(x) = "ifCurrent" => x = Timeout
             /\ Head(x) = "ifInactive" => x = Due
             /\ Head(x) \in Publications => x \in Timeouts \ {<<>>, Timeout, Due}
  <2>1. x \in Timeouts
    BY <1>2
  <2> HIDE DEF x
  <2> QED
    BY <1>3, <2>1, TimeoutsAre DEF Publications
<1>4. ASSUME NEW s \in Timeouts, TimerTurns(t, s)
      PROVE  /\ timers' \in Seq(Timeouts) /\ Len(timers') = Len(timers)
             /\ DOMAIN timers' = DOMAIN timers
             /\ timers'[t] = s /\ \A u \in DOMAIN timers : u # t => timers'[u] = timers[u]
  <2>1. timers' = [timers EXCEPT ![t] = s]
    BY <1>4 DEF TimerTurns
  <2>2. timers' \in Seq(Timeouts) /\ Len(timers') = Len(timers)
    BY <1>1, <1>2, <2>1, ExceptSeq
  <2> QED
    BY <1>1, <2>1, <2>2, LenProperties
<1>5. ASSUME Expire(t)
      PROVE  x = Timeout /\ TimerTurns(t, IF current = t THEN Due ELSE <<>>)
  <2>1. x # <<>> /\ Head(x) = "ifCurrent" /\ TimerTurns(t, IF current = t THEN Tail(x) ELSE <<>>)
    BY <1>5 DEF Expire, TimerAt
  <2>2. x = Timeout
    BY <1>3, <2>1
  <2> QED
    BY <2>1, <2>2, TimeoutsAre
<1>6. ASSUME LookInactive(t)
      PROVE  x = Due /\ TimerTurns(t, IF sip = "idle" THEN Expired ELSE <<>>)
  <2>1. /\ x # <<>> /\ Head(x) = "ifInactive"
        /\ TimerTurns(t, IF sip = "idle" THEN Tail(x) ELSE <<>>)
    BY <1>6 DEF LookInactive, TimerAt
  <2>2. x = Due
    BY <1>3, <2>1
  <2> QED
    BY <2>1, <2>2, TimeoutsAre
<1>7. ASSUME TimerSays(t)
      PROVE  /\ x \in Timeouts \ {<<>>, Timeout, Due}
             /\ told' = Published(Head(x)) /\ Head(x) \in Publications
             /\ TimerTurns(t, Tail(x)) /\ Tail(x) \in Timeouts
  <2>1. /\ x # <<>> /\ Head(x) \in Publications
        /\ told' = Published(Head(x)) /\ TimerTurns(t, Tail(x))
    BY <1>7 DEF TimerSays
  <2>2. x \in Timeouts \ {<<>>, Timeout, Due}
    BY <1>3, <2>1
  <2> QED
    BY <2>1, <2>2, TimeoutsAre
<1> QED
  BY <1>2, <1>4, <1>5, <1>6, <1>7

\* A request makes a timer of its own, which is the current one.
LEMMA NewTimer ==
  ASSUME TimersOK,
         \/ timers' = Append(timers, Timeout) /\ current' = Len(timers) + 1
         \/ current' = 0 /\ UNCHANGED timers
  PROVE  /\ TimersOK'
         /\ current' # 0 => timers'[current'] = Timeout
<1>1. timers \in Seq(Timeouts) /\ Len(timers) \in Nat /\ Timeout \in Timeouts
  BY LenProperties DEF TimersOK, Timeouts
<1>2. CASE current' = 0 /\ UNCHANGED timers
  BY <1>1, <1>2 DEF TimersOK
<1>3. CASE timers' = Append(timers, Timeout) /\ current' = Len(timers) + 1
  <2>1. timers' \in Seq(Timeouts) /\ Len(timers') = Len(timers) + 1
    BY <1>1, <1>3, AppendProperties
  <2>2. timers'[current'] = Timeout
    BY <1>1, <1>3, AppendProperties
  <2> QED
    BY <1>1, <1>3, <2>1, <2>2 DEF TimersOK
<1> QED
  BY <1>2, <1>3

LEMMA TypeStep ==
  ASSUME RingTypeOK, Next
  PROVE  RingTypeOK'
<1>1. /\ setting \in Settings /\ sip \in {"idle", "asking", "incoming", "established"}
      /\ holder \in Thread \cup {"nobody"} /\ TimersOK /\ told \in Tolds
  BY DEF RingTypeOK
<1>2. /\ \A p \in Thread : <<>> \in Programs(p) /\ Ended \in Programs(p)
      /\ \A p \in Panel : /\ Ding \in Programs(p) /\ Asked \in Programs(p)
                          /\ <<"call">> \in Programs(p)
                          /\ HangUp \in Programs(p) /\ Hanging \in Programs(p)
      /\ DoorUnlock \in Programs("mqtt")
      /\ Established \in Programs("main") /\ Answering \in Programs("main")
  BY MayBe DEF Thread, Endings, Asking, HangUps, Answers
<1>3. "main" \in Thread /\ "mqtt" \in Thread /\ Panel \subseteq Thread
  BY DEF Thread
<1>4. ASSUME NEW p \in Thread, NEW s \in Programs(p), Turn(p, s), UNCHANGED setting,
             sip' \in {"idle", "asking", "incoming", "established"},
             holder' \in Thread \cup {"nobody"}, TimersOK', told' \in Tolds
      PROVE  RingTypeOK'
  <2>1. DOMAIN todo' = Thread /\ \A q \in Thread : todo'[q] \in Programs(q)
    BY <1>4, Turned, Zenon
  <2>2. setting' \in Settings
    BY <1>1, <1>4, Zenon
  <2> QED
    BY <1>4, <2>1, <2>2, Zenon DEF RingTypeOK
<1>5. ASSUME UNCHANGED <<timers, current>> PROVE TimersOK'
  BY <1>1, <1>5 DEF TimersOK
<1>6. ASSUME NEW p \in Thread, Run(p) PROVE RingTypeOK'
  <2>1. CASE Say(p)
    <3>1. UNCHANGED <<setting, sip, holder, timers, current>>
      BY <2>1 DEF Say
    <3>2. Turn(p, Tail(todo[p])) /\ Tail(todo[p]) \in Programs(p) /\ told' \in Tolds
      BY <1>1, <2>1, SayIs, PublishIs
    <3> QED
      BY <1>1, <1>4, <1>5, <3>1, <3>2
  <2>2. CASE Look(p)
    <3>1. UNCHANGED <<setting, sip, holder, timers, current, told>>
      BY <2>2 DEF Look
    <3>2. PICK s \in Programs(p) : Turn(p, s)
      BY <1>2, <2>2, StepsAre
    <3> QED
      BY <1>1, <1>4, <1>5, <3>1, <3>2
  <2>3. CASE Invalidate(p)
    <3>1. UNCHANGED <<setting, sip, holder, timers, told>> /\ current' = 0
      BY <2>3 DEF Invalidate
    <3>2. PICK s \in Programs(p) : Turn(p, s)
      BY <1>2, <2>3, StepsAre
    <3>3. TimersOK'
      BY <1>1, <3>1 DEF TimersOK
    <3> QED
      BY <1>1, <1>4, <3>1, <3>2, <3>3
  <2>4. CASE Schedule(p)
    <3>1. UNCHANGED <<setting, sip, holder, told>>
      BY <2>4 DEF Schedule
    <3>2. <<"call">> \in Programs(p) /\ Turn(p, <<"call">>)
      BY <1>2, <2>4, StepsAre
    <3>3. TimersOK'
      BY <1>1, <2>4, NewTimer DEF Schedule
    <3> QED
      BY <1>1, <1>4, <3>1, <3>2, <3>3
  <2>5. CASE Call(p)
    <3>1. UNCHANGED <<setting, timers, current, told>>
      BY <2>5 DEF Call
    <3>2. PICK s \in Programs(p) : Turn(p, s)
      BY <1>2, <2>5, StepsAre
    <3>3. holder' \in {holder, p} /\ sip' \in {sip, "asking"}
      BY <2>5, StepsAre
    <3> QED
      BY <1>1, <1>4, <1>5, <3>1, <3>2, <3>3
  <2>6. CASE Terminate(p)
    <3>1. UNCHANGED <<setting, timers, current, told>>
      BY <2>6 DEF Terminate
    <3>2. PICK s \in Programs(p) : Turn(p, s)
      BY <1>2, <2>6, StepsAre
    <3>3. holder' \in {holder, p} /\ sip' = "idle"
      BY <2>6, StepsAre
    <3> QED
      BY <1>1, <1>4, <1>5, <3>1, <3>2, <3>3
  <2>7. CASE Unlock(p)
    <3>1. UNCHANGED <<setting, sip, timers, current, told>>
      BY <2>7 DEF Unlock
    <3>2. <<>> \in Programs(p) /\ Turn(p, <<>>) /\ holder' = "nobody"
      BY <1>2, <2>7, StepsAre
    <3> QED
      BY <1>1, <1>4, <1>5, <3>1, <3>2
  <2> QED
    BY <1>6, <2>1, <2>2, <2>3, <2>4, <2>5, <2>6, <2>7 DEF Run
<1>7. ASSUME NEW t \in DOMAIN timers, TimerRuns(t) PROVE RingTypeOK'
  <2>1. UNCHANGED <<setting, sip, holder, todo, current>> /\ told' \in Tolds
    BY <1>1, <1>7, TimerIs, PublishIs DEF TimerRuns, Expire, LookInactive, TimerSays
  <2>2. PICK s \in Timeouts : TimerTurns(t, s)
    BY <1>7, TimerIs DEF TimerRuns, Timeouts
  <2>3. TimersOK'
    BY <1>1, <2>1, <2>2, TimerIs DEF TimersOK
  <2> QED
    BY <2>1, <2>3 DEF RingTypeOK, Programs
<1>8. ASSUME NEW p \in Panel, Ring(p) \/ Frame(p) PROVE RingTypeOK'
  <2>1. UNCHANGED <<setting, sip, holder, timers, current, told>>
    BY <1>8 DEF Ring, Frame
  <2>2. PICK s \in Programs(p) : Turn(p, s)
    BY <1>2, <1>8 DEF Ring, Frame
  <2> QED
    BY <1>1, <1>3, <1>4, <1>5, <2>1, <2>2
<1>9. CASE DoorOpened
  <2>1. UNCHANGED <<setting, sip, holder, timers, current, told>> /\ Turn("mqtt", DoorUnlock)
    BY <1>9 DEF DoorOpened
  <2> QED
    BY <1>1, <1>2, <1>3, <1>4, <1>5, <2>1
<1>10. CASE Invited
  <2>1. UNCHANGED <<setting, timers, current, told>> /\ sip' = "incoming"
    BY <1>10 DEF Invited
  <2>2. CASE sip = "asking"
    <3>1. Turn("main", Ended) /\ holder' = "main"
      BY <1>10, <2>2 DEF Invited, Lock
    <3> QED
      BY <1>1, <1>2, <1>3, <1>4, <1>5, <2>1, <3>1
  <2>3. CASE sip # "asking"
    <3>1. UNCHANGED <<todo, holder>>
      BY <1>10, <2>3 DEF Invited
    <3> QED
      BY <1>5, <2>1, <3>1 DEF RingTypeOK, Programs
  <2> QED
    BY <2>2, <2>3
<1>11. CASE Answered \/ Over
  <2>1. UNCHANGED <<setting, timers, current, told>> /\ sip' \in {"idle", "established"}
    BY <1>11 DEF Answered, Over
  <2>2. PICK s \in Programs("main") : Turn("main", s)
    BY <1>2, <1>3, <1>11 DEF Answered, Over
  <2>3. holder' = "main"
    BY <1>11 DEF Answered, Over, Lock
  <2> QED
    BY <1>1, <1>3, <1>4, <1>5, <2>1, <2>2, <2>3
<1> QED
  BY <1>6, <1>7, <1>8, <1>9, <1>10, <1>11 DEF Next

\* Holding changes hands only with the lock.
LEMMA LockKept ==
  ASSUME RingTypeOK, Locked, NEW p \in Thread, NEW s \in Programs(p), Turn(p, s),
         \/ UNCHANGED holder /\ (todo[p] \in Holding <=> s \in Holding)
         \/ Unlocked /\ holder' = p /\ s \in Holding
         \/ todo[p] \in Holding /\ holder' = "nobody" /\ s \notin Holding
  PROVE  \A q \in Thread : holder' = q <=> todo'[q] \in Holding
<1>1. "nobody" \notin Thread
  BY DEF Thread, Panel
<1>2. \A q \in Thread : holder = q <=> todo[q] \in Holding
  BY DEF Locked
<1>3. todo'[p] = s /\ \A q \in Thread : q # p => todo'[q] = todo[q]
  BY Turned
<1>4. CASE UNCHANGED holder /\ (todo[p] \in Holding <=> s \in Holding)
  BY <1>2, <1>3, <1>4
<1>5. CASE Unlocked /\ holder' = p /\ s \in Holding
  BY <1>1, <1>2, <1>3, <1>5 DEF Unlocked
<1>6. CASE todo[p] \in Holding /\ holder' = "nobody" /\ s \notin Holding
  BY <1>1, <1>2, <1>3, <1>6
<1> QED
  BY <1>4, <1>5, <1>6

\* What is so of the call while main works is so when others step, or nothing is
\* to be shown: a step of p that leaves main and the call alone keeps Locked.
LEMMA LockStays ==
  ASSUME RingTypeOK, Locked, NEW p \in Thread, NEW s \in Programs(p), Turn(p, s),
         UNCHANGED <<setting, sip>>,
         \/ UNCHANGED holder /\ (todo[p] \in Holding <=> s \in Holding)
         \/ Unlocked /\ holder' = p /\ s \in Holding /\ sip = "idle"
         \/ todo[p] \in Holding /\ holder' = "nobody" /\ s \notin Holding,
         p = "main" => /\ s \in Answers => todo[p] \in Answers
                       /\ s \in {Ended, <<"end", "notRinging", "unlock">>} => todo[p] = Ended
  PROVE  Locked'
<1>1. \A q \in Thread : holder' = q <=> todo'[q] \in Holding
  BY LockKept
<1>2. todo'[p] = s /\ (p # "main" => todo'["main"] = todo["main"]) /\ "main" \in Thread
  BY Turned DEF Thread
<1>3. holder' \notin {"nobody", "main"} => sip' = "idle"
  BY DEF Locked
<1>4. todo'["main"] \in Answers => sip' = "established"
  BY <1>2 DEF Locked
<1>5. todo'["main"] \in {Ended, <<"end", "notRinging", "unlock">>} => sip' # "established"
  BY <1>2 DEF Locked
<1> QED
  BY <1>1, <1>3, <1>4, <1>5 DEF Locked

LEMMA LockStep ==
  ASSUME RingTypeOK, Locked, Next
  PROVE  Locked'
<1>1. /\ "main" \in Thread /\ "mqtt" \in Thread /\ Panel \subseteq Thread /\ "nobody" \notin Thread
      /\ "main" \notin Panel /\ \A p \in Thread : todo[p] \in Programs(p)
  BY DEF Thread, Panel, RingTypeOK
<1>2. /\ \A p \in Thread : <<>> \in Programs(p) /\ Ended \in Programs(p)
      /\ \A p \in Panel : /\ Ding \in Programs(p) /\ Asked \in Programs(p)
                          /\ <<"call">> \in Programs(p)
                          /\ HangUp \in Programs(p) /\ Hanging \in Programs(p)
      /\ DoorUnlock \in Programs("mqtt")
      /\ Established \in Programs("main") /\ Answering \in Programs("main")
  BY MayBe DEF Thread, Endings, Asking, HangUps, Answers
<1>3. /\ Ended \in Holding /\ Established \in Holding /\ Answering \in Holding
      /\ <<"unlock">> \in Holding
      /\ \A s \in {<<>>, Ding, <<"call">>, <<"terminate">>, DoorUnlock, HangUp, Hanging, Asked,
                   <<"schedule", "call">>} : s \notin Holding
      /\ \A s \in HangUps \cup Asking : s \notin Holding
  BY Separate DEF Holding, Endings, Answers, HangUps, Asking, DoorUnlock
<1>4. /\ Ended \notin Answers /\ Established \in Answers /\ Answering \in Answers
      /\ Established \notin Endings
      /\ <<>> \notin Answers \cup {Ended, <<"end", "notRinging", "unlock">>}
  BY Separate DEF Endings, Answers
<1>5. ASSUME NEW p \in Thread, Run(p) PROVE Locked'
  <2>1. CASE Say(p)
    <3>1. UNCHANGED <<setting, sip, holder>> /\ Turn(p, Tail(todo[p])) /\ Tail(todo[p]) \in Programs(p)
      BY <2>1, SayIs DEF Say
    <3>2. CASE p \in Panel
      <4>1. todo[p] \in Holding <=> Tail(todo[p]) \in Holding
        BY <1>1, <1>3, <2>1, <3>2, SayIs, EndingsAre DEF Holding
      <4> QED
        BY <1>1, <3>1, <3>2, <4>1, LockStays
    <3>3. CASE todo[p] \in Endings \ {<<"unlock">>} /\ Tail(todo[p]) \in Endings
      <4>1. todo[p] \in Holding /\ Tail(todo[p]) \in Holding /\ Tail(todo[p]) \notin Answers
        BY <3>3, Separate DEF Holding
      <4>2. Tail(todo[p]) \in {Ended, <<"end", "notRinging", "unlock">>} => todo[p] = Ended
        <5>1. /\ Tail(<<"end", "notRinging", "unlock">>) = <<"notRinging", "unlock">>
              /\ Tail(<<"notRinging", "unlock">>) = <<"unlock">>
          BY Tails
        <5>2. <<"notRinging", "unlock">> \notin {Ended, <<"end", "notRinging", "unlock">>}
              /\ <<"unlock">> \notin {Ended, <<"end", "notRinging", "unlock">>}
          BY DEF Ended
        <5> QED
          BY <3>3, <5>1, <5>2 DEF Endings
      <4> QED
        BY <3>1, <4>1, <4>2, LockStays
    <3>4. CASE p = "main" /\ todo[p] \in {Answering, Started}
      <4>1. /\ todo[p] \in Answers /\ todo[p] \in Holding
            /\ Tail(todo[p]) \in {Started, <<"notRinging", "unlock">>}
        BY <3>4, AnswersAre DEF Answers, Holding
      <4>2. /\ Started \in Holding /\ <<"notRinging", "unlock">> \in Holding
            /\ Started \notin {Ended, <<"end", "notRinging", "unlock">>}
            /\ <<"notRinging", "unlock">> \notin {Ended, <<"end", "notRinging", "unlock">>}
        BY DEF Holding, Answers, Endings, Started, Ended
      <4> QED
        BY <3>1, <4>1, <4>2, LockStays
    <3> QED
      BY <2>1, <3>2, <3>3, <3>4, SayIs
  <2>2. CASE Look(p)
    <3>1. UNCHANGED <<setting, sip, holder>> /\ p \in Panel /\ todo[p] = Ding
      BY <2>2, StepsAre DEF Look
    <3>2. PICK s \in {Asked, <<>>} : Turn(p, s)
      BY <2>2, StepsAre
    <3> QED
      BY <1>1, <1>2, <1>3, <3>1, <3>2, LockStays
  <2>3. CASE Invalidate(p)
    <3>1. UNCHANGED <<setting, sip, holder>>
      BY <2>3 DEF Invalidate
    <3>2. CASE p \in Panel /\ todo[p] = HangUp /\ Turn(p, Hanging)
      BY <1>1, <1>2, <1>3, <3>1, <3>2, LockStays
    <3>3. CASE p = "main" /\ todo[p] = Established /\ Turn(p, Answering)
      <4>1. Answering \notin {Ended, <<"end", "notRinging", "unlock">>}
        BY DEF Answering, Ended
      <4> QED
        BY <1>1, <1>2, <1>3, <1>4, <3>1, <3>3, <4>1, LockStays
    <3> QED
      BY <2>3, <3>2, <3>3, StepsAre
  <2>4. CASE Schedule(p)
    <3>1. UNCHANGED <<setting, sip, holder>> /\ p \in Panel /\ todo[p] = <<"schedule", "call">>
          /\ Turn(p, <<"call">>)
      BY <2>4, StepsAre DEF Schedule
    <3> QED
      BY <1>1, <1>2, <1>3, <3>1, LockStays
  <2>5. CASE Call(p)
    <3>1. p \in Panel /\ todo[p] = <<"call">> /\ Unlocked /\ UNCHANGED setting
      BY <2>5, StepsAre DEF Call
    <3>2. CASE Turn(p, Ended) /\ holder' = p /\ sip = "idle" /\ sip' = sip
      BY <1>1, <1>2, <1>3, <3>1, <3>2, LockStays
    <3>3. CASE Turn(p, <<>>) /\ UNCHANGED <<sip, holder>>
      BY <1>1, <1>2, <1>3, <3>1, <3>3, LockStays
    <3>4. CASE Turn(p, <<>>) /\ UNCHANGED holder /\ sip' = "asking" /\ sip = "idle"
      <4>1. \A q \in Thread : holder' = q <=> todo'[q] \in Holding
        BY <1>1, <1>2, <1>3, <3>1, <3>4, LockKept
      <4>2. todo'["main"] \notin Answers /\ holder' = "nobody"
        BY <1>1, <3>1, <3>4, <4>1 DEF Unlocked, Holding
      <4> QED
        BY <3>1, <3>4, <4>1, <4>2 DEF Locked
    <3> QED
      BY <2>5, <3>2, <3>3, <3>4, StepsAre
  <2>6. CASE Terminate(p)
    <3>1. p # "main" /\ todo[p] = <<"terminate">> /\ Unlocked /\ sip' = "idle" /\ UNCHANGED setting
      BY <2>6, StepsAre DEF Terminate
    <3>2. \A q \in Thread : holder' = q <=> todo'[q] \in Holding
      BY <1>2, <1>3, <2>6, <3>1, StepsAre, LockKept
    <3>3. holder' # "main"
      BY <1>1, <2>6, <3>1, StepsAre DEF Unlocked
    <3>4. todo'["main"] \notin Answers
      BY <1>1, <3>2, <3>3 DEF Holding
    <3> QED
      BY <3>1, <3>2, <3>4 DEF Locked
  <2>7. CASE Unlock(p)
    <3>1. UNCHANGED <<setting, sip>> /\ todo[p] = <<"unlock">> /\ Turn(p, <<>>) /\ holder' = "nobody"
      BY <2>7, StepsAre DEF Unlock
    <3> QED
      BY <1>2, <1>3, <1>4, <3>1, LockStays
  <2> QED
    BY <1>5, <2>1, <2>2, <2>3, <2>4, <2>5, <2>6, <2>7 DEF Run
<1>6. ASSUME NEW t \in DOMAIN timers, TimerRuns(t) PROVE Locked'
  <2>1. UNCHANGED <<setting, sip, holder, todo>>
    BY <1>6 DEF TimerRuns, Expire, LookInactive, TimerSays
  <2> QED
    BY <2>1 DEF Locked
<1>7. ASSUME NEW p \in Panel, Ring(p) \/ Frame(p) PROVE Locked'
  <2>1. UNCHANGED <<setting, sip, holder>> /\ todo[p] = <<>>
    BY <1>7 DEF Ring, Frame, Idle
  <2>2. PICK s \in {Ding, HangUp} : Turn(p, s)
    BY <1>7 DEF Ring, Frame
  <2> QED
    BY <1>1, <1>2, <1>3, <2>1, <2>2, LockStays
<1>8. CASE DoorOpened
  <2>1. /\ UNCHANGED <<setting, sip, holder>> /\ todo["mqtt"] = <<>>
        /\ Turn("mqtt", DoorUnlock)
    BY <1>8 DEF DoorOpened, Idle
  <2> QED
    BY <1>1, <1>2, <1>3, <2>1, LockStays
<1>9. CASE Invited
  <2>1. /\ UNCHANGED setting /\ setting.incoming /\ sip' = "incoming" /\ Unlocked
        /\ todo["main"] = <<>>
    BY <1>9 DEF Invited, SipMayAct, Idle
  <2>2. CASE sip = "asking"
    <3>1. Turn("main", Ended) /\ holder' = "main"
      BY <1>9, <2>2 DEF Invited, Lock
    <3>2. \A q \in Thread : holder' = q <=> todo'[q] \in Holding
      BY <1>1, <1>2, <1>3, <2>1, <3>1, LockKept
    <3>3. todo'["main"] = Ended
      BY <1>1, <1>2, <3>1, Turned
    <3> QED
      BY <1>4, <2>1, <3>1, <3>2, <3>3 DEF Locked
  <2>3. CASE sip # "asking"
    <3>1. UNCHANGED <<todo, holder>>
      BY <1>9, <2>3 DEF Invited
    <3> QED
      BY <1>4, <2>1, <3>1 DEF Locked, Unlocked
  <2> QED
    BY <2>2, <2>3
<1>10. CASE Answered
  <2>1. /\ UNCHANGED setting /\ sip' = "established" /\ Unlocked
        /\ Turn("main", Established) /\ holder' = "main"
    BY <1>10 DEF Answered, SipMayAct, Lock
  <2>2. \A q \in Thread : holder' = q <=> todo'[q] \in Holding
    BY <1>1, <1>2, <1>3, <2>1, LockKept
  <2>3. todo'["main"] = Established
    BY <1>1, <1>2, <2>1, Turned
  <2>4. Established \notin {Ended, <<"end", "notRinging", "unlock">>}
    BY DEF Established, Ended
  <2> QED
    BY <2>1, <2>2, <2>3, <2>4 DEF Locked
<1>11. CASE Over
  <2>1. /\ UNCHANGED setting /\ sip' = "idle" /\ Unlocked
        /\ Turn("main", Ended) /\ holder' = "main"
    BY <1>11 DEF Over, SipMayAct, Lock
  <2>2. \A q \in Thread : holder' = q <=> todo'[q] \in Holding
    BY <1>1, <1>2, <1>3, <2>1, LockKept
  <2>3. todo'["main"] = Ended
    BY <1>1, <1>2, <2>1, Turned
  <2> QED
    BY <1>4, <2>1, <2>2, <2>3 DEF Locked
<1> QED
  BY <1>5, <1>6, <1>7, <1>8, <1>9, <1>10, <1>11 DEF Next

\* A step of one thread keeps a topic covered when it gives up no cover of its
\* own for what it leaves untold.
LEMMA CoverKept ==
  ASSUME RingTypeOK, NEW field \in {"media", "session", "ringing"}, Covered(field),
         NEW p \in Thread, NEW s \in Programs(p), Turn(p, s), UNCHANGED <<timers, current>>,
         \/ sip' # "idle"
         \/ s \in Asking \cup Silences[field]
         \/ told'[field] = Quiet[field]
         \/ /\ told'[field] = told[field] /\ sip = "idle"
            /\ todo[p] \notin Asking \cup Silences[field]
  PROVE  Covered(field)'
<1>1. todo'[p] = s /\ \A q \in Thread : q # p => todo'[q] = todo[q]
  BY Turned
<1>2. CASE told'[field] = Quiet[field]
  BY <1>2 DEF Covered
<1>3. CASE sip' # "idle"
  BY <1>3 DEF Covered
<1>4. CASE s \in Asking \cup Silences[field]
  <2>1. \E q \in Thread : todo'[q] \in Asking \cup Silences[field]
    BY <1>1, <1>4
  <2> QED
    BY <2>1 DEF Covered
<1>5. CASE /\ told'[field] = told[field] /\ sip = "idle"
           /\ todo[p] \notin Asking \cup Silences[field]
  <2>1. CASE told[field] = Quiet[field]
    BY <1>5, <2>1 DEF Covered
  <2>2. CASE current # 0 /\ timers[current] \in Expiring[field]
    BY <2>2 DEF Covered
  <2>3. CASE \E q \in Thread : todo[q] \in Asking \cup Silences[field]
    <3>1. PICK q \in Thread : todo[q] \in Asking \cup Silences[field]
      BY <2>3
    <3>2. todo'[q] = todo[q]
      BY <1>1, <1>5, <3>1
    <3>3. \E r \in Thread : todo'[r] \in Asking \cup Silences[field]
      BY <3>1, <3>2
    <3> QED
      BY <3>3 DEF Covered
  <2> QED
    BY <1>5, <2>1, <2>2, <2>3 DEF Covered
<1> QED
  BY <1>2, <1>3, <1>4, <1>5

LEMMA CurrentIs ==
  ASSUME RingTypeOK
  PROVE  current \in Nat /\ (current # 0 => current \in DOMAIN timers)
BY LenProperties DEF RingTypeOK, TimersOK

LEMMA CoverStep ==
  ASSUME RingTypeOK, Locked, ~setting.threadsFail, Next,
         NEW field \in {"media", "session", "ringing"}, Covered(field)
  PROVE  Covered(field)'
<1>1. /\ "main" \in Thread /\ "mqtt" \in Thread /\ Panel \subseteq Thread
      /\ "main" \notin Panel /\ told \in Tolds
      /\ \A p \in Thread : todo[p] \in Programs(p)
  BY DEF Thread, Panel, RingTypeOK
<1>2. /\ \A p \in Thread : <<>> \in Programs(p) /\ Ended \in Programs(p)
      /\ \A p \in Panel : /\ Ding \in Programs(p) /\ Asked \in Programs(p)
                          /\ <<"call">> \in Programs(p)
                          /\ HangUp \in Programs(p) /\ Hanging \in Programs(p)
      /\ DoorUnlock \in Programs("mqtt")
      /\ Established \in Programs("main") /\ Answering \in Programs("main")
  BY MayBe DEF Thread, Endings, Asking, HangUps, Answers
<1>3. /\ {HangUp, Ended, Hanging} \subseteq Silences[field]
      /\ {Timeout, Due, Expired} \subseteq Expiring[field]
      /\ \A s \in {<<>>, <<"call">>, <<"terminate">>, <<"unlock">>, Ding} :
           s \notin Asking \cup Silences[field]
  BY <1>1, SilencingIs
<1>4. ASSUME NEW p \in Thread, Run(p) PROVE Covered(field)'
  <2>1. CASE Say(p)
    <3>1. /\ UNCHANGED <<sip, timers, current>> /\ Turn(p, Tail(todo[p]))
          /\ Tail(todo[p]) \in Programs(p) /\ told' = Published(Head(todo[p]))
      BY <2>1, SayIs DEF Say
    <3>2. CASE Tail(todo[p]) \in Asking
      BY <3>1, <3>2, CoverKept
    <3>3. CASE todo[p] \in (HangUps \ {HangUp, <<"terminate">>}) \cup (Endings \ {<<"unlock">>})
      <4>1. \/ told'[field] = Quiet[field]
            \/ /\ told'[field] = told[field]
               /\ todo[p] \in Silences[field] => Tail(todo[p]) \in Silences[field]
        BY <1>1, <3>1, <3>3, SilencingIs
      <4>2. todo[p] \notin Asking
        BY <3>3, Separate DEF Holding
      <4>3. CASE sip # "idle"
        BY <3>1, <4>3, CoverKept
      <4>4. CASE sip = "idle"
        BY <3>1, <4>1, <4>2, <4>4, CoverKept
      <4> QED
        BY <4>3, <4>4
    <3>4. CASE p = "main" /\ todo[p] \in {Answering, Started}
      <4>1. sip' # "idle"
        BY <3>1, <3>4 DEF Locked, Answers
      <4> QED
        BY <3>1, <4>1, CoverKept
    <3> QED
      BY <2>1, <3>2, <3>3, <3>4, SayIs
  <2>2. CASE Look(p)
    <3>1. UNCHANGED <<sip, timers, current, told>> /\ p \in Panel /\ todo[p] = Ding
      BY <2>2, StepsAre DEF Look
    <3>2. PICK s \in {Asked, <<>>} : Turn(p, s)
      BY <2>2, StepsAre
    <3>3. s \in Programs(p)
      BY <1>2, <3>1, <3>2
    <3> QED
      BY <1>3, <3>1, <3>2, <3>3, CoverKept
  <2>3. CASE Invalidate(p)
    <3>1. UNCHANGED <<sip, told>>
      BY <2>3 DEF Invalidate
    <3>2. CASE p \in Panel /\ todo[p] = HangUp /\ Turn(p, Hanging)
      <4>1. todo'[p] \in Silences[field]
        BY <1>2, <1>3, <3>2, Turned
      <4> QED
        BY <4>1 DEF Covered
    <3>3. CASE p = "main" /\ todo[p] = Established /\ Turn(p, Answering)
      <4>1. sip' # "idle"
        BY <3>1, <3>3 DEF Locked, Answers
      <4> QED
        BY <4>1 DEF Covered
    <3> QED
      BY <2>3, <3>2, <3>3, StepsAre
  <2>4. CASE Schedule(p)
    <3>1. timers' = Append(timers, Timeout) /\ current' = Len(timers) + 1
      BY <2>4 DEF Schedule
    <3>2. TimersOK
      BY DEF RingTypeOK
    <3>3. current' # 0 /\ timers'[current'] = Timeout
      BY <3>1, <3>2, NewTimer, LenProperties DEF TimersOK
    <3> QED
      BY <1>3, <3>3 DEF Covered
  <2>5. CASE Call(p)
    <3>1. UNCHANGED <<timers, current, told>> /\ p \in Panel /\ todo[p] = <<"call">>
      BY <2>5, StepsAre DEF Call
    <3>2. CASE Turn(p, Ended)
      BY <1>2, <1>3, <3>1, <3>2, CoverKept
    <3>3. CASE Turn(p, <<>>) /\ (sip' = sip \/ sip' = "asking")
      BY <1>2, <1>3, <3>1, <3>3, CoverKept
    <3> QED
      BY <2>5, <3>2, <3>3, StepsAre
  <2>6. CASE Terminate(p)
    <3>1. UNCHANGED <<timers, current, told>> /\ todo[p] = <<"terminate">>
      BY <2>6, StepsAre DEF Terminate
    <3>2. CASE Turn(p, Ended)
      BY <1>2, <1>3, <3>1, <3>2, CoverKept
    <3>3. CASE Turn(p, <<>>) /\ sip = "idle"
      BY <1>2, <1>3, <3>1, <3>3, CoverKept
    <3> QED
      BY <2>6, <3>2, <3>3, StepsAre
  <2>7. CASE Unlock(p)
    <3>1. UNCHANGED <<sip, timers, current, told>> /\ todo[p] = <<"unlock">> /\ Turn(p, <<>>)
      BY <2>7, StepsAre DEF Unlock
    <3> QED
      BY <1>2, <1>3, <3>1, CoverKept
  <2> QED
    BY <1>4, <2>1, <2>2, <2>3, <2>4, <2>5, <2>6, <2>7 DEF Run
<1>5. ASSUME NEW t \in DOMAIN timers, TimerRuns(t) PROVE Covered(field)'
  <2>1. UNCHANGED <<sip, todo, current>>
    BY <1>5 DEF TimerRuns, Expire, LookInactive, TimerSays
  <2>2. \A s \in Timeouts : TimerTurns(t, s) =>
          timers'[t] = s /\ \A u \in DOMAIN timers : u # t => timers'[u] = timers[u]
    BY TimerIs
  <2>3. current # 0 => current \in DOMAIN timers
    BY CurrentIs
  <2>4. ASSUME NEW s \in Timeouts, TimerTurns(t, s),
               \/ sip # "idle"
               \/ told'[field] = Quiet[field]
               \/ /\ told'[field] = told[field]
                  /\ t = current /\ timers[t] \in Expiring[field] => s \in Expiring[field]
        PROVE  Covered(field)'
    <3>1. CASE sip # "idle"
      BY <2>1, <3>1 DEF Covered
    <3>2. CASE told'[field] = Quiet[field]
      BY <3>2 DEF Covered
    <3>3. CASE /\ told'[field] = told[field]
               /\ t = current /\ timers[t] \in Expiring[field] => s \in Expiring[field]
      <4>1. current # 0 /\ timers[current] \in Expiring[field] => timers'[current] \in Expiring[field]
        BY <2>2, <2>3, <2>4, <3>3
      <4> QED
        BY <2>1, <3>3, <4>1 DEF Covered
    <3> QED
      BY <2>4, <3>1, <3>2, <3>3
  <2>5. {Due, <<>>, Expired} \subseteq Timeouts
    BY DEF Timeouts
  <2>6. CASE Expire(t)
    <3>1. told' = told /\ TimerTurns(t, IF current = t THEN Due ELSE <<>>)
      BY <2>6, TimerIs DEF Expire
    <3>2. CASE current = t
      BY <1>3, <2>4, <2>5, <3>1, <3>2
    <3>3. CASE current # t
      BY <2>4, <2>5, <3>1, <3>3
    <3> QED
      BY <3>2, <3>3
  <2>7. CASE LookInactive(t)
    <3>1. told' = told /\ TimerTurns(t, IF sip = "idle" THEN Expired ELSE <<>>)
      BY <2>7, TimerIs DEF LookInactive
    <3>2. CASE sip = "idle"
      BY <1>3, <2>4, <2>5, <3>1, <3>2
    <3>3. CASE sip # "idle"
      BY <2>4, <2>5, <3>1, <3>3
    <3> QED
      BY <3>2, <3>3
  <2>8. CASE TimerSays(t)
    <3>1. /\ timers[t] \in Timeouts \ {<<>>, Timeout, Due} /\ told' = Published(Head(timers[t]))
          /\ TimerTurns(t, Tail(timers[t])) /\ Tail(timers[t]) \in Timeouts
      BY <2>8, TimerIs
    <3>2. \/ told'[field] = Quiet[field]
          \/ /\ told'[field] = told[field]
             /\ timers[t] \in Expiring[field] => Tail(timers[t]) \in Expiring[field]
      BY <1>1, <3>1, SilencingIs
    <3> QED
      BY <2>4, <3>1, <3>2
  <2> QED
    BY <1>5, <2>6, <2>7, <2>8 DEF TimerRuns
<1>6. ASSUME NEW p \in Panel, Ring(p) \/ Frame(p) PROVE Covered(field)'
  <2>1. UNCHANGED <<sip, timers, current, told>> /\ todo[p] = <<>> /\ p \in Thread
    BY <1>1, <1>6 DEF Ring, Frame, Idle
  <2>2. PICK s \in {Ding, HangUp} : Turn(p, s)
    BY <1>6 DEF Ring, Frame
  <2>3. s \in Programs(p)
    BY <1>2, <2>2
  <2>4. CASE sip # "idle"
    BY <2>1, <2>2, <2>3, <2>4, CoverKept
  <2>5. CASE sip = "idle"
    BY <1>3, <2>1, <2>2, <2>3, <2>5, CoverKept
  <2> QED
    BY <2>4, <2>5
<1>7. CASE DoorOpened
  <2>1. UNCHANGED <<sip, timers, current, told>> /\ Turn("mqtt", DoorUnlock) /\ sip # "idle"
    BY <1>7 DEF DoorOpened
  <2> QED
    BY <1>1, <1>2, <2>1, CoverKept
<1>8. CASE Invited \/ Answered
  <2>1. sip' # "idle"
    BY <1>8 DEF Invited, Answered
  <2> QED
    BY <2>1 DEF Covered
<1>9. CASE Over
  <2>1. UNCHANGED <<timers, current, told>> /\ Turn("main", Ended)
    BY <1>9 DEF Over
  <2> QED
    BY <1>1, <1>2, <1>3, <2>1, CoverKept
<1> QED
  BY <1>4, <1>5, <1>6, <1>7, <1>8, <1>9 DEF Next

LEMMA QuietStep ==
  ASSUME RingTypeOK, Locked, Undisturbed, Next
  PROVE  Undisturbed'
<1> DEFINE Calm == setting.calm /\ ~setting.incoming
           Saying == Answers \cup {<<"notRinging", "unlock">>}
<1>1. /\ "main" \in Thread /\ "mqtt" \in Thread /\ Panel \subseteq Thread
      /\ "main" \notin Panel /\ "mqtt" \notin Panel /\ told \in Tolds
      /\ \A p \in Thread : todo[p] \in Programs(p) /\ (holder = p <=> todo[p] \in Holding)
      /\ setting' = setting
  <2>1. setting' = setting
    BY DEF Next, Run, Say, Look, Invalidate, Schedule, Call, Terminate, Unlock, TimerRuns,
           Expire, LookInactive, TimerSays, Ring, Frame, DoorOpened, Invited, Answered, Over
  <2> QED
    BY <2>1 DEF Thread, Panel, RingTypeOK, Locked
<1>2. SUFFICES ASSUME Calm, sip' = "established"
               PROVE  Undisturbed'
  BY <1>1 DEF Undisturbed
<1>3. /\ <<>> \notin Saying /\ Established \in Answers /\ Established # Started
      /\ Answering \in Answers /\ Answering # Started
      /\ \A s \in HangUps : s # <<>> /\ s # Ding /\ s \notin Holding /\ s \notin Asking
      /\ {<<>>, Ding} \cap HangUps = {} /\ <<"unlock">> \notin Saying
      /\ \A s \in {<<>>, Ding} : s \notin Holding /\ s \notin Asking
      /\ HangUp \in HangUps /\ Hanging \in HangUps
  BY Separate DEF Answers, Established, Started, Answering, HangUps, Holding
<1>4. CASE Answered
  <2>1. UNCHANGED <<timers, told>> /\ Turn("main", Established) /\ sip \in {"asking", "incoming"}
        /\ (sip = "asking" => Settled)
    BY <1>2, <1>4 DEF Answered
  <2>2. Settled
    BY <1>2, <2>1 DEF Locked
  <2>3. Established \in Programs("main")
    BY <1>1, <1>3, MayBe
  <2>4. todo'["main"] = Established /\ \A p \in Panel : todo'[p] = todo[p]
    BY <1>1, <2>1, <2>3, Turned
  <2>5. \A p \in Panel : todo'[p] = <<>>
    BY <2>2, <2>4 DEF Settled, Idle
  <2>6. \A t \in DOMAIN timers' : timers'[t] \in {<<>>, Timeout, Due}
    BY <2>1, <2>2 DEF Settled
  <2> QED
    BY <1>3, <2>4, <2>5, <2>6 DEF Undisturbed
<1>5. CASE ~Answered
  <2>1. sip = "established"
    BY <1>2, <1>5 DEF Next, Run, Say, Look, Invalidate, Schedule, Call, Terminate, Unlock,
       TimerRuns, Expire, LookInactive, TimerSays, Ring, Frame, DoorOpened, Invited, Over
  <2>2. /\ \A t \in DOMAIN timers : timers[t] \in {<<>>, Timeout, Due}
        /\ \A p \in Panel : todo[p] \in {<<>>, Ding} \cup HangUps
        /\ (\A p \in Panel : todo[p] \notin HangUps) =>
             /\ told.media = "established" \/ todo["main"] \in Answers \ {Started}
             /\ told.session = "active" \/ todo["main"] \in Answers
             /\ told.ringing = "off" \/ todo["main"] \in Saying
    BY <1>2, <2>1 DEF Undisturbed
  <2> HIDE DEF Saying
  \* A step of a panel thread that leaves what is told alone or hangs up.
  <2>3. ASSUME NEW p \in Panel, NEW s \in {<<>>, Ding} \cup HangUps, Turn(p, s),
               UNCHANGED timers,
               s \in HangUps \/ (UNCHANGED told /\ todo[p] \notin HangUps)
        PROVE  Undisturbed'
    <3>1. s \in Programs(p)
      BY <1>1, MayBe
    <3>2. todo'[p] = s /\ todo'["main"] = todo["main"]
          /\ \A q \in Panel : q # p => todo'[q] = todo[q]
      BY <1>1, <2>3, <3>1, Turned
    <3>3. /\ \A q \in Panel : todo'[q] \in {<<>>, Ding} \cup HangUps
          /\ \A t \in DOMAIN timers' : timers'[t] \in {<<>>, Timeout, Due}
      BY <2>2, <2>3, <3>2
    <3>4. CASE s \in HangUps
      BY <3>2, <3>3, <3>4 DEF Undisturbed
    <3>5. CASE UNCHANGED told /\ todo[p] \notin HangUps
      <4>1. (\A q \in Panel : todo'[q] \notin HangUps) => \A q \in Panel : todo[q] \notin HangUps
        BY <3>2, <3>5
      <4> QED
        BY <2>2, <3>2, <3>3, <3>5, <4>1 DEF Undisturbed, Saying
    <3> QED
      BY <2>3, <3>4, <3>5
  \* A step of main.
  <2>4. ASSUME NEW s \in Programs("main"), Turn("main", s), UNCHANGED timers,
               (\A p \in Panel : todo[p] \notin HangUps) =>
                 /\ told'.media = "established" \/ s \in Answers \ {Started}
                 /\ told'.session = "active" \/ s \in Answers
                 /\ told'.ringing = "off" \/ s \in Saying
        PROVE  Undisturbed'
    <3>1. todo'["main"] = s /\ \A q \in Panel : todo'[q] = todo[q]
      BY <1>1, <2>4, Turned
    <3> QED
      BY <2>2, <2>4, <3>1 DEF Undisturbed, Saying
  <2>5. ASSUME NEW p \in Thread, Run(p) PROVE Undisturbed'
    <3>1. p \in Panel => todo[p] \notin Holding /\ todo[p] \notin Asking /\ todo[p] # <<"call">>
      <4>1. <<"call">> # Ding
        BY DEF Ding
      <4> QED
        BY <1>3, <2>2, <4>1, Separate
    <3>2. p = "mqtt" => todo[p] \notin Holding
      BY <1>1, <2>1, <2>5 DEF Locked
    <3>3. todo[p] \in Holding => p = "main"
      BY <3>1, <3>2 DEF Thread
    <3>4. CASE Say(p)
      <4>1. UNCHANGED <<timers>> /\ Turn(p, Tail(todo[p])) /\ told' = Published(Head(todo[p]))
            /\ Tail(todo[p]) \in Programs(p)
        BY <3>4, SayIs DEF Say
      <4>2. CASE p \in Panel
        <5>1. Tail(todo[p]) \in HangUps
          BY <1>1, <3>1, <3>4, <4>2, SayIs, Separate DEF Holding
        <5> QED
          BY <2>3, <4>1, <4>2, <5>1
      <4>3. CASE p = "main" /\ todo[p] = Answering
        <5>1. Tail(todo[p]) = Started /\ told' = [told EXCEPT !.media = "established"]
          BY <1>1, <4>1, <4>3, AnswersAre, PublishIs
        <5>2. told'.media = "established" /\ Started \in Answers
          BY <1>1, <5>1 DEF Tolds, Answers
        <5> QED
          BY <2>4, <4>1, <4>3, <5>1, <5>2 DEF Saying
      <4>4. CASE p = "main" /\ todo[p] = Started
        <5>1. /\ Tail(todo[p]) = <<"notRinging", "unlock">>
              /\ told' = [told EXCEPT !.session = "active"]
          BY <1>1, <4>1, <4>4, AnswersAre, PublishIs
        <5>2. told'.session = "active" /\ told'.media = told.media
          BY <1>1, <5>1 DEF Tolds
        <5> QED
          BY <2>2, <2>4, <4>1, <4>4, <5>1, <5>2 DEF Saying
      <4>5. CASE p = "main" /\ todo[p] \in Endings \ {<<"unlock">>}
        <5>1. todo[p] = <<"notRinging", "unlock">>
          BY <2>1, <4>5 DEF Locked, Endings
        <5>2. Head(todo[p]) = "notRinging" /\ Tail(todo[p]) = <<"unlock">>
          BY <5>1, Tails
        <5>3. told' = [told EXCEPT !.ringing = "off"]
          BY <1>1, <4>1, <5>2, PublishIs
        <5>4. told'.ringing = "off" /\ told'.media = told.media /\ told'.session = told.session
          BY <1>1, <5>3 DEF Tolds
        <5>5. todo["main"] \notin Answers
          BY <4>5, Separate
        <5> QED
          BY <2>2, <2>4, <4>1, <4>5, <5>2, <5>4, <5>5
      <4> QED
        BY <3>3, <3>4, <4>2, <4>3, <4>4, <4>5, SayIs DEF Holding
    <3>5. CASE Look(p)
      <4>1. /\ UNCHANGED <<timers, told>> /\ p \in Panel /\ todo[p] = Ding
            /\ Turn(p, <<>>)
        BY <2>1, <3>5, StepsAre DEF Look
      <4> QED
        BY <1>3, <2>3, <4>1
    <3>6. CASE Invalidate(p)
      <4>1. UNCHANGED <<timers, told>>
        BY <3>6 DEF Invalidate
      <4>2. CASE p \in Panel /\ Turn(p, Hanging)
        BY <1>3, <2>3, <4>1, <4>2
      <4>3. CASE p = "main" /\ todo[p] = Established /\ Turn(p, Answering)
        <5>1. Answering \in Programs("main")
          BY <1>1, <1>3, MayBe
        <5> QED
          BY <1>3, <2>4, <4>1, <4>3, <5>1 DEF Saying
      <4> QED
        BY <3>6, <4>2, <4>3, StepsAre
    <3>7. CASE Schedule(p)
      <4>1. <<"schedule", "call">> \in Asking
        BY DEF Asking
      <4> QED
        BY <3>1, <3>7, <4>1, StepsAre
    <3>8. CASE Call(p)
      BY <3>1, <3>8, StepsAre
    <3>9. CASE Terminate(p)
      BY <1>2, <3>9, StepsAre
    <3>10. CASE Unlock(p)
      <4>1. UNCHANGED <<timers, told>> /\ todo[p] = <<"unlock">> /\ Turn(p, <<>>)
        BY <3>10, StepsAre DEF Unlock
      <4>2. p = "main" /\ <<>> \in Programs("main")
        BY <1>1, <3>3, <4>1, MayBe DEF Holding, Endings
      <4>3. todo["main"] \notin Saying /\ todo["main"] \notin Answers
        BY <1>3, <4>1, <4>2 DEF Saying
      <4> QED
        BY <2>2, <2>4, <4>1, <4>2, <4>3
    <3> QED
      BY <2>5, <3>4, <3>5, <3>6, <3>7, <3>8, <3>9, <3>10 DEF Run
  <2>6. ASSUME NEW t \in DOMAIN timers, TimerRuns(t) PROVE Undisturbed'
    <3>1. UNCHANGED <<todo>>
      BY <2>6 DEF TimerRuns, Expire, LookInactive, TimerSays
    <3>2. timers[t] \in {<<>>, Timeout, Due}
      BY <2>2
    <3>3. ~TimerSays(t)
      BY <3>2, TimerIs
    <3>4. UNCHANGED told /\ \E s \in {Due, <<>>} : TimerTurns(t, s)
      BY <2>1, <2>6, <3>3, TimerIs DEF TimerRuns, Expire, LookInactive
    <3>5. PICK s \in {Due, <<>>} : TimerTurns(t, s)
      BY <3>4
    <3>6. s \in Timeouts
      BY DEF Timeouts
    <3>7. \A u \in DOMAIN timers' : timers'[u] \in {<<>>, Timeout, Due}
      BY <2>2, <3>5, <3>6, TimerIs
    <3> QED
      BY <2>2, <3>1, <3>4, <3>7 DEF Undisturbed, Saying
  <2>7. ASSUME NEW p \in Panel, Ring(p) \/ Frame(p) PROVE Undisturbed'
    <3>1. UNCHANGED <<timers, told>> /\ todo[p] = <<>>
      BY <2>7 DEF Ring, Frame, Idle
    <3>2. PICK s \in {Ding, HangUp} : Turn(p, s)
      BY <2>7 DEF Ring, Frame
    <3> QED
      BY <1>3, <2>3, <3>1, <3>2
  <2>8. CASE DoorOpened
    <3>1. UNCHANGED <<timers, told>> /\ Turn("mqtt", DoorUnlock)
      BY <2>8 DEF DoorOpened
    <3>2. DoorUnlock \in Programs("mqtt")
      BY <1>1, MayBe
    <3>3. todo'["main"] = todo["main"] /\ \A q \in Panel : todo'[q] = todo[q]
      BY <1>1, <3>1, <3>2, Turned
    <3> QED
      BY <2>2, <3>1, <3>3 DEF Undisturbed, Saying
  <2>9. CASE Invited
    BY <2>1, <2>9 DEF Invited
  <2>10. CASE Over
    BY <1>2, <2>10 DEF Over
  <2> QED
    BY <1>5, <2>5, <2>6, <2>7, <2>8, <2>9, <2>10 DEF Next
<1> QED
  BY <1>4, <1>5

\* What has still to be published covers what is told: inductive, for any number
\* of rings and whatever may happen.
THEOREM RingInvariant == Spec => []RingInv
<1>1. ASSUME RingInv, UNCHANGED vars PROVE RingInv'
  <2>1. /\ setting' = setting /\ sip' = sip /\ holder' = holder /\ todo' = todo
        /\ timers' = timers /\ current' = current /\ told' = told
    BY <1>1 DEF vars
  <2>2. RingTypeOK'
    BY <1>1, <2>1 DEF RingInv, RingTypeOK, TimersOK
  <2>3. Locked'
    BY <1>1, <2>1 DEF RingInv, Locked
  <2>4. Silenced'
    BY <1>1, <2>1 DEF RingInv, Silenced, Covered
  <2>5. Undisturbed'
    BY <1>1, <2>1 DEF RingInv, Undisturbed
  <2> QED
    BY <2>2, <2>3, <2>4, <2>5 DEF RingInv
<1>2. ASSUME RingInv, Next PROVE RingInv'
  <2>1. RingTypeOK' /\ Locked' /\ Undisturbed'
    BY <1>2, TypeStep, LockStep, QuietStep DEF RingInv
  <2>2. setting' = setting
    BY <1>2 DEF Next, Run, Say, Look, Invalidate, Schedule, Call, Terminate, Unlock, TimerRuns,
           Expire, LookInactive, TimerSays, Ring, Frame, DoorOpened, Invited, Answered, Over
  <2>3. Silenced'
    BY <1>2, <2>2, CoverStep DEF RingInv, Silenced
  <2> QED
    BY <2>1, <2>3 DEF RingInv
<1> QED
  BY <1>1, <1>2, RingStart, PTL DEF Spec

\* What is published is what is so, once everything has been published.
THEOREM RingIsToldTruly == Spec => []ToldWhatIs
<1>1. ASSUME RingInv PROVE RestIsIdle
  <2> SUFFICES ASSUME ~setting.threadsFail, AllIdle, sip = "idle",
                      current # 0 => timers[current] = <<>>
               PROVE  told = [ringing |-> "off", media |-> "idle", session |-> "none"]
    BY DEF RestIsIdle
  <2>1. ASSUME NEW field \in {"media", "session", "ringing"} PROVE told[field] = Quiet[field]
    <3>1. told \in Tolds /\ Covered(field)
      BY <1>1 DEF RingInv, RingTypeOK, Silenced
    <3>2. \A p \in Thread : todo[p] \notin Asking \cup Silences[field]
      BY <3>1, SilencingIs DEF AllIdle, Idle
    <3>3. ~(current # 0 /\ timers[current] \in Expiring[field])
      BY <3>1, SilencingIs
    <3> QED
      BY <3>1, <3>2, <3>3 DEF Covered
  <2>2. told.media = "idle" /\ told.session = "none" /\ told.ringing = "off"
    BY <2>1 DEF Quiet
  <2>3. told \in Tolds
    BY <1>1 DEF RingInv, RingTypeOK
  <2> QED
    BY <2>2, <2>3 DEF Tolds
<1>2. ASSUME RingInv PROVE EstablishedIsTold
  <2> SUFFICES ASSUME setting.calm, ~setting.incoming, AllIdle, sip = "established"
               PROVE  told = [ringing |-> "off", media |-> "established", session |-> "active"]
    BY DEF EstablishedIsTold
  <2>1. \A p \in Thread : todo[p] = <<>>
    BY DEF AllIdle, Idle
  <2>2. <<>> \notin HangUps /\ <<>> \notin Answers /\ <<>> # <<"notRinging", "unlock">>
    BY Separate DEF Holding
  <2>3. told.media = "established" /\ told.session = "active" /\ told.ringing = "off"
    BY <1>1, <1>2, <2>1, <2>2 DEF RingInv, Undisturbed, Thread
  <2>4. told \in Tolds
    BY <1>2 DEF RingInv, RingTypeOK
  <2> QED
    BY <2>3, <2>4 DEF Tolds
<1>3. RingInv => ToldWhatIs
  BY <1>1, <1>2 DEF ToldWhatIs
<1> QED
  BY <1>3, RingInvariant, PTL

-----------------------------------------------------------------------------
(* MqttClient, for any state topics, commands and bounds.  The client is   *)
(* connected only over a session the broker has answered (Connection); the *)
(* entries that were sent again are told (Resent); every action still to   *)
(* come was asked for by a message that is on its way (Acts).              *)

Messages == Commands \X Values \X BOOLEAN

MqttTypeOK ==
  /\ pc \in {"connect", "dial", "connack", "suback", "announce", "republish", "serve", "gone"}
  /\ pc = "republish" => step \in DOMAIN RepublishOrder /\ RepublishOrder[step] \in Items
  /\ connected \in BOOLEAN /\ subscribed \in BOOLEAN
  /\ link \in {"none", "up", "broken"} /\ session \in {"none", "live", "stale"}
  /\ configs \subseteq {"always", "firmware", "legacy"}
  /\ DOMAIN cache = Items
  /\ DOMAIN retained = Items \cup {Base, Install, RebootOffer}
  /\ pub = NoPacket \/ (pub.pc = "send" /\ pub.item \in Items)

\* Who has the connection: the client is connected only after the broker has
\* answered, and the broker holds no session of one that the client has left.
Connection ==
  /\ connected => pc \in {"announce", "republish", "serve"}
  /\ link = "up" /\ pc # "connack" => session = "live"
  /\ session = "live" => link = "up" /\ pc \notin {"connect", "dial", "connack", "gone"}
  /\ connected /\ link = "up" => subscribed

\* What the broker shows of the device when it has no session, or one that has
\* not been announced.
Shown ==
  /\ session = "none" => retained[Base] # "online"
  /\ session = "live" /\ pc \in {"suback", "announce"} => retained[Base] # "online"
  /\ OnlineIsServed

\* The entries that have been sent again hold the cached value.
SentAgain(n) ==
  /\ RepublishOrder[n] \in Items \ raced
  /\ pc = "serve" \/ n < step
  /\ ~(pub.pc = "send" /\ pub.item = RepublishOrder[n])
Resent ==
  pc \in {"republish", "serve"} /\ connected /\ link = "up" =>
    \A n \in DOMAIN RepublishOrder :
      SentAgain(n) => retained[RepublishOrder[n]] = cache[RepublishOrder[n]]

\* A message that still may be obeyed was sent on the topic just now.  Only the
\* first one on its way may be another: retained, or to switch developer mode.
Counted(t) == {t} \X Values \X {FALSE}
Late(q, t) == \A n \in 1..Len(q) : n > 1 => q[n] \in Counted(t)
Owed(q, t) == IF q = << >> THEN 0 ELSE IF Head(q) \in Counted(t) THEN Len(q) ELSE Len(q) - 1

ActsTypeOK ==
  /\ topic \in Commands /\ stored \in {None} \cup Values /\ inbox \in Seq(Messages)
  /\ asked \in Nat /\ done \in Nat /\ restarts \in Nat
  /\ rebootRequested \in BOOLEAN /\ installing \in BOOLEAN
Acts ==
  topic \in Momentary =>
    /\ Late(inbox, topic) /\ done + Owed(inbox, topic) <= asked
    /\ topic = "system/reboot/set" => done <= restarts + (IF rebootRequested THEN 1 ELSE 0)
    /\ topic = "firmware/update/install/set" =>
         done <= restarts + (IF installing THEN 1 ELSE 0)

ServedInv == MqttTypeOK /\ Connection /\ Shown
ResentInv == MqttTypeOK /\ Connection /\ Resent
ActsInv == ActsTypeOK /\ Acts

\* What reaches the broker of a packet composed by the client's thread.
LEMMA SentIs ==
  ASSUME MqttTypeOK, NEW news, Publish(news)
  PROVE  /\ DOMAIN retained' = DOMAIN retained
         /\ \A t \in DOMAIN retained :
              retained'[t] = IF Sends /\ t \in DOMAIN news THEN news[t] ELSE retained[t]
BY DEF Publish

LEMMA SaysIs ==
  ASSUME MqttTypeOK, NEW t, NEW w, Publish(Says(t, w))
  PROVE  /\ DOMAIN retained' = DOMAIN retained
         /\ \A x \in DOMAIN retained :
              retained'[x] = IF Sends /\ x = t THEN w ELSE retained[x]
<1> DEFINE news == Says(t, w)
<1>1. DOMAIN news = {t} /\ news[t] = w
  BY DEF Says
<1> HIDE DEF news
<1>2. /\ DOMAIN retained' = DOMAIN retained
      /\ \A x \in DOMAIN retained :
           retained'[x] = IF Sends /\ x \in DOMAIN news THEN news[x] ELSE retained[x]
  BY SentIs DEF news
<1> QED
  BY <1>1, <1>2

LEMMA TopicsDiffer ==
  /\ Base # Install /\ Base # RebootOffer /\ Base \notin Items
  /\ Install \notin Items /\ RebootOffer \notin Items
BY ItemsAssumption DEF Base, Install, RebootOffer

\* A command changes what is known of the device, of one state topic, or of
\* neither.
LEMMA HandleIs ==
  ASSUME MqttTypeOK, NEW c \in Commands, NEW v \in Values, NEW retain \in BOOLEAN,
         Handle(c, v, retain)
  PROVE  /\ pc = "serve" /\ UNCHANGED << pc, step, connected, pub, link, session, subscribed >>
         /\ DOMAIN retained' = DOMAIN retained
         /\ \/ retained'[Base] = retained[Base] /\ configs' = configs
            \/ Sends /\ retained'[Base] = "online" /\ configs' = Discovered(configs)
         /\ \/ /\ raced' = raced /\ cache' = cache
               /\ \A i \in Items : retained'[i] = retained[i]
            \/ \E i \in Items :
                 /\ raced' = raced \ {i} /\ cache' = [cache EXCEPT ![i] = v]
                 /\ \A j \in Items : retained'[j] = IF Sends /\ j = i THEN v ELSE retained[j]
<1>1. /\ Arrives(c, v, retain) /\ pc = "serve"
      /\ UNCHANGED << pc, step, connected, pub, link, session, subscribed >>
      /\ c # Base => configs' = configs
  BY DEF Handle, Ignore, RunAction, SetDeveloperMode, RequestReboot, RequestInstall, RequestCheck,
         ApplySetting, AnswerConfig, Arrives
<1>2. DOMAIN retained = Items \cup {Base, Install, RebootOffer}
  BY DEF MqttTypeOK
<1>3. CASE UNCHANGED << cache, retained, raced >> /\ c # Base
  BY <1>1, <1>3
<1>4. ASSUME NEW t \in {Install, RebootOffer}, NEW w, Publish(Says(t, w)), c # Base,
             UNCHANGED << cache, raced >>
      PROVE  /\ DOMAIN retained' = DOMAIN retained
             /\ retained'[Base] = retained[Base] /\ configs' = configs
             /\ \A i \in Items : retained'[i] = retained[i]
  <2>1. /\ DOMAIN retained' = DOMAIN retained
        /\ \A x \in DOMAIN retained :
             retained'[x] = IF Sends /\ x = t THEN w ELSE retained[x]
    BY <1>4, SaysIs
  <2> QED
    BY <1>1, <1>2, <1>4, <2>1, TopicsDiffer
<1>5. CASE Ignore(c, v, retain) \/ RunAction(c, v, retain) \/ SetDeveloperMode(c, v, retain)
  <2>1. UNCHANGED << cache, retained, raced >>
    BY <1>5 DEF Ignore, RunAction, SetDeveloperMode
  <2>2. c # Base
    BY <1>5 DEF Ignore, RunAction, SetDeveloperMode, Momentary, NeedDeveloperMode, Base
  <2> QED
    BY <1>3, <2>1, <2>2
<1>6. CASE RequestReboot(c, v, retain)
  <2>1. Publish(Says(RebootOffer, "offline")) /\ UNCHANGED << cache, raced >> /\ c # Base
    BY <1>6 DEF RequestReboot, Base
  <2> QED
    BY <1>1, <1>4, <2>1
<1>7. CASE RequestInstall(c, v, retain)
  <2>1. UNCHANGED << cache, raced >> /\ c # Base
    BY <1>7 DEF RequestInstall, Base
  <2>2. PICK w : Publish(Says(Install, w))
    BY <1>7 DEF RequestInstall, InstallOffer
  <2> QED
    BY <1>1, <1>4, <2>1, <2>2
<1>8. CASE RequestCheck(c, v, retain)
  <2>1. UNCHANGED << cache, raced >> /\ c # Base
    BY <1>8 DEF RequestCheck, Base
  <2>2. PICK w : Publish(Says(Install, w))
    BY <1>8 DEF RequestCheck, InstallOffer
  <2> QED
    BY <1>1, <1>4, <2>1, <2>2
<1>9. CASE ApplySetting(c, v, retain)
  <2> DEFINE i == ItemOf(c)
  <2>1. /\ SetsItem(c) /\ cache' = [cache EXCEPT ![i] = v] /\ raced' = raced \ {i}
        /\ Publish(Says(i, v))
    BY <1>9 DEF ApplySetting
  <2>2. i \in Items /\ c = i \o "/set"
    BY <2>1 DEF SetsItem, ItemOf
  <2> HIDE DEF i
  <2>3. c # Base
    BY <2>2, ItemsAssumption
  <2>4. /\ DOMAIN retained' = DOMAIN retained /\ retained'[Base] = retained[Base]
        /\ \A j \in Items : retained'[j] = IF Sends /\ j = i THEN v ELSE retained[j]
    <3>1. /\ DOMAIN retained' = DOMAIN retained
          /\ \A x \in DOMAIN retained :
               retained'[x] = IF Sends /\ x = i THEN v ELSE retained[x]
      BY <2>1, SaysIs
    <3> QED
      BY <1>2, <2>2, <3>1, TopicsDiffer
  <2> QED
    BY <1>1, <2>1, <2>2, <2>3, <2>4
<1>10. CASE AnswerConfig(c, v, retain)
  <2>1. /\ Publish(Says(Base, "online")) /\ UNCHANGED << cache, raced >>
        /\ configs' = IF Sends THEN Discovered(configs) ELSE configs
    BY <1>10 DEF AnswerConfig
  <2>2. /\ DOMAIN retained' = DOMAIN retained
        /\ retained'[Base] = IF Sends THEN "online" ELSE retained[Base]
        /\ \A i \in Items : retained'[i] = retained[i]
    <3>1. /\ DOMAIN retained' = DOMAIN retained
          /\ \A x \in DOMAIN retained :
               retained'[x] = IF Sends /\ x = Base THEN "online" ELSE retained[x]
      BY <2>1, SaysIs
    <3> QED
      BY <1>2, <3>1, TopicsDiffer
  <2> QED
    BY <1>1, <2>1, <2>2
<1> QED
  BY <1>5, <1>6, <1>7, <1>8, <1>9, <1>10 DEF Handle

\* What the announcement leaves with the broker.
LEMMA AnnounceIs ==
  ASSUME MqttTypeOK, Announce
  PROVE  /\ DOMAIN retained' = DOMAIN retained
         /\ retained'[Base] = IF Sends THEN "online" ELSE retained[Base]
         /\ configs' = IF Sends THEN Discovered(configs) ELSE configs
         /\ UNCHANGED << connected, cache, pub, link, session, subscribed, raced >>
         /\ pc = "announce" /\ GoOnAfter(0)
<1>1. DOMAIN retained = Items \cup {Base, Install, RebootOffer}
  BY DEF MqttTypeOK
<1>2. PICK r \in Results :
        Publish([t \in Offers(r) |->
                   IF t = Base THEN "online"
                   ELSE IF t = RebootOffer THEN OnOff(~rebootRequested)
                   ELSE OnOff(r = "newer" /\ ~installing)])
  BY DEF Announce
<1>3. Base \in Offers(r)
  BY DEF Offers
<1>4. /\ DOMAIN retained' = DOMAIN retained
      /\ retained'[Base] = IF Sends THEN "online" ELSE retained[Base]
  BY <1>1, <1>2, <1>3, SentIs
<1> QED
  BY <1>4 DEF Announce, ghostVars

\* Where the thread goes on among the cached values.
LEMMA GoesOn ==
  ASSUME NEW n \in Int, GoOnAfter(n)
  PROVE  /\ pc' \in {"serve", "republish"}
         /\ pc' = "republish" =>
              step' \in DOMAIN RepublishOrder /\ RepublishOrder[step'] \in Items
         /\ \A m \in DOMAIN RepublishOrder :
              RepublishOrder[m] \in Items /\ (pc' = "serve" \/ m < step') => m <= n
<1>1. \A m \in DOMAIN RepublishOrder : m \in Int
  BY DEF RepublishOrder
<1>2. CASE Following(n) = {}
  <2>1. pc' = "serve"
    BY <1>2 DEF GoOnAfter
  <2>2. \A m \in DOMAIN RepublishOrder : RepublishOrder[m] \in Items => ~(m > n)
    BY <1>2 DEF Following
  <2> HIDE DEF RepublishOrder
  <2>3. \A m \in DOMAIN RepublishOrder : RepublishOrder[m] \in Items => m <= n
    BY <1>1, <2>2
  <2> QED
    BY <2>1, <2>3
<1>3. CASE Following(n) # {}
  <2>1. pc' = "republish" /\ step' \in Nearest(n)
    BY <1>3 DEF GoOnAfter
  <2>2. step' \in Following(n) /\ \A k \in Following(n) : step' <= k
    BY <2>1 DEF Nearest
  <2>3. step' \in DOMAIN RepublishOrder /\ RepublishOrder[step'] \in Items
    BY <2>2 DEF Following
  <2>4. ASSUME NEW m \in DOMAIN RepublishOrder, RepublishOrder[m] \in Items, m < step'
        PROVE  m <= n
    <3>1. m \in Int /\ step' \in Int
      BY <1>1, <2>3
    <3>2. CASE m > n
      <4>1. m \in Following(n)
        BY <2>4, <3>2 DEF Following
      <4>2. step' <= m
        BY <2>2, <4>1
      <4> QED
        BY <2>4, <3>1, <4>2
    <3>3. CASE ~(m > n)
      BY <3>1, <3>3
    <3> QED
      BY <3>2, <3>3
  <2> QED
    BY <2>1, <2>3, <2>4
<1> QED
  BY <1>2, <1>3

LEMMA MqttTypeStart == MqttInit => MqttTypeOK /\ Connection
<1> SUFFICES ASSUME MqttInit PROVE MqttTypeOK /\ Connection
  OBVIOUS
<1>1. /\ pc = "connect" /\ connected = FALSE /\ subscribed = FALSE /\ link = "none"
      /\ session = "none" /\ configs = {"legacy", "firmware"} /\ pub = NoPacket
      /\ cache = [i \in Items |-> "a"]
      /\ retained = [t \in Items \cup {Base, Install, RebootOffer} |-> None]
  BY DEF MqttInit, FreshClient
<1>2. DOMAIN cache = Items /\ DOMAIN retained = Items \cup {Base, Install, RebootOffer}
  BY <1>1
<1>3. MqttTypeOK
  BY <1>1, <1>2 DEF MqttTypeOK
<1>4. Connection
  BY <1>1 DEF Connection
<1> QED
  BY <1>3, <1>4

\* A connection that ends, for the broker.
LEMMA CutIs ==
  ASSUME NEW l, Cut(l)
  PROVE  /\ link' = l
         /\ session = "live" => session' = "stale"
         /\ session # "live" => session' = session
BY DEF Cut

\* The value sent for the next entry reaches that entry alone.
LEMMA RepublishIs ==
  ASSUME MqttTypeOK, RepublishSend
  PROVE  /\ pc = "republish" /\ step \in DOMAIN RepublishOrder
         /\ RepublishOrder[step] \in Items /\ GoOnAfter(step)
         /\ UNCHANGED << connected, pub, link, session, subscribed, configs >>
         /\ DOMAIN cache' = DOMAIN cache /\ DOMAIN retained' = DOMAIN retained
         /\ retained'[Base] = retained[Base]
         /\ \A i \in Items \ {RepublishOrder[step]} :
              /\ cache'[i] = cache[i] /\ retained'[i] = retained[i]
              /\ i \in raced' <=> i \in raced
         /\ RepublishOrder[step] \notin raced' /\ Sends =>
              retained'[RepublishOrder[step]] = cache'[RepublishOrder[step]]
<1> DEFINE item == RepublishOrder[step]
<1>1. /\ pc = "republish" /\ step \in DOMAIN RepublishOrder /\ item \in Items
      /\ DOMAIN cache = Items /\ DOMAIN retained = Items \cup {Base, Install, RebootOffer}
  BY DEF MqttTypeOK, RepublishSend
<1>2. /\ cache' = IF WritesBack(item) THEN [cache EXCEPT ![item] = held] ELSE cache
      /\ Publish(Says(item, held)) /\ GoOnAfter(step)
      /\ raced' = IF held = cache[item] THEN raced \ {item} ELSE raced \cup {item}
      /\ UNCHANGED << connected, pub, link, session, subscribed, configs >>
  BY DEF RepublishSend
<1> HIDE DEF item
<1>3. /\ DOMAIN retained' = DOMAIN retained
      /\ \A x \in DOMAIN retained :
           retained'[x] = IF Sends /\ x = item THEN held ELSE retained[x]
  BY <1>2, SaysIs
<1>4. /\ DOMAIN cache' = DOMAIN cache
      /\ \A i \in Items \ {item} : cache'[i] = cache[i]
      /\ held = cache[item] => cache'[item] = held
  BY <1>1, <1>2
<1>5. retained'[Base] = retained[Base] /\ \A i \in Items \ {item} : retained'[i] = retained[i]
  BY <1>1, <1>3, TopicsDiffer
<1>6. \A i \in Items \ {item} : i \in raced' <=> i \in raced
  BY <1>2
<1>7. item \notin raced' /\ Sends => retained'[item] = cache'[item]
  BY <1>1, <1>2, <1>3, <1>4
<1> QED
  BY <1>1, <1>2, <1>3, <1>4, <1>5, <1>6, <1>7 DEF item

\* The packet of another thread reaches its own topic.
LEMMA PacketIs ==
  ASSUME MqttTypeOK, SendPacket
  PROVE  /\ pub.pc = "send" /\ pub.item \in Items /\ pub' = NoPacket
         /\ UNCHANGED << pc, step, connected, link, session, subscribed, configs, cache >>
         /\ DOMAIN retained' = DOMAIN retained /\ retained'[Base] = retained[Base]
         /\ \A i \in Items \ {pub.item} :
              retained'[i] = retained[i] /\ (i \in raced' <=> i \in raced)
         /\ pub.item \notin raced' /\ link = "up" => retained'[pub.item] = cache[pub.item]
<1>1. pub.pc = "send" /\ pub.item \in Items
  BY DEF SendPacket, MqttTypeOK, NoPacket
<1>2. DOMAIN retained = Items \cup {Base, Install, RebootOffer}
  BY DEF MqttTypeOK
<1> QED
  BY <1>1, <1>2, TopicsDiffer DEF SendPacket

\* The state the daemon changes, and the packet it composes while connected.
LEMMA ChangeIs ==
  ASSUME MqttTypeOK, NEW i \in Items, NEW v \in Values, Change(i, v)
  PROVE  /\ UNCHANGED << pc, step, connected, link, session, subscribed, configs, retained, raced >>
         /\ DOMAIN cache' = DOMAIN cache /\ \A j \in Items \ {i} : cache'[j] = cache[j]
         /\ pub = NoPacket
         /\ \/ connected /\ pub' = [pc |-> "send", item |-> i, value |-> v]
            \/ ~connected /\ pub' = NoPacket
BY DEF Change, MqttTypeOK, brokerVars

LEMMA DailyIs ==
  ASSUME MqttTypeOK, DailyCheck
  PROVE  /\ UNCHANGED << pc, step, connected, cache, pub, link, session, subscribed, configs, raced >>
         /\ DOMAIN retained' = DOMAIN retained /\ retained'[Base] = retained[Base]
         /\ \A i \in Items : retained'[i] = retained[i]
<1>1. PICK w : Publish(Says(Install, w))
  BY DEF DailyCheck, InstallOffer
<1>2. /\ DOMAIN retained' = DOMAIN retained
      /\ \A x \in DOMAIN retained :
           retained'[x] = IF Sends /\ x = Install THEN w ELSE retained[x]
  BY <1>1, SaysIs
<1>3. DOMAIN retained = Items \cup {Base, Install, RebootOffer}
  BY DEF MqttTypeOK
<1>4. retained'[Base] = retained[Base] /\ \A i \in Items : retained'[i] = retained[i]
  BY <1>2, <1>3, TopicsDiffer
<1> QED
  BY <1>2, <1>4 DEF DailyCheck, ghostVars

LEMMA StopIs ==
  ASSUME MqttTypeOK, Stop
  PROVE  /\ UNCHANGED << pc, step, cache, pub, subscribed, configs, raced >>
         /\ connected' = FALSE /\ Cut(IF link = "up" THEN "broken" ELSE link)
         /\ DOMAIN retained' = DOMAIN retained
         /\ retained'[Base] = IF Sends THEN "offline" ELSE retained[Base]
<1>1. Publish(Says(Base, "offline"))
  BY DEF Stop
<1>2. /\ DOMAIN retained' = DOMAIN retained
      /\ \A x \in DOMAIN retained :
           retained'[x] = IF Sends /\ x = Base THEN "offline" ELSE retained[x]
  BY <1>1, SaysIs
<1>3. retained'[Base] = IF Sends THEN "offline" ELSE retained[Base]
  BY <1>2 DEF MqttTypeOK
<1> QED
  BY <1>2, <1>3 DEF Stop, ghostVars

\* The steps that leave all of this alone.
LEMMA AsideIs ==
  ASSUME \/ RepublishRead \/ UNCHANGED mqttVars
         \/ \E c \in Commands, v \in Values, retain \in BOOLEAN : Press(c, v, retain)
  PROVE  UNCHANGED << pc, step, connected, cache, pub, link, session, subscribed, configs,
                      retained, raced >>
<1>1. CASE RepublishRead
  BY <1>1 DEF RepublishRead, brokerVars, ghostVars
<1>2. CASE UNCHANGED mqttVars
  BY <1>2 DEF mqttVars, clientVars, brokerVars, ghostVars
<1>3. CASE \E c \in Commands, v \in Values, retain \in BOOLEAN : Press(c, v, retain)
  BY <1>3 DEF Press, clientVars
<1> QED
  BY <1>1, <1>2, <1>3

LEMMA MqttTypeStep ==
  ASSUME MqttTypeOK, [MqttNext]_mqttVars
  PROVE  MqttTypeOK'
<1> USE DEF MqttTypeOK
<1>1. CASE Leave
  BY <1>1 DEF Leave, brokerVars, ghostVars
<1>2. CASE Dial \/ TcpConnect
  BY <1>2 DEF Dial, TcpConnect, brokerVars, ghostVars
<1>3. CASE SessionFails
  BY <1>3, CutIs DEF SessionFails
<1>4. CASE SessionAccepted
  BY <1>4 DEF SessionAccepted, ghostVars
<1>5. CASE Subscribed
  BY <1>5 DEF Subscribed, ghostVars
<1>6. CASE Announce
  <2>1. /\ pc' \in {"serve", "republish"}
        /\ pc' = "republish" => step' \in DOMAIN RepublishOrder /\ RepublishOrder[step'] \in Items
    BY <1>6, AnnounceIs, GoesOn
  <2>2. configs' \subseteq {"always", "firmware", "legacy"}
    BY <1>6, AnnounceIs DEF Discovered, Current
  <2> QED
    BY <1>6, AnnounceIs, <2>1, <2>2
<1>7. CASE RepublishSend
  <2>1. /\ pc' \in {"serve", "republish"}
        /\ pc' = "republish" => step' \in DOMAIN RepublishOrder /\ RepublishOrder[step'] \in Items
    <3>1. step \in DOMAIN RepublishOrder /\ GoOnAfter(step)
      BY <1>7, RepublishIs
    <3>2. step \in Int
      BY <3>1 DEF RepublishOrder
    <3> QED
      BY <3>1, <3>2, GoesOn
  <2> QED
    BY <1>7, RepublishIs, <2>1
<1>8. CASE DailyCheck
  BY <1>8, DailyIs
<1>9. CASE Close
  BY <1>9, CutIs DEF Close, ghostVars
<1>10. ASSUME NEW c \in Commands, NEW v \in Values, NEW retain \in BOOLEAN, Handle(c, v, retain)
       PROVE  MqttTypeOK'
  <2>1. configs' \subseteq {"always", "firmware", "legacy"}
    BY <1>10, HandleIs DEF Discovered, Current
  <2>2. DOMAIN cache' = Items
    BY <1>10, HandleIs
  <2> QED
    BY <1>10, HandleIs, <2>1, <2>2
<1>11. ASSUME NEW i \in Items, NEW v \in Values, Change(i, v)
       PROVE  MqttTypeOK'
  <2>1. pub' = NoPacket \/ (pub'.pc = "send" /\ pub'.item \in Items)
    BY <1>11, ChangeIs
  <2>2. DOMAIN cache' = Items
    BY <1>11, ChangeIs
  <2> QED
    BY <1>11, ChangeIs, <2>1, <2>2
<1>12. CASE SendPacket
  BY <1>12, PacketIs
<1>13. CASE Stop
  BY <1>13, StopIs, CutIs
<1>14. CASE Restart
  BY <1>14, CutIs DEF Restart
<1>15. CASE Break
  BY <1>15, CutIs DEF Break, clientVars
<1>16. CASE PublishWill
  BY <1>16 DEF PublishWill, clientVars, ghostVars
<1>17. CASE \/ RepublishRead \/ UNCHANGED mqttVars
            \/ \E c \in Commands, v \in Values, retain \in BOOLEAN : Press(c, v, retain)
  BY <1>17, AsideIs
<1> QED
  BY <1>1, <1>2, <1>3, <1>4, <1>5, <1>6, <1>7, <1>8, <1>9, <1>10, <1>11, <1>12, <1>13, <1>14,
     <1>15, <1>16, <1>17 DEF MqttNext

LEMMA ConnectionStep ==
  ASSUME MqttTypeOK, Connection, [MqttNext]_mqttVars
  PROVE  Connection'
<1> USE DEF Connection
<1>0. connected \in BOOLEAN
  BY DEF MqttTypeOK
<1>1. CASE Leave
  BY <1>1 DEF Leave, brokerVars, ghostVars
<1>2. CASE Dial \/ TcpConnect
  BY <1>2 DEF Dial, TcpConnect, brokerVars, ghostVars
<1>3. CASE SessionFails
  BY <1>3, CutIs DEF SessionFails
<1>4. CASE SessionAccepted
  BY <1>4 DEF SessionAccepted, ghostVars
<1>5. CASE Subscribed
  BY <1>5 DEF Subscribed, ghostVars
<1>6. CASE Announce
  BY <1>6, AnnounceIs, GoesOn
<1>7. CASE RepublishSend
  <2>1. pc = "republish" /\ pc' \in {"serve", "republish"}
    BY <1>7, RepublishIs DEF GoOnAfter
  <2> QED
    BY <1>7, RepublishIs, <2>1
<1>8. CASE DailyCheck
  BY <1>8, DailyIs
<1>9. CASE Close
  BY <1>9, CutIs DEF Close, ghostVars
<1>10. ASSUME NEW c \in Commands, NEW v \in Values, NEW retain \in BOOLEAN, Handle(c, v, retain)
       PROVE  Connection'
  BY <1>10, HandleIs
<1>11. ASSUME NEW i \in Items, NEW v \in Values, Change(i, v)
       PROVE  Connection'
  BY <1>11, ChangeIs
<1>12. CASE SendPacket
  BY <1>12, PacketIs
<1>13. CASE Stop
  <2>1. link' = (IF link = "up" THEN "broken" ELSE link) /\ session' # "live"
    BY <1>13, StopIs, CutIs
  <2> QED
    BY <1>13, StopIs, <2>1
<1>14. CASE Restart
  BY <1>14, CutIs DEF Restart
<1>15. CASE Break
  BY <1>15, CutIs DEF Break, clientVars
<1>16. CASE PublishWill
  BY <1>16 DEF PublishWill, clientVars, ghostVars
<1>17. CASE \/ RepublishRead \/ UNCHANGED mqttVars
            \/ \E c \in Commands, v \in Values, retain \in BOOLEAN : Press(c, v, retain)
  BY <1>17, AsideIs
<1> QED
  BY <1>1, <1>2, <1>3, <1>4, <1>5, <1>6, <1>7, <1>8, <1>9, <1>10, <1>11, <1>12, <1>13, <1>14,
     <1>15, <1>16, <1>17 DEF MqttNext

LEMMA ShownStep ==
  ASSUME MqttTypeOK, Connection, Shown, [MqttNext]_mqttVars
  PROVE  Shown'
<1> USE DEF Shown, OnlineIsServed
<1>0. Base \in DOMAIN retained
  BY DEF MqttTypeOK
<1>a. ASSUME retained' = retained, configs' = configs, subscribed' = subscribed,
             session' # "live", session # "none" => session' # "none"
      PROVE  Shown'
  BY <1>a
<1>1. CASE Leave
  BY <1>1 DEF Leave, brokerVars, ghostVars
<1>2. CASE Dial \/ TcpConnect
  BY <1>2 DEF Dial, TcpConnect, brokerVars, ghostVars
<1>3. CASE SessionFails
  BY <1>3, <1>a, CutIs DEF SessionFails
<1>4. CASE SessionAccepted
  <2>1. session # "live" /\ session' = "live"
    BY <1>4 DEF SessionAccepted, Connection
  <2>2. retained'[Base] # "online"
    BY <1>0, <1>4, <2>1 DEF SessionAccepted, MqttTypeOK
  <2> QED
    BY <2>1, <2>2
<1>5. CASE Subscribed
  BY <1>5 DEF Subscribed, ghostVars, Connection
<1>6. CASE Announce
  <2>1. pc = "announce" /\ pc' \in {"serve", "republish"} /\ UNCHANGED << session, subscribed >>
    BY <1>6, AnnounceIs, GoesOn
  <2>2. CASE Sends
    <3>1. configs' = Current
      BY <1>6, <2>2, AnnounceIs DEF MqttTypeOK, Discovered, Current
    <3>2. subscribed /\ session = "live"
      BY <2>1, <2>2 DEF Connection, Sends
    <3> QED
      BY <2>1, <3>1, <3>2
  <2>3. CASE ~Sends
    BY <1>6, <2>1, <2>3, AnnounceIs
  <2> QED
    BY <2>2, <2>3
<1>7. CASE RepublishSend
  <2>1. pc' \in {"serve", "republish"}
    BY <1>7, RepublishIs DEF GoOnAfter
  <2> QED
    BY <1>7, <2>1, RepublishIs
<1>8. CASE DailyCheck
  BY <1>8, DailyIs
<1>9. CASE Close
  BY <1>9, <1>a, CutIs DEF Close, ghostVars
<1>10. ASSUME NEW c \in Commands, NEW v \in Values, NEW retain \in BOOLEAN, Handle(c, v, retain)
       PROVE  Shown'
  <2>1. pc = "serve" /\ UNCHANGED << pc, session, subscribed >>
    BY <1>10, HandleIs
  <2>2. CASE retained'[Base] = retained[Base] /\ configs' = configs
    BY <2>1, <2>2
  <2>3. CASE Sends /\ retained'[Base] = "online" /\ configs' = Discovered(configs)
    <3>1. configs' = Current
      BY <2>3 DEF MqttTypeOK, Discovered, Current
    <3>2. subscribed /\ session = "live"
      BY <2>1, <2>3 DEF Connection, Sends
    <3> QED
      BY <2>1, <3>1, <3>2
  <2> QED
    BY <1>10, HandleIs, <2>2, <2>3
<1>11. ASSUME NEW i \in Items, NEW v \in Values, Change(i, v)
       PROVE  Shown'
  BY <1>11, ChangeIs
<1>12. CASE SendPacket
  BY <1>12, PacketIs
<1>13. CASE Stop
  <2>1. session' # "live" /\ (session # "none" => session' # "none")
    BY <1>13, StopIs, CutIs
  <2>2. retained'[Base] = "offline" \/ retained'[Base] = retained[Base]
    BY <1>13, StopIs
  <2> QED
    BY <2>1, <2>2
<1>14. CASE Restart
  BY <1>14, <1>a, CutIs DEF Restart
<1>15. CASE Break
  BY <1>15, <1>a, CutIs DEF Break, clientVars
<1>16. CASE PublishWill
  BY <1>0, <1>16 DEF PublishWill, clientVars, ghostVars
<1>17. CASE \/ RepublishRead \/ UNCHANGED mqttVars
            \/ \E c \in Commands, v \in Values, retain \in BOOLEAN : Press(c, v, retain)
  BY <1>17, AsideIs
<1> QED
  BY <1>1, <1>2, <1>3, <1>4, <1>5, <1>6, <1>7, <1>8, <1>9, <1>10, <1>11, <1>12, <1>13, <1>14,
     <1>15, <1>16, <1>17 DEF MqttNext

LEMMA ResentStep ==
  ASSUME MqttTypeOK, Connection, Resent, [MqttNext]_mqttVars
  PROVE  Resent'
<1> SUFFICES ASSUME (pc \in {"republish", "serve"} /\ connected /\ link = "up")',
                    NEW n \in DOMAIN RepublishOrder, SentAgain(n)'
             PROVE  retained'[RepublishOrder[n]] = cache'[RepublishOrder[n]]
  BY DEF Resent
<1> DEFINE i == RepublishOrder[n]
<1>0. /\ i \in Items /\ i \notin raced' /\ (pc' = "serve" \/ n < step')
      /\ ~(pub'.pc = "send" /\ pub'.item = i)
  BY DEF SentAgain
<1>a. ASSUME pc \in {"republish", "serve"}, connected, link = "up", SentAgain(n),
             retained'[i] = retained[i], cache'[i] = cache[i]
      PROVE  retained'[i] = cache'[i]
  BY <1>a DEF Resent
<1>1. CASE Leave
  BY <1>1 DEF Leave
<1>2. CASE Dial \/ TcpConnect
  BY <1>2 DEF Dial, TcpConnect, brokerVars
<1>3. CASE SessionFails
  BY <1>3 DEF SessionFails
<1>4. CASE SessionAccepted
  BY <1>4 DEF SessionAccepted
<1>5. CASE Subscribed
  BY <1>5 DEF Subscribed
<1>6. CASE Announce
  <2>1. n <= 0
    BY <1>0, <1>6, AnnounceIs, GoesOn
  <2> QED
    BY <2>1 DEF RepublishOrder
<1>7. CASE RepublishSend
  <2>1. /\ step \in DOMAIN RepublishOrder /\ GoOnAfter(step) /\ pc = "republish"
        /\ Sends /\ pub' = pub
    BY <1>7, RepublishIs DEF Sends
  <2>2. step \in Int /\ n \in Int
    BY <2>1 DEF RepublishOrder
  <2>3. n <= step
    BY <1>0, <2>1, <2>2, GoesOn
  <2>4. CASE i = RepublishOrder[step]
    BY <1>0, <1>7, <2>1, <2>4, RepublishIs
  <2>5. CASE i # RepublishOrder[step]
    <3>1. n < step
      BY <2>2, <2>3, <2>5
    <3>2. i \notin raced /\ retained'[i] = retained[i] /\ cache'[i] = cache[i]
      BY <1>0, <1>7, <2>5, RepublishIs
    <3>3. SentAgain(n)
      BY <1>0, <2>1, <3>1, <3>2 DEF SentAgain
    <3> QED
      BY <1>a, <2>1, <3>2, <3>3 DEF Sends
  <2> QED
    BY <2>4, <2>5
<1>8. CASE DailyCheck
  <2>1. /\ UNCHANGED << pc, step, connected, cache, pub, link, raced >>
        /\ retained'[i] = retained[i]
    BY <1>0, <1>8, DailyIs
  <2> QED
    BY <1>0, <1>a, <2>1 DEF SentAgain
<1>9. CASE Close
  BY <1>9 DEF Close
<1>10. ASSUME NEW c \in Commands, NEW v \in Values, NEW retain \in BOOLEAN, Handle(c, v, retain)
       PROVE  retained'[i] = cache'[i]
  <2>1. UNCHANGED << pc, step, connected, pub, link >> /\ pc = "serve"
    BY <1>10, HandleIs
  <2>2. CASE /\ raced' = raced /\ cache' = cache
             /\ \A j \in Items : retained'[j] = retained[j]
    BY <1>0, <1>a, <2>1, <2>2 DEF SentAgain
  <2>3. ASSUME NEW j \in Items, raced' = raced \ {j}, cache' = [cache EXCEPT ![j] = v],
               \A k \in Items : retained'[k] = IF Sends /\ k = j THEN v ELSE retained[k]
        PROVE  retained'[i] = cache'[i]
    <3>1. CASE i = j
      BY <1>0, <2>1, <2>3, <3>1 DEF MqttTypeOK, Sends
    <3>2. CASE i # j
      <4>1. i \notin raced /\ retained'[i] = retained[i] /\ cache'[i] = cache[i]
        BY <1>0, <2>3, <3>2 DEF MqttTypeOK
      <4> QED
        BY <1>0, <1>a, <2>1, <4>1 DEF SentAgain
    <3> QED
      BY <3>1, <3>2
  <2>4. \/ /\ raced' = raced /\ cache' = cache
           /\ \A j \in Items : retained'[j] = retained[j]
        \/ \E j \in Items :
             /\ raced' = raced \ {j} /\ cache' = [cache EXCEPT ![j] = v]
             /\ \A k \in Items : retained'[k] = IF Sends /\ k = j THEN v ELSE retained[k]
    BY <1>10, HandleIs
  <2> HIDE DEF i
  <2> QED
    BY <2>2, <2>3, <2>4
<1>11. ASSUME NEW j \in Items, NEW v \in Values, Change(j, v)
       PROVE  retained'[i] = cache'[i]
  <2>1. /\ UNCHANGED << pc, step, connected, link, retained, raced >>
        /\ \A k \in Items \ {j} : cache'[k] = cache[k]
        /\ pub = NoPacket
        /\ pub' = [pc |-> "send", item |-> j, value |-> v]
    BY <1>11, ChangeIs
  <2>2. i # j
    BY <1>0, <2>1
  <2>3. SentAgain(n)
    BY <1>0, <2>1 DEF SentAgain, NoPacket
  <2> QED
    BY <1>0, <1>a, <2>1, <2>2, <2>3
<1>12. CASE SendPacket
  <2>1. UNCHANGED << pc, step, connected, link, cache >> /\ pub.item \in Items
    BY <1>12, PacketIs
  <2>2. CASE i = pub.item
    BY <1>0, <1>12, <2>1, <2>2, PacketIs
  <2>3. CASE i # pub.item
    <3>1. retained'[i] = retained[i] /\ i \notin raced
      BY <1>0, <1>12, <2>3, PacketIs
    <3>2. SentAgain(n)
      BY <1>0, <2>1, <2>3, <3>1 DEF SentAgain
    <3> QED
      BY <1>a, <2>1, <3>1, <3>2
  <2> QED
    BY <2>2, <2>3
<1>13. CASE Stop
  BY <1>13 DEF Stop
<1>14. CASE Restart
  BY <1>14 DEF Restart
<1>15. CASE Break
  BY <1>15, CutIs DEF Break
<1>16. CASE PublishWill
  <2>1. session = "stale" /\ UNCHANGED << pc, connected, link >>
    BY <1>16 DEF PublishWill, clientVars
  <2> QED
    BY <2>1 DEF Connection
<1>17. CASE \/ RepublishRead \/ UNCHANGED mqttVars
            \/ \E c \in Commands, v \in Values, retain \in BOOLEAN : Press(c, v, retain)
  <2>1. UNCHANGED << pc, step, connected, cache, pub, link, retained, raced >>
    BY <1>17, AsideIs
  <2> QED
    BY <1>0, <1>a, <2>1 DEF SentAgain
<1> QED
  BY <1>1, <1>2, <1>3, <1>4, <1>5, <1>6, <1>7, <1>8, <1>9, <1>10, <1>11, <1>12, <1>13, <1>14,
     <1>15, <1>16, <1>17 DEF MqttNext

\* While the broker shows the device online over the connection it has, its
\* command topics are subscribed to and its discovery is this release's: for
\* any entities followed and any number of faults (mqtt_thread_func).
THEOREM OnlineMeansServed == MqttSpec => []OnlineIsServed
<1>1. MqttInit => ServedInv
  <2> SUFFICES ASSUME MqttInit PROVE ServedInv
    OBVIOUS
  <2>1. session = "none" /\ retained[Base] # "online"
    BY DEF MqttInit, None
  <2> QED
    BY <2>1, MqttTypeStart DEF ServedInv, Shown, OnlineIsServed
<1>2. ServedInv /\ [MqttNext]_mqttVars => ServedInv'
  BY MqttTypeStep, ConnectionStep, ShownStep DEF ServedInv
<1>3. ServedInv => OnlineIsServed
  BY DEF ServedInv, Shown
<1> QED
  BY <1>1, <1>2, <1>3, PTL DEF MqttSpec

\* Once a connection is being served, the broker holds the cached state of
\* every entry that is sent again, but for the entries raced: for any number
\* of changes, faults and restarts (mqtt_thread_func, mqtt_publish_*).
THEOREM CacheIsTold == MqttSpec => []ReconnectTellsState
<1>1. MqttInit => ResentInv
  <2> SUFFICES ASSUME MqttInit PROVE ResentInv
    OBVIOUS
  <2>1. pc = "connect"
    BY DEF MqttInit, FreshClient
  <2> QED
    BY <2>1, MqttTypeStart DEF ResentInv, Resent
<1>2. ResentInv /\ [MqttNext]_mqttVars => ResentInv'
  BY MqttTypeStep, ConnectionStep, ResentStep DEF ResentInv
<1>3. ResentInv => ReconnectTellsState
  <2> SUFFICES ASSUME ResentInv, pc = "serve", connected, link = "up", pub = NoPacket,
                      NEW i \in Republished \ raced
               PROVE  retained[i] = cache[i]
    BY DEF ReconnectTellsState
  <2>1. PICK n \in DOMAIN RepublishOrder : i = RepublishOrder[n] /\ i \in Items
    BY DEF Republished
  <2>2. SentAgain(n)
    BY <2>1 DEF SentAgain, NoPacket
  <2> QED
    BY <2>1, <2>2 DEF ResentInv, Resent
<1> QED
  BY <1>1, <1>2, <1>3, PTL DEF MqttSpec

-----------------------------------------------------------------------------
(* Commands that act: what is on its way, and what was obeyed.             *)

LEMMA CountedIs ==
  ASSUME NEW t, NEW v, NEW r
  PROVE  \A c : << c, v, r >> \in Counted(t) <=> c = t /\ v \in Values /\ r = FALSE
BY DEF Counted

LEMMA OwedOne ==
  ASSUME NEW t, NEW m
  PROVE  Late(<< m >>, t) /\ Owed(<< m >>, t) = IF m \in Counted(t) THEN 1 ELSE 0
<1>1. Len(<< m >>) = 1 /\ Head(<< m >>) = m /\ << m >> # << >>
  OBVIOUS
<1> QED
  BY <1>1 DEF Late, Owed

LEMMA OwedNone ==
  ASSUME NEW t
  PROVE  Late(<< >>, t) /\ Owed(<< >>, t) = 0
BY DEF Late, Owed

LEMMA OwedNat ==
  ASSUME NEW t, NEW q \in Seq(Messages)
  PROVE  Owed(q, t) \in Nat
<1>1. CASE q = << >>
  BY <1>1 DEF Owed
<1>2. CASE q # << >>
  <2>1. Len(q) \in Nat /\ Len(q) > 0
    BY <1>2, LenProperties, EmptySeq, HeadTailProperties
  <2> QED
    BY <1>2, <2>1 DEF Owed
<1> QED
  BY <1>1, <1>2

\* Taking the first message settles at most what that message owes.
LEMMA OwedTail ==
  ASSUME NEW t, NEW q \in Seq(Messages), q # << >>, Late(q, t)
  PROVE  /\ Late(Tail(q), t)
         /\ Owed(q, t) = Owed(Tail(q), t) + (IF Head(q) \in Counted(t) THEN 1 ELSE 0)
<1> DEFINE rest == Tail(q)
<1>1. /\ rest \in Seq(Messages) /\ Len(rest) = Len(q) - 1 /\ Len(q) \in Nat /\ Len(rest) \in Nat
      /\ \A n \in 1..Len(rest) : rest[n] = q[n + 1]
  BY HeadTailProperties, LenProperties
<1>2. \A n \in 1..Len(rest) : n + 1 \in 1..Len(q) /\ n + 1 > 1
  BY <1>1
<1>3. \A n \in 1..Len(rest) : rest[n] \in Counted(t)
  BY <1>1, <1>2 DEF Late
<1> HIDE DEF rest
<1>4. Late(rest, t)
  BY <1>3 DEF Late
<1>5. Owed(rest, t) = Len(rest)
  <2>1. CASE rest = << >>
    BY <2>1 DEF Owed
  <2>2. CASE rest # << >>
    <3>1. Len(rest) > 0 /\ Head(rest) = rest[1]
      BY <1>1, <2>2, EmptySeq, HeadTailProperties, LenProperties
    <3>2. Head(rest) \in Counted(t)
      BY <1>1, <1>3, <3>1
    <3> QED
      BY <2>2, <3>2 DEF Owed
  <2> QED
    BY <2>1, <2>2
<1>6. Owed(q, t) = IF Head(q) \in Counted(t) THEN Len(q) ELSE Len(q) - 1
  BY DEF Owed
<1> QED
  BY <1>1, <1>4, <1>5, <1>6 DEF rest

\* A message sent on the topic is owed one action.
LEMMA OwedAppend ==
  ASSUME NEW t, NEW q \in Seq(Messages), Late(q, t), NEW m \in Messages \cap Counted(t)
  PROVE  Late(Append(q, m), t) /\ Owed(Append(q, m), t) = Owed(q, t) + 1
<1> DEFINE longer == Append(q, m)
<1>1. /\ longer \in Seq(Messages) /\ longer # << >> /\ Len(longer) = Len(q) + 1
      /\ \A n \in 1..Len(q) : longer[n] = q[n]
      /\ longer[Len(q) + 1] = m /\ Len(q) \in Nat
  BY AppendProperties, LenProperties
<1>2. Head(longer) = IF q = << >> THEN m ELSE Head(q)
  BY HeadTailAppend
<1> HIDE DEF longer
<1>3. Late(longer, t)
  <2> SUFFICES ASSUME NEW n \in 1..Len(longer), n > 1
               PROVE  longer[n] \in Counted(t)
    BY DEF Late
  <2>1. CASE n = Len(q) + 1
    BY <1>1, <2>1
  <2>2. CASE n # Len(q) + 1
    <3>1. n \in 1..Len(q)
      BY <1>1, <2>2
    <3> QED
      BY <1>1, <3>1 DEF Late
  <2> QED
    BY <2>1, <2>2
<1>4. CASE q = << >>
  <2>1. Len(q) = 0
    BY <1>4
  <2> QED
    BY <1>1, <1>2, <1>3, <1>4, <2>1 DEF Owed, longer
<1>5. CASE q # << >>
  BY <1>1, <1>2, <1>3, <1>5 DEF Owed, longer
<1> QED
  BY <1>4, <1>5

\* What a latch does with the count of its command.
Latches(latch, next) ==
  \/ done' = done /\ next = latch
  \/ done' = done + 1 /\ latch = FALSE /\ next = TRUE

LEMMA HandleActs ==
  ASSUME ActsTypeOK,
         NEW c \in Commands, NEW v \in Values, NEW retain \in BOOLEAN, Handle(c, v, retain)
  PROVE  /\ inbox # << >> /\ Head(inbox) = << c, v, retain >> /\ inbox' = Tail(inbox)
         /\ UNCHANGED << topic, stored, asked, restarts >>
         /\ rebootRequested' \in BOOLEAN /\ installing' \in BOOLEAN
         /\ \/ done' = done
            \/ done' = done + 1 /\ (topic \in Momentary => c = topic /\ retain = FALSE)
         /\ topic = "system/reboot/set" => Latches(rebootRequested, rebootRequested')
         /\ topic = "firmware/update/install/set" => Latches(installing, installing')
<1> USE DEF ActsTypeOK, Latches
<1>1. Arrives(c, v, retain)
  BY DEF Handle, Ignore, RunAction, SetDeveloperMode, RequestReboot, RequestInstall, RequestCheck,
         ApplySetting, AnswerConfig
<1>2. /\ inbox # << >> /\ Head(inbox) = << c, v, retain >> /\ inbox' = Tail(inbox)
      /\ UNCHANGED << topic, stored, asked, restarts >>
  BY <1>1 DEF Arrives
<1>3. CASE Ignore(c, v, retain)
  BY <1>2, <1>3 DEF Ignore
<1>4. CASE RunAction(c, v, retain)
  BY <1>2, <1>4 DEF RunAction, Obeyed, NeedDeveloperMode
<1>5. CASE SetDeveloperMode(c, v, retain)
  BY <1>2, <1>5 DEF SetDeveloperMode, Obeyed
<1>6. CASE RequestReboot(c, v, retain)
  BY <1>2, <1>6 DEF RequestReboot, Obeyed
<1>7. CASE RequestInstall(c, v, retain)
  <2>1. PICK launched \in BOOLEAN :
          /\ installing' = launched
          /\ IF launched THEN Obeyed(c) ELSE UNCHANGED done
    BY <1>7 DEF RequestInstall
  <2>2. /\ c = "firmware/update/install/set" /\ retain = FALSE /\ installing = FALSE
        /\ rebootRequested' = rebootRequested
    BY <1>7 DEF RequestInstall
  <2>3. CASE launched = TRUE
    BY <1>2, <2>1, <2>2, <2>3 DEF Obeyed
  <2>4. CASE launched = FALSE
    BY <1>2, <2>1, <2>2, <2>4
  <2> QED
    BY <2>3, <2>4
<1>8. CASE RequestCheck(c, v, retain)
  BY <1>2, <1>8 DEF RequestCheck, Obeyed
<1>9. CASE ApplySetting(c, v, retain)
  <2>1. topic \in Momentary => c # topic
    BY <1>9, ItemsAssumption DEF ApplySetting, SetsItem
  <2> QED
    BY <1>2, <1>9, <2>1 DEF ApplySetting, Obeyed, Momentary
<1>10. CASE AnswerConfig(c, v, retain)
  <2>1. topic \in Momentary => c # topic
    BY <1>10 DEF AnswerConfig, Base, Momentary
  <2> QED
    BY <1>2, <1>10, <2>1 DEF AnswerConfig, Obeyed, Momentary
<1> QED
  BY <1>3, <1>4, <1>5, <1>6, <1>7, <1>8, <1>9, <1>10 DEF Handle

LEMMA ActsStart == MqttInit => ActsInv
<1> SUFFICES ASSUME MqttInit PROVE ActsInv
  OBVIOUS
<1>1. /\ topic \in Commands /\ stored \in {None} \cup Values /\ inbox = << >>
      /\ asked = 0 /\ done = 0 /\ restarts = 0 /\ rebootRequested = FALSE /\ installing = FALSE
  BY DEF MqttInit, FreshClient
<1>2. ActsTypeOK
  BY <1>1, EmptySeq DEF ActsTypeOK
<1>3. Acts
  BY <1>1, OwedNone DEF Acts
<1> QED
  BY <1>2, <1>3 DEF ActsInv

\* Nothing of it moves, or what was on its way is lost.
LEMMA ActsKept ==
  ASSUME ActsInv, UNCHANGED << topic, asked, done, restarts, rebootRequested, installing >>,
         stored' = stored, inbox' = inbox \/ inbox' = << >>
  PROVE  ActsInv'
<1> USE DEF ActsInv
<1>1. ActsTypeOK'
  BY EmptySeq DEF ActsTypeOK
<1>2. CASE inbox' = inbox
  BY <1>1, <1>2 DEF Acts
<1>3. CASE inbox' = << >>
  <2>1. ASSUME topic \in Momentary
        PROVE  Late(inbox', topic) /\ done + Owed(inbox', topic) <= asked
    <3>1. Owed(inbox, topic) \in Nat
      BY OwedNat DEF ActsTypeOK
    <3>2. Late(inbox', topic) /\ Owed(inbox', topic) = 0
      BY <1>3, OwedNone
    <3>3. done + Owed(inbox, topic) <= asked
      BY <2>1 DEF Acts
    <3> QED
      BY <3>1, <3>2, <3>3 DEF ActsTypeOK
  <2> QED
    BY <1>1, <2>1 DEF Acts
<1> QED
  BY <1>2, <1>3

LEMMA ActsStep == ActsInv /\ [MqttNext]_mqttVars => ActsInv'
<1> SUFFICES ASSUME ActsInv, [MqttNext]_mqttVars PROVE ActsInv'
  OBVIOUS
<1>0. ActsTypeOK /\ Acts
  BY DEF ActsInv
<1>a. CASE \/ Leave \/ Dial \/ TcpConnect \/ SessionFails \/ SessionAccepted \/ Announce \/ RepublishRead
           \/ RepublishSend \/ DailyCheck \/ Close \/ SendPacket \/ Stop \/ Break \/ PublishWill
           \/ UNCHANGED mqttVars
  BY <1>a, ActsKept DEF Leave, Dial, TcpConnect, SessionFails, SessionAccepted, Announce, RepublishRead,
     RepublishSend, DailyCheck, Close, SendPacket, Stop, Break, PublishWill, mqttVars, clientVars,
     brokerVars, ghostVars
<1>b. ASSUME NEW i \in Items, NEW v \in Values, Change(i, v)
      PROVE  ActsInv'
  BY <1>b, ActsKept DEF Change, brokerVars
<1>1. CASE Subscribed
  <2>1. /\ UNCHANGED << topic, asked, done, restarts, rebootRequested, installing, stored >>
        /\ inbox' = IF stored = None THEN << >> ELSE << << topic, stored, TRUE >> >>
    BY <1>1 DEF Subscribed, ghostVars
  <2>2. CASE stored = None
    BY <2>1, <2>2, ActsKept
  <2>3. CASE stored # None
    <3> DEFINE m == << topic, stored, TRUE >>
    <3>1. inbox' = << m >> /\ m \in Messages
      BY <1>0, <2>1, <2>3 DEF ActsTypeOK, Messages
    <3>2. m \notin Counted(topic)
      BY DEF Counted
    <3> HIDE DEF m
    <3>3. Late(inbox', topic) /\ Owed(inbox', topic) = 0
      BY <3>1, <3>2, OwedOne
    <3>4. ActsTypeOK'
      <4>1. inbox' \in Seq(Messages)
        BY <3>1
      <4> QED
        BY <1>0, <2>1, <4>1 DEF ActsTypeOK
    <3>5. ASSUME topic \in Momentary
          PROVE  done + Owed(inbox', topic) <= asked
      <4>1. Owed(inbox, topic) \in Nat /\ done + Owed(inbox, topic) <= asked
        BY <1>0, <3>5, OwedNat DEF ActsTypeOK, Acts
      <4> QED
        BY <1>0, <3>3, <4>1 DEF ActsTypeOK
    <3>6. Acts'
      BY <1>0, <2>1, <3>3, <3>5 DEF Acts
    <3> QED
      BY <3>4, <3>6 DEF ActsInv
  <2> QED
    BY <2>2, <2>3
<1>2. ASSUME NEW c \in Commands, NEW v \in Values, NEW retain \in BOOLEAN, Handle(c, v, retain)
      PROVE  ActsInv'
  <2>1. /\ inbox # << >> /\ Head(inbox) = << c, v, retain >> /\ inbox' = Tail(inbox)
        /\ UNCHANGED << topic, stored, asked, restarts >>
        /\ rebootRequested' \in BOOLEAN /\ installing' \in BOOLEAN
        /\ \/ done' = done
           \/ done' = done + 1 /\ (topic \in Momentary => c = topic /\ retain = FALSE)
        /\ topic = "system/reboot/set" => Latches(rebootRequested, rebootRequested')
        /\ topic = "firmware/update/install/set" => Latches(installing, installing')
    BY <1>0, <1>2, HandleActs
  <2>2. ActsTypeOK'
    <3>1. inbox' \in Seq(Messages)
      BY <1>0, <2>1, HeadTailProperties DEF ActsTypeOK
    <3> QED
      BY <1>0, <2>1, <3>1 DEF ActsTypeOK
  <2>3. ASSUME topic \in Momentary
        PROVE  /\ Late(inbox', topic) /\ Owed(inbox', topic) \in Nat
               /\ Owed(inbox, topic) = Owed(inbox', topic)
                                         + (IF Head(inbox) \in Counted(topic) THEN 1 ELSE 0)
    BY <1>0, <2>1, <2>2, <2>3, OwedTail, OwedNat DEF ActsTypeOK, Acts
  <2>4. topic \in Momentary /\ done' # done => Head(inbox) \in Counted(topic)
    <3>1. topic \in Momentary /\ done' # done => c = topic /\ retain = FALSE
      BY <2>1
    <3>2. c = topic /\ retain = FALSE => << c, v, retain >> \in Counted(topic)
      BY CountedIs
    <3> QED
      BY <2>1, <3>1, <3>2
  <2>5. ASSUME topic \in Momentary
        PROVE  done' + Owed(inbox', topic) <= asked
    <3>1. done + Owed(inbox, topic) <= asked /\ done \in Nat /\ asked \in Nat
      BY <1>0, <2>5 DEF ActsTypeOK, Acts
    <3>2. CASE done' = done
      BY <2>3, <2>5, <3>1, <3>2
    <3>3. CASE done' = done + 1
      BY <2>3, <2>4, <2>5, <3>1, <3>3
    <3> QED
      BY <2>1, <3>2, <3>3
  <2>6. ASSUME topic = "system/reboot/set"
        PROVE  done' <= restarts + (IF rebootRequested' THEN 1 ELSE 0)
    BY <1>0, <2>1, <2>6 DEF ActsTypeOK, Acts, Latches, Momentary
  <2>7. ASSUME topic = "firmware/update/install/set"
        PROVE  done' <= restarts + (IF installing' THEN 1 ELSE 0)
    BY <1>0, <2>1, <2>7 DEF ActsTypeOK, Acts, Latches, Momentary
  <2>8. Acts'
    BY <2>1, <2>3, <2>5, <2>6, <2>7 DEF Acts
  <2> QED
    BY <2>2, <2>8 DEF ActsInv
<1>3. ASSUME NEW c \in Commands, NEW v \in Values, NEW retain \in BOOLEAN, Press(c, v, retain)
      PROVE  ActsInv'
  <2> DEFINE m == << c, v, FALSE >>
  <2>1. /\ UNCHANGED << topic, done, restarts, rebootRequested, installing >>
        /\ asked' = IF c = topic THEN asked + 1 ELSE asked
        /\ c # topic => inbox = << >>
        /\ stored' = IF retain THEN v ELSE stored
        /\ inbox' = Append(inbox, m)
    BY <1>3 DEF Press, clientVars
  <2>2. m \in Messages /\ (m \in Counted(topic) <=> c = topic)
    BY CountedIs DEF Messages
  <2> HIDE DEF m
  <2>3. ActsTypeOK'
    <3>1. inbox' \in Seq(Messages)
      BY <1>0, <2>1, <2>2, AppendProperties DEF ActsTypeOK
    <3>2. asked' \in Nat /\ stored' \in {None} \cup Values
      BY <1>0, <2>1 DEF ActsTypeOK
    <3> QED
      BY <1>0, <2>1, <3>1, <3>2 DEF ActsTypeOK
  <2>4. ASSUME topic \in Momentary
        PROVE  Late(inbox', topic) /\ done + Owed(inbox', topic) <= asked'
    <3>1. /\ Late(inbox, topic) /\ done + Owed(inbox, topic) <= asked
          /\ Owed(inbox, topic) \in Nat /\ done \in Nat /\ asked \in Nat
      BY <1>0, <2>4, OwedNat DEF ActsTypeOK, Acts
    <3>2. CASE c = topic
      <4>1. Late(inbox', topic) /\ Owed(inbox', topic) = Owed(inbox, topic) + 1
        BY <1>0, <2>1, <2>2, <3>1, <3>2, OwedAppend DEF ActsTypeOK
      <4> QED
        BY <2>1, <3>1, <3>2, <4>1
    <3>3. CASE c # topic
      <4>1. inbox' = << m >>
        BY <2>1, <3>3
      <4>2. Late(inbox', topic) /\ Owed(inbox', topic) = 0
        BY <2>2, <3>3, <4>1, OwedOne
      <4> QED
        BY <2>1, <3>1, <3>3, <4>2
    <3> QED
      BY <3>2, <3>3
  <2>5. Acts'
    BY <1>0, <2>1, <2>4 DEF Acts
  <2> QED
    BY <2>3, <2>5 DEF ActsInv
<1>4. CASE Restart
  <2>1. /\ UNCHANGED << topic, stored, asked, done >> /\ restarts' = restarts + 1
        /\ inbox' = << >> /\ rebootRequested' = FALSE /\ installing' = FALSE
    BY <1>4 DEF Restart
  <2>2. ActsTypeOK'
    <3>1. inbox' \in Seq(Messages)
      BY <2>1, EmptySeq
    <3>2. restarts' \in Nat
      BY <1>0, <2>1 DEF ActsTypeOK
    <3>3. rebootRequested' \in BOOLEAN /\ installing' \in BOOLEAN
      BY <2>1
    <3> QED
      BY <1>0, <2>1, <3>1, <3>2, <3>3 DEF ActsTypeOK
  <2>3. ASSUME topic \in Momentary
        PROVE  Late(inbox', topic) /\ done + Owed(inbox', topic) <= asked
    <3>1. /\ done + Owed(inbox, topic) <= asked
          /\ Owed(inbox, topic) \in Nat /\ done \in Nat /\ asked \in Nat
      BY <1>0, <2>3, OwedNat DEF ActsTypeOK, Acts
    <3> QED
      BY <2>1, <3>1, OwedNone
  <2>4. ASSUME topic \in Momentary
        PROVE  /\ topic = "system/reboot/set" => done <= restarts'
               /\ topic = "firmware/update/install/set" => done <= restarts'
    BY <1>0, <2>1, <2>4 DEF ActsTypeOK, Acts
  <2>5. Acts'
    BY <1>0, <2>1, <2>3, <2>4 DEF ActsTypeOK, Acts
  <2> QED
    BY <2>2, <2>5 DEF ActsInv
<1> QED
  BY <1>a, <1>b, <1>1, <1>2, <1>3, <1>4 DEF MqttNext

\* A command that acts at once acts at most once per message sent, and a
\* reboot or an updater is started at most once in a life of the daemon: for
\* any command, any number of messages, faults and restarts
\* (handle_mqtt_message, start_firmware_update_install).
THEOREM ActsAtMostOnce == MqttSpec => []ActionsOnce
<1>1. ActsInv => ActionsOnce
  <2> SUFFICES ASSUME ActsInv, topic \in Momentary
               PROVE  done <= asked /\ (topic \in Latched => done <= 1 + restarts)
    BY DEF ActionsOnce
  <2>1. /\ Owed(inbox, topic) \in Nat /\ done + Owed(inbox, topic) <= asked
        /\ done \in Nat /\ asked \in Nat /\ restarts \in Nat
    BY OwedNat DEF ActsInv, ActsTypeOK, Acts
  <2>2. topic \in Latched => done <= 1 + restarts
    BY <2>1 DEF ActsInv, Acts, Latched
  <2> QED
    BY <2>1, <2>2
<1> QED
  BY ActsStart, ActsStep, <1>1, PTL DEF MqttSpec
================================================================================
