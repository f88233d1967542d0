---------------------------- MODULE ConsoleProofs ----------------------------
(* Proofs about the browser of an operator (Console).                        *)
EXTENDS Console, TLAPS

Calls == [seen : Status \cup {"none"}, tab : Tabs \cup {"none"},
          phase : {"none", "sent", "ok", "failed"}, client : {"none", "page", "left", "gone"}]

\* A call that somebody may still execute knows what it was clicked for, and on which tab.
CallInv(c) ==
  /\ calls[c].phase # "none" => calls[c].tab \in Tabs
  /\ calls[c].phase = "sent" /\ c # "form" => calls[c].seen \in DetailOffers

\* The form is the only page that submits: an answer that comes after it was left finds
\* no button waiting.
ConsoleInv ==
  /\ TypeOK
  /\ \A c \in Pages : CallInv(c)
  /\ submitting => page = "form"
  /\ WaitingIsBacked

-----------------------------------------------------------------------------
LEMMA SlotsTyped ==
  /\ 0 \in Slots /\ 1 \in Slots
  /\ \A s \in 1 .. MaxLoads : s \in Slots /\ s # 0
BY MaxLoadsAssumption DEF Slots

LEMMA NoCallTyped == NoCall \in Calls
BY DEF NoCall, Calls

LEMMA FirstLoadTyped ==
  /\ FirstLoad \in [Slots -> Tabs \cup {"none"}] /\ FirstLoad[1] = "OPEN"
BY SlotsTyped, TabsAssumption DEF FirstLoad

LEMMA FaultTyped ==
  ASSUME TypeOK, Fault \/ UNCHANGED faults
  PROVE  faults' \in 0 .. MaxFaults
BY MaxFaultsAssumption DEF TypeOK, Fault

\* A call that is left keeps what it was clicked for, or is forgotten.
LEMMA LeftTyped ==
  ASSUME ConsoleInv, NEW p \in Pages
  PROVE  /\ Left(p) \in Calls
         /\ Left(p).phase # "none" => Left(p).tab \in Tabs
         /\ Left(p).phase = "sent" /\ p # "form" => Left(p).seen \in DetailOffers
<1>1. calls[p] \in Calls /\ CallInv(p)
  BY DEF ConsoleInv, TypeOK, Calls
<1>2. CASE Left(p) = NoCall
  BY <1>2, NoCallTyped DEF NoCall
<1>3. CASE Left(p) = calls[p]
  BY <1>1, <1>3 DEF CallInv
<1>4. CASE \E x \in {"left", "gone"} : Left(p) = [calls[p] EXCEPT !.client = x]
  BY <1>1, <1>4 DEF CallInv, Calls
<1> QED BY <1>2, <1>3, <1>4 DEF Left

\* A page is mounted: its own loads are under way.
LEMMA ShowKeeps ==
  ASSUME ConsoleInv, NEW p \in Pages, Show(p), UNCHANGED <<server, faults>>,
         NEW keep \in SUBSET Pages,
         calls' = [c \in Pages |-> IF c \in keep THEN NoCall ELSE Left(c)]
  PROVE  ConsoleInv'
<1>1. /\ status \in Status /\ rca \in Analyses \cup {"none"} /\ UNCHANGED <<status, rca, faults>>
  BY DEF ConsoleInv, TypeOK, server
<1>2. /\ page' \in Pages /\ tab' \in Tabs /\ row' \in Tabs \cup {"empty"}
      /\ loads' \in [Slots -> Tabs \cup {"none"}]
      /\ updating' = FALSE /\ loading' \in BOOLEAN
      /\ loading' => loads'[1] = "OPEN"
  <2>1. CASE p = "feed"
    BY <2>1, FirstLoadTyped, TabsAssumption DEF Show, FeedStarts
  <2>2. CASE p # "feed"
    BY <2>2, TabsAssumption DEF Show, FeedGone
  <2> QED BY <2>1, <2>2
<1>3. /\ shown' \in Status \cup {"none"} /\ incidentLoad' \in Status \cup {"none"}
      /\ rcaLoad' \in {"none", "any", "yes"} /\ shownRca' = FALSE /\ error' = FALSE
      /\ transitioning' = FALSE /\ submitting' = FALSE
  BY <1>1 DEF Show, DetailStarts, DetailGone
<1>4. \A c \in Pages : calls'[c] \in Calls /\ CallInv(c)'
  BY LeftTyped, NoCallTyped DEF CallInv, NoCall
<1>5. calls' \in [Pages -> Calls]
  BY <1>4
<1>6. TypeOK'
  <2>1. {loading', updating', shownRca', error', transitioning', submitting'} \subseteq BOOLEAN
    BY <1>2, <1>3
  <2>2. faults' \in 0 .. MaxFaults /\ status' \in Status /\ rca' \in Analyses \cup {"none"}
    BY <1>1 DEF ConsoleInv, TypeOK
  <2> QED BY <1>2, <1>3, <1>5, <2>1, <2>2 DEF TypeOK, Calls
<1>7. WaitingIsBacked'
  <2>1. loading' => \E s \in Slots : loads'[s] # "none"
    BY <1>2, SlotsTyped
  <2>2. ~updating' /\ ~transitioning' /\ ~submitting'
    BY <1>2, <1>3
  <2> QED BY <2>1, <2>2 DEF WaitingIsBacked
<1> QED BY <1>3, <1>4, <1>6, <1>7 DEF ConsoleInv

LEMMA LeaveKeeps ==
  ASSUME ConsoleInv, ToFeed \/ ToDetail \/ ToForm
  PROVE  ConsoleInv'
<1>1. \E p \in Pages : Leave(p)
  BY DEF ToFeed, ToDetail, ToForm, Pages
<1>2. PICK p \in Pages : Leave(p)
  BY <1>1
<1>3. calls' = [c \in Pages |-> IF c \in {} THEN NoCall ELSE Left(c)]
  BY <1>2 DEF Leave
<1>4. Show(p) /\ UNCHANGED <<server, faults>> /\ {} \in SUBSET Pages
  BY <1>2 DEF Leave
<1> QED BY <1>3, <1>4, ShowKeeps

-----------------------------------------------------------------------------
(* The feed.                                                               *)

LEMMA LoadKeeps ==
  ASSUME ConsoleInv, Poll \/ Refresh \/ \E t \in Tabs : SwitchTab(t)
  PROVE  ConsoleInv'
<1>1. PICK t \in Tabs : StartLoad(t)
  BY DEF Poll, Refresh, SwitchTab, ConsoleInv, TypeOK
<1>2. PICK s \in 1 .. MaxLoads : loads' = [loads EXCEPT ![s] = t] /\ loads[s] = "none"
  BY <1>1 DEF StartLoad
<1>3. s \in Slots /\ s # 0 /\ loads \in [Slots -> Tabs \cup {"none"}] /\ t # "none"
  BY SlotsTyped, TabsAssumption DEF ConsoleInv, TypeOK, Status
<1>4. /\ loads' \in [Slots -> Tabs \cup {"none"}] /\ loads'[s] # "none" /\ loads'[0] = loads[0]
  BY <1>2, <1>3, SlotsTyped
<1>5. /\ UNCHANGED <<server, page, row, updating, detail, submitting, calls, faults>>
      /\ tab' \in Tabs /\ loading' \in {loading, TRUE}
  BY DEF Poll, Refresh, SwitchTab, ConsoleInv, TypeOK
<1>6. TypeOK'
  BY <1>4, <1>5 DEF ConsoleInv, TypeOK, server, detail
<1>7. WaitingIsBacked'
  BY <1>3, <1>4, <1>5 DEF ConsoleInv, WaitingIsBacked, detail
<1> QED BY <1>5, <1>6, <1>7 DEF ConsoleInv, CallInv

LEMMA FeedLoaded ==
  ASSUME ConsoleInv, NEW s \in Slots, FeedArrives(s) \/ FeedFails(s)
  PROVE  ConsoleInv'
<1>1. /\ loading' = FALSE /\ loads' = [loads EXCEPT ![s] = "none"] /\ updating' = (updating /\ s # 0)
      /\ UNCHANGED <<server, page, tab, detail, submitting, calls>> /\ (Fault \/ UNCHANGED faults)
  BY DEF FeedArrives, FeedFails, EndLoad
<1>2. faults' \in 0 .. MaxFaults
  BY <1>1, FaultTyped DEF ConsoleInv
<1>3. row' \in Tabs \cup {"empty"}
  <2>1. loads[s] \in Tabs \cup {"none"} /\ row \in Tabs \cup {"empty"}
    BY DEF ConsoleInv, TypeOK
  <2> QED BY <2>1 DEF FeedArrives, FeedFails, Answers
<1>4. /\ loads' \in [Slots -> Tabs \cup {"none"}] /\ (s # 0 => loads'[0] = loads[0])
      /\ updating' \in BOOLEAN /\ (updating' => updating /\ s # 0)
  BY <1>1, SlotsTyped DEF ConsoleInv, TypeOK
<1>5. TypeOK'
  BY <1>1, <1>2, <1>3, <1>4 DEF ConsoleInv, TypeOK, server, detail
<1>6. WaitingIsBacked'
  BY <1>1, <1>4 DEF ConsoleInv, WaitingIsBacked, detail
<1> QED BY <1>1, <1>5, <1>6 DEF ConsoleInv, CallInv

-----------------------------------------------------------------------------
(* Calls.                                                                  *)

\* A click sends a call that its page waits for.
LEMMA ClickKeeps ==
  ASSUME ConsoleInv, ClickAdvance \/ ClickMove \/ ClickSubmit
  PROVE  ConsoleInv'
<1>1. PICK seen \in Status \cup {"none"} :
        /\ calls' = [calls EXCEPT ![page] = [seen |-> seen, tab |-> tab, phase |-> "sent", client |-> "page"]]
        /\ page # "form" => seen \in DetailOffers
  BY DEF ClickAdvance, ClickMove, ClickSubmit, Send, DetailOffers, FeedOffers, Status
<1> DEFINE sent == [seen |-> seen, tab |-> tab, phase |-> "sent", client |-> "page"]
<1>2. sent \in Calls /\ sent.tab \in Tabs /\ sent.phase = "sent" /\ sent.client = "page" /\ sent.seen = seen
  BY DEF ConsoleInv, TypeOK, Calls
<1> HIDE DEF sent
<1>3. /\ page \in Pages /\ calls \in [Pages -> Calls] /\ calls' = [calls EXCEPT ![page] = sent]
  BY <1>1 DEF ConsoleInv, TypeOK, Calls, sent
<1>4. /\ calls' \in [Pages -> Calls] /\ calls'[page] = sent
      /\ \A c \in Pages \ {page} : calls'[c] = calls[c]
  BY <1>2, <1>3
<1>5. \A c \in Pages : CallInv(c)'
  BY <1>1, <1>2, <1>4 DEF ConsoleInv, CallInv
<1>6. /\ UNCHANGED <<server, page, tab, row, loading, loads, shown, shownRca, error, incidentLoad, rcaLoad, faults>>
      /\ updating' \in BOOLEAN /\ transitioning' \in BOOLEAN /\ submitting' \in BOOLEAN
      /\ updating' => updating \/ page = "feed"
      /\ transitioning' => transitioning \/ page = "detail"
      /\ submitting' => submitting \/ page = "form"
  <2>1. updating \in BOOLEAN /\ transitioning \in BOOLEAN /\ submitting \in BOOLEAN
    BY DEF ConsoleInv, TypeOK
  <2>2. CASE ClickAdvance
    BY <2>1, <2>2 DEF ClickAdvance, detail
  <2>3. CASE ClickMove
    BY <2>1, <2>3 DEF ClickMove, feed
  <2>4. CASE ClickSubmit
    BY <2>1, <2>4 DEF ClickSubmit, feed, detail
  <2> QED BY <2>2, <2>3, <2>4
<1>7. TypeOK'
  BY <1>4, <1>6 DEF ConsoleInv, TypeOK, Calls, server
<1>8. WaitingIsBacked'
  <2>1. \A c \in Pages : calls[c].client = "page" => calls'[c].client = "page"
    BY <1>2, <1>4
  <2> QED BY <1>2, <1>4, <1>6, <2>1 DEF ConsoleInv, WaitingIsBacked, Pages
<1> QED BY <1>5, <1>6, <1>7, <1>8 DEF ConsoleInv

\* Only the row of page c in calls changes, and nobody waits for it if its page does not.
LEMMA CallKeeps ==
  ASSUME ConsoleInv, NEW c \in Pages, NEW call \in Calls, calls' = [calls EXCEPT ![c] = call],
         call.phase # "none" => call.tab \in Tabs,
         call.phase = "sent" /\ c # "form" => call.seen \in DetailOffers,
         calls[c].client = "page" => call.client = "page",
         status' \in Status, rca' \in Analyses \cup {"none"}, UNCHANGED pages, Fault \/ UNCHANGED faults
  PROVE  ConsoleInv'
<1>1. calls' \in [Pages -> Calls] /\ calls'[c] = call /\ \A d \in Pages \ {c} : calls'[d] = calls[d]
  BY DEF ConsoleInv, TypeOK, Calls
<1>2. faults' \in 0 .. MaxFaults
  BY FaultTyped DEF ConsoleInv
<1>3. TypeOK'
  BY <1>1, <1>2 DEF ConsoleInv, TypeOK, Calls, pages, feed, detail
<1>4. \A d \in Pages : CallInv(d)'
  BY <1>1 DEF ConsoleInv, CallInv
<1>5. WaitingIsBacked'
  BY <1>1 DEF ConsoleInv, WaitingIsBacked, Pages, pages, feed, detail
<1> QED BY <1>3, <1>4, <1>5 DEF ConsoleInv, pages

LEMMA ExecuteKeeps ==
  ASSUME ConsoleInv, NEW c \in Pages, Execute(c)
  PROVE  ConsoleInv'
<1>1. calls[c] \in Calls /\ calls[c].phase = "sent" /\ CallInv(c)
  BY DEF Execute, ConsoleInv, TypeOK, Calls
<1>2. PICK call \in {NoCall} \cup {[calls[c] EXCEPT !.phase = x] : x \in {"ok", "failed"}} :
        /\ calls' = [calls EXCEPT ![c] = call]
        /\ calls[c].client = "page" => call # NoCall
  <2>1. calls[c].client = "page" =>
          \E x \in {"ok", "failed"} : calls' = [calls EXCEPT ![c] = [calls[c] EXCEPT !.phase = x]]
    BY DEF Execute
  <2>2. \/ calls' = [calls EXCEPT ![c] = NoCall]
        \/ \E x \in {"ok", "failed"} : calls' = [calls EXCEPT ![c] = [calls[c] EXCEPT !.phase = x]]
    BY DEF Execute
  <2>3. \A x \in {"ok", "failed"} : [calls[c] EXCEPT !.phase = x] # NoCall
    BY <1>1 DEF NoCall, Calls
  <2> QED BY <2>1, <2>2, <2>3
<1>3. /\ call \in Calls /\ call.phase # "sent"
      /\ call.phase # "none" => call.tab \in Tabs
      /\ calls[c].client = "page" => call.client = "page"
  <2>1. CASE call = NoCall
    BY <1>2, <2>1, NoCallTyped DEF NoCall
  <2>2. CASE \E x \in {"ok", "failed"} : call = [calls[c] EXCEPT !.phase = x]
    BY <1>1, <2>2 DEF CallInv, Calls
  <2> QED BY <1>2, <2>1, <2>2
<1>4. rca' \in Analyses \cup {"none"} /\ UNCHANGED <<pages, faults>>
  BY DEF Execute, ConsoleInv, TypeOK
<1>5. status' \in Status
  <2>1. status \in Status /\ (c # "form" => calls[c].seen \in DetailOffers)
    BY <1>1 DEF ConsoleInv, TypeOK, CallInv
  <2>2. \A s \in DetailOffers : Follows(s) \in Status
    BY DEF DetailOffers, Follows, Status
  <2> QED BY <2>1, <2>2 DEF Execute
<1> QED BY <1>2, <1>3, <1>4, <1>5, CallKeeps

LEMMA LoseKeeps ==
  ASSUME ConsoleInv, NEW c \in Pages, Lose(c)
  PROVE  ConsoleInv'
<1>1. calls[c] \in Calls /\ CallInv(c) /\ calls[c].phase \in {"sent", "ok"}
  BY DEF Lose, ConsoleInv, TypeOK, Calls
<1> DEFINE call == IF calls[c].client = "page" THEN [calls[c] EXCEPT !.phase = "failed"] ELSE NoCall
<1>2. /\ call \in Calls /\ call.phase # "sent"
      /\ call.phase # "none" => call.tab \in Tabs
      /\ calls[c].client = "page" => call.client = "page"
  BY <1>1, NoCallTyped DEF CallInv, Calls, NoCall
<1>3. /\ calls' = [calls EXCEPT ![c] = call] /\ Fault /\ UNCHANGED <<pages, status, rca>>
      /\ status' \in Status /\ rca' \in Analyses \cup {"none"}
  BY DEF Lose, server, ConsoleInv, TypeOK
<1> HIDE DEF call
<1> QED BY <1>2, <1>3, CallKeeps

\* The page is told of a failure, or gives its call up: it does not wait any more.
LEMMA GiveUpKeeps ==
  ASSUME ConsoleInv, NEW c \in Pages, Fail(c) \/ Timeout(c)
  PROVE  ConsoleInv'
<1>1. calls[c] \in Calls /\ CallInv(c)
  BY DEF ConsoleInv, TypeOK, Calls
<1>2. PICK call \in {NoCall, [calls[c] EXCEPT !.client = "gone"]} : calls' = [calls EXCEPT ![c] = call]
  BY DEF Fail, Timeout, Answered
<1>3. /\ call \in Calls
      /\ call.phase # "none" => call.tab \in Tabs
      /\ call.phase = "sent" /\ c # "form" => call.seen \in DetailOffers
  BY <1>1, <1>2, NoCallTyped DEF CallInv, Calls, NoCall
<1>4. calls' \in [Pages -> Calls] /\ calls'[c] = call /\ \A d \in Pages \ {c} : calls'[d] = calls[d]
  BY <1>2, <1>3 DEF ConsoleInv, TypeOK, Calls
<1>5. /\ updating' = (updating /\ c # "feed") /\ transitioning' = (transitioning /\ c # "detail")
      /\ submitting' = (submitting /\ c # "form")
      /\ UNCHANGED <<server, page, tab, row, loading, loads, shown, shownRca, error, incidentLoad, rcaLoad>>
      /\ (Fault \/ UNCHANGED faults)
  BY DEF Fail, Timeout, GiveUp
<1>6. faults' \in 0 .. MaxFaults
  BY <1>5, FaultTyped DEF ConsoleInv
<1>7. updating' \in BOOLEAN /\ transitioning' \in BOOLEAN /\ submitting' \in BOOLEAN
  BY <1>5
<1>8. TypeOK'
  BY <1>4, <1>5, <1>6, <1>7 DEF ConsoleInv, TypeOK, Calls, server
<1>9. \A d \in Pages : CallInv(d)'
  BY <1>3, <1>4 DEF ConsoleInv, CallInv
<1>10. WaitingIsBacked'
  BY <1>4, <1>5 DEF ConsoleInv, WaitingIsBacked, Pages
<1> QED BY <1>5, <1>8, <1>9, <1>10 DEF ConsoleInv

\* 2xx for the feed: the button waits for the load that follows.
LEMMA FeedAdvancedKeeps ==
  ASSUME ConsoleInv, FeedAdvanced
  PROVE  ConsoleInv'
<1>1. /\ loads' = [loads EXCEPT ![0] = calls["feed"].tab] /\ calls' = [calls EXCEPT !["feed"] = NoCall]
      /\ UNCHANGED <<server, page, tab, row, loading, updating, detail, submitting, faults>>
      /\ calls["feed"].phase = "ok"
  BY DEF FeedAdvanced, Answered
<1>2. calls["feed"].tab \in Tabs /\ "none" \notin Tabs
  BY <1>1, TabsAssumption DEF ConsoleInv, CallInv, Pages, Status
<1>3. /\ loads' \in [Slots -> Tabs \cup {"none"}] /\ loads'[0] # "none"
      /\ \A s \in Slots : loads[s] # "none" => loads'[s] # "none"
  BY <1>1, <1>2, SlotsTyped DEF ConsoleInv, TypeOK
<1>4. /\ calls' \in [Pages -> Calls] /\ calls'["feed"] = NoCall
      /\ \A d \in Pages \ {"feed"} : calls'[d] = calls[d]
  BY <1>1, NoCallTyped DEF ConsoleInv, TypeOK, Calls, Pages
<1>5. TypeOK'
  BY <1>1, <1>3, <1>4 DEF ConsoleInv, TypeOK, Calls, server, detail
<1>6. \A d \in Pages : CallInv(d)'
  BY <1>4 DEF ConsoleInv, CallInv, NoCall
<1>7. WaitingIsBacked'
  BY <1>1, <1>3, <1>4 DEF ConsoleInv, WaitingIsBacked, Pages, detail
<1> QED BY <1>1, <1>5, <1>6, <1>7 DEF ConsoleInv

\* 2xx for the detail page: its button waits for the load that follows.
LEMMA DetailMovedKeeps ==
  ASSUME ConsoleInv, DetailMoved
  PROVE  ConsoleInv'
<1>1. /\ incidentLoad' = status /\ calls' = [calls EXCEPT !["detail"] = NoCall]
      /\ UNCHANGED <<server, page, feed, shown, shownRca, error, transitioning, rcaLoad, submitting, faults>>
  BY DEF DetailMoved, Answered
<1>2. /\ calls' \in [Pages -> Calls] /\ calls'["detail"] = NoCall
      /\ \A d \in Pages \ {"detail"} : calls'[d] = calls[d]
  BY <1>1, NoCallTyped DEF ConsoleInv, TypeOK, Calls, Pages
<1>3. incidentLoad' \in Status /\ incidentLoad' # "none"
  BY <1>1 DEF ConsoleInv, TypeOK, Status
<1>4. TypeOK'
  BY <1>1, <1>2, <1>3 DEF ConsoleInv, TypeOK, Calls, server, feed
<1>5. \A d \in Pages : CallInv(d)'
  BY <1>2 DEF ConsoleInv, CallInv, NoCall
<1>6. WaitingIsBacked'
  BY <1>1, <1>2, <1>3 DEF ConsoleInv, WaitingIsBacked, Pages, feed
<1> QED BY <1>1, <1>4, <1>5, <1>6 DEF ConsoleInv

\* 201 for the form: it goes to the incident, or the operator is there already.
LEMMA FormSubmittedKeeps ==
  ASSUME ConsoleInv, FormSubmitted
  PROVE  ConsoleInv'
<1>1. CASE page = "detail"
  <2>1. /\ calls' = [calls EXCEPT !["form"] = NoCall] /\ UNCHANGED <<pages, server, faults>> /\ ~submitting
    BY <1>1 DEF FormSubmitted, Answered, ConsoleInv
  <2>2. /\ calls' \in [Pages -> Calls] /\ calls'["form"] = NoCall
        /\ \A d \in Pages \ {"form"} : calls'[d] = calls[d]
    BY <2>1, NoCallTyped DEF ConsoleInv, TypeOK, Calls, Pages
  <2>3. TypeOK'
    BY <2>1, <2>2 DEF ConsoleInv, TypeOK, Calls, pages, server, feed, detail
  <2>4. \A d \in Pages : CallInv(d)'
    BY <2>2 DEF ConsoleInv, CallInv, NoCall
  <2>5. WaitingIsBacked'
    BY <2>1, <2>2 DEF ConsoleInv, WaitingIsBacked, Pages, pages, feed, detail
  <2> QED BY <2>1, <2>3, <2>4, <2>5 DEF ConsoleInv, pages
<1>2. CASE page # "detail"
  <2>1. /\ Show("detail") /\ UNCHANGED <<server, faults>>
        /\ calls' = [c \in Pages |-> IF c = "form" THEN NoCall ELSE Left(c)]
    BY <1>2 DEF FormSubmitted
  <2>2. calls' = [c \in Pages |-> IF c \in {"form"} THEN NoCall ELSE Left(c)]
    BY <2>1
  <2>3. {"form"} \in SUBSET Pages /\ "detail" \in Pages
    BY DEF Pages
  <2> QED BY <2>1, <2>2, <2>3, ShowKeeps
<1> QED BY <1>1, <1>2

-----------------------------------------------------------------------------
LEMMA IncidentLoaded ==
  ASSUME ConsoleInv, IncidentArrives \/ IncidentFails \/ RcaArrives \/ RcaFails
  PROVE  ConsoleInv'
<1>1. /\ UNCHANGED <<server, page, feed, submitting, calls>> /\ (Fault \/ UNCHANGED faults)
      /\ shown' \in Status \cup {"none"} /\ incidentLoad' \in Status \cup {"none"}
      /\ rcaLoad' \in {"none", "any", "yes"}
  BY DEF IncidentArrives, IncidentFails, RcaArrives, RcaFails, ConsoleInv, TypeOK
<1>2. faults' \in 0 .. MaxFaults
  BY <1>1, FaultTyped DEF ConsoleInv
<1>3. /\ shownRca' \in BOOLEAN /\ error' \in BOOLEAN /\ transitioning' \in BOOLEAN
      /\ (transitioning' => (transitioning /\ incidentLoad' = incidentLoad))
  <2>1. shownRca \in BOOLEAN /\ error \in BOOLEAN /\ transitioning \in BOOLEAN
    BY DEF ConsoleInv, TypeOK
  <2>2. CASE IncidentArrives
    BY <2>1, <2>2 DEF IncidentArrives
  <2>3. CASE IncidentFails
    BY <2>1, <2>3 DEF IncidentFails
  <2>4. CASE RcaArrives
    BY <2>1, <2>4 DEF RcaArrives
  <2>5. CASE RcaFails
    BY <2>1, <2>5 DEF RcaFails
  <2> QED BY <2>2, <2>3, <2>4, <2>5
<1>4. TypeOK'
  <2>1. {loading', updating', shownRca', error', transitioning', submitting'} \subseteq BOOLEAN
    BY <1>1, <1>3 DEF ConsoleInv, TypeOK, feed
  <2> QED BY <1>1, <1>2, <2>1 DEF ConsoleInv, TypeOK, server, feed
<1>5. WaitingIsBacked'
  BY <1>1, <1>3 DEF ConsoleInv, WaitingIsBacked, feed
<1> QED BY <1>1, <1>4, <1>5 DEF ConsoleInv, CallInv

LEMMA ElsewhereKeeps ==
  ASSUME ConsoleInv, Elsewhere
  PROVE  ConsoleInv'
<1>1. UNCHANGED <<pages, calls, faults>> /\ status' \in Status /\ rca' \in Analyses \cup {"none"}
  <2>1. status \in Status /\ rca \in Analyses \cup {"none"}
    BY DEF ConsoleInv, TypeOK
  <2>2. status # "CLOSED" => Follows(status) \in Status
    BY <2>1 DEF Follows, Status
  <2> QED BY <2>1, <2>2 DEF Elsewhere
<1>2. TypeOK'
  BY <1>1 DEF ConsoleInv, TypeOK, pages, feed, detail
<1>3. WaitingIsBacked'
  BY <1>1 DEF ConsoleInv, WaitingIsBacked, pages, feed, detail
<1> QED BY <1>1, <1>2, <1>3 DEF ConsoleInv, CallInv, pages

LEMMA ConsoleStart ==
  ASSUME Init
  PROVE  ConsoleInv
<1>1. calls \in [Pages -> Calls] /\ \A c \in Pages : calls[c] = NoCall
  BY NoCallTyped DEF Init
<1>2. TypeOK
  <2>1. {loading, updating, shownRca, error, transitioning, submitting} \subseteq BOOLEAN
    BY DEF Init
  <2>2. tab \in Tabs /\ row \in Tabs \cup {"empty"} /\ loads \in [Slots -> Tabs \cup {"none"}]
    BY FirstLoadTyped, TabsAssumption DEF Init
  <2>3. status \in Status /\ rca \in Analyses \cup {"none"} /\ page \in Pages
    BY DEF Init, Status, Pages
  <2>4. /\ shown \in Status \cup {"none"} /\ incidentLoad \in Status \cup {"none"}
        /\ rcaLoad \in {"none", "any", "yes"}
    BY DEF Init
  <2>5. faults \in 0 .. MaxFaults
    <3>1. faults = 0 /\ MaxFaults \in Nat
      BY MaxFaultsAssumption DEF Init
    <3> QED BY <3>1
  <2> QED BY <1>1, <2>1, <2>2, <2>3, <2>4, <2>5 DEF TypeOK, Calls
<1>3. WaitingIsBacked
  BY FirstLoadTyped, SlotsTyped DEF Init, WaitingIsBacked
<1> QED BY <1>1, <1>2, <1>3 DEF Init, ConsoleInv, CallInv, NoCall

LEMMA ConsoleStep ==
  ASSUME ConsoleInv, [Next]_vars
  PROVE  ConsoleInv'
<1>1. CASE UNCHANGED vars
  <2>1. TypeOK'
    BY <1>1 DEF vars, server, pages, feed, detail, ConsoleInv, TypeOK
  <2>2. WaitingIsBacked'
    BY <1>1 DEF vars, pages, feed, detail, ConsoleInv, WaitingIsBacked
  <2> QED BY <1>1, <2>1, <2>2 DEF vars, pages, ConsoleInv, CallInv
<1>2. CASE \E c \in Pages : Progress(c) \/ Lose(c) \/ Timeout(c)
  BY <1>2, ExecuteKeeps, LoseKeeps, GiveUpKeeps DEF Progress
<1>3. CASE \E s \in Slots : FeedArrives(s) \/ FeedFails(s)
  BY <1>3, FeedLoaded
<1> QED BY <1>1, <1>2, <1>3, LeaveKeeps, LoadKeeps, ClickKeeps, FeedAdvancedKeeps, DetailMovedKeeps,
           FormSubmittedKeeps, IncidentLoaded, ElsewhereKeeps DEF Next

LEMMA ConsoleInvariant == Spec => []ConsoleInv
<1>1. Init => ConsoleInv
  BY ConsoleStart
<1>2. ConsoleInv /\ [Next]_vars => ConsoleInv'
  BY ConsoleStep
<1> QED BY <1>1, <1>2, PTL DEF Spec

\* Types, with any number of loads in flight.
THEOREM TypeCorrect == Spec => []TypeOK
<1>1. ConsoleInv => TypeOK
  BY DEF ConsoleInv
<1> QED BY <1>1, ConsoleInvariant, PTL

\* No spinner or disabled button waits for nothing: every path that ends a load or a call
\* also resets the flag, and a page that is mounted again starts with its own.
THEOREM WaitingAlwaysBacked == Spec => []WaitingIsBacked
<1>1. ConsoleInv => WaitingIsBacked
  BY DEF ConsoleInv
<1> QED BY <1>1, ConsoleInvariant, PTL

-----------------------------------------------------------------------------
(* Clicks.                                                                 *)

\* Two statuses with the same successor are the same.
LEMMA FollowsOnce ==
  ASSUME NEW s \in DetailOffers, NEW t \in DetailOffers, Follows(s) = Follows(t)
  PROVE  s = t /\ Rank(Follows(t)) = Rank(t) + 1
BY DEF DetailOffers, Follows, Rank

\* Only a call of c that is executed can do both: change what is sent, and the status.
LEMMA MoveIsExecute ==
  ASSUME ConsoleInv, Next, NEW c \in Pages,
         calls[c].phase = "sent", calls'[c].phase # "sent", status' # status
  PROVE  Execute(c)
<1>1. \E d \in Pages : Execute(d)
  BY DEF Next, ToFeed, ToDetail, ToForm, Leave, Poll, Refresh, SwitchTab, FeedArrives, FeedFails,
         ClickAdvance, ClickMove, ClickSubmit, FeedAdvanced, DetailMoved, FormSubmitted, Progress,
         Lose, Timeout, Fail, GiveUp, IncidentArrives, IncidentFails, RcaArrives, RcaFails, Elsewhere,
         server
<1>2. PICK d \in Pages : Execute(d)
  BY <1>1
<1>3. c # d => calls'[c] = calls[c]
  BY <1>2 DEF Execute, ConsoleInv, TypeOK
<1> QED BY <1>2, <1>3

LEMMA ExecuteMovesAsSeen ==
  ASSUME ConsoleInv, NEW c \in {"feed", "detail"}, Execute(c), status' # status
  PROVE  status = calls[c].seen /\ Rank(status') = Rank(status) + 1
<1>1. /\ MayMove(Follows(calls[c].seen)) /\ status' = Follows(calls[c].seen)
      /\ calls[c].phase = "sent" /\ c \in Pages /\ c # "form"
  BY DEF Execute, Pages
<1>2. status \in Status /\ calls[c].seen \in DetailOffers
  BY <1>1 DEF ConsoleInv, TypeOK, CallInv
<1>3. status \in DetailOffers /\ Follows(status) = Follows(calls[c].seen)
  BY <1>1, <1>2 DEF MayMove, Status, DetailOffers
<1>4. Rank(Follows(status)) = Rank(status) + 1 /\ status = calls[c].seen
  BY <1>2, <1>3, FollowsOnce
<1> QED BY <1>1, <1>3, <1>4

\* A click never moves the incident twice, or from a status that the operator did not see:
\* the API moves it only to the successor of where it is, and successors differ.
THEOREM ClicksMoveAsSeen == Spec => MovesAsSeen
<1>1. ConsoleInv /\ [Next]_vars =>
        [\A c \in {"feed", "detail"} :
           (calls[c].phase = "sent" /\ calls'[c].phase # "sent" /\ status' # status)
           => status = calls[c].seen /\ Rank(status') = Rank(status) + 1]_vars
  <2> SUFFICES ASSUME ConsoleInv, Next, NEW c \in {"feed", "detail"},
                      calls[c].phase = "sent", calls'[c].phase # "sent", status' # status
               PROVE  status = calls[c].seen /\ Rank(status') = Rank(status) + 1
    OBVIOUS
  <2>1. c \in Pages
    BY DEF Pages
  <2>2. Execute(c)
    BY <2>1, MoveIsExecute
  <2> QED BY <2>2, ExecuteMovesAsSeen
<1> QED BY <1>1, ConsoleInvariant, PTL DEF Spec, MovesAsSeen
=============================================================================
