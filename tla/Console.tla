------------------------------- MODULE Console -------------------------------
(***************************************************************************)
(* The browser of an operator who handles one incident:                     *)
(*   pages/LiveFeed.tsx, pages/IncidentDetail.tsx, pages/RcaForm.tsx        *)
(*   api/client.ts     calls that are given up after 10 seconds             *)
(* against the API that IncidentContract promises and the projection that    *)
(* Dashboard!NeverAhead allows: a row of the feed may be old or missing, the   *)
(* detail page is read from PostgreSQL.  Other operators use the API, too.   *)
(***************************************************************************)
EXTENDS Naturals

CONSTANTS
  Tabs,      \* tabs that are used
  MaxLoads,  \* bound: loads of the live feed that may be in flight together
  MaxFaults  \* bound: lost calls, failed loads and early timeouts

Status == {"OPEN", "INVESTIGATING", "RESOLVED", "CLOSED"}

\* An analysis, by the MTTR that its incident_end gives: it fits its column or not.
Analyses == {"usable", "overflow"}

ASSUME TabsAssumption == "OPEN" \in Tabs /\ Tabs \subseteq Status
ASSUME MaxLoadsAssumption == MaxLoads \in Nat \ {0}
ASSUME MaxFaultsAssumption == MaxFaults \in Nat

Rank(s) ==
  CASE s = "OPEN"          -> 0
    [] s = "INVESTIGATING" -> 1
    [] s = "RESOLVED"      -> 2
    [] s = "CLOSED"        -> 3

VARIABLES
  status, rca,   \* the incident in PostgreSQL: its status, its RCA (or none)
  page,          \* feed, detail or form
  tab, row, loading, updating,   \* LiveFeed: activeTab, status of the row in incidents (or empty), ..
  loads,         \* load() calls in flight: their tabs; the one of handleStatusAdvance in slot 0
  shown, shownRca, error, transitioning,   \* IncidentDetail: incident.status (or none), rca, ..
  incidentLoad, rcaLoad,   \* its loads in flight: what they cannot be older than, or none
  submitting,    \* RcaForm
  calls,         \* the PATCH or POST call in flight that a page has sent: one of each page
  faults

server == <<status, rca>>
feed == <<tab, row, loading, updating, loads>>
detail == <<shown, shownRca, error, transitioning, incidentLoad, rcaLoad>>
pages == <<page, feed, detail, submitting>>
vars == <<server, pages, calls, faults>>

Slots == 0 .. MaxLoads
Pages == {"feed", "detail", "form"}
NoCall == [seen |-> "none", tab |-> "none", phase |-> "none", client |-> "none"]

Fault == faults < MaxFaults /\ faults' = faults + 1

\* The status that a page offers to move to, where it offers one.
Follows(s) ==
  CASE s = "OPEN"          -> "INVESTIGATING"
    [] s = "INVESTIGATING" -> "RESOLVED"
    [] s = "RESOLVED"      -> "CLOSED"

\* getNextStatus of the feed, TRANSITIONS of the detail page.
FeedOffers == {"OPEN", "INVESTIGATING"}
DetailOffers == {"OPEN", "INVESTIGATING", "RESOLVED"}

-----------------------------------------------------------------------------
(* Pages are mounted afresh; what their predecessor was waiting for is        *)
(* ignored, except that a submission still navigates when it is answered.    *)

FirstLoad == [s \in Slots |-> IF s = 1 THEN "OPEN" ELSE "none"]

FeedStarts ==
  /\ tab' = "OPEN" /\ row' = "empty" /\ loading' = TRUE /\ updating' = FALSE
  /\ loads' = FirstLoad

FeedGone ==
  /\ tab' = "OPEN" /\ row' = "empty" /\ loading' = FALSE /\ updating' = FALSE
  /\ loads' = [s \in Slots |-> "none"]

DetailStarts ==
  /\ shown' = "none" /\ shownRca' = FALSE /\ error' = FALSE /\ transitioning' = FALSE
  /\ incidentLoad' = status /\ rcaLoad' = IF rca # "none" THEN "yes" ELSE "any"

DetailGone ==
  /\ shown' = "none" /\ shownRca' = FALSE /\ error' = FALSE /\ transitioning' = FALSE
  /\ incidentLoad' = "none" /\ rcaLoad' = "none"

Show(p) ==
  /\ page' = p
  /\ IF p = "feed" THEN FeedStarts ELSE FeedGone
  /\ IF p = "detail" THEN DetailStarts ELSE DetailGone
  /\ submitting' = FALSE

\* The call of page p when the page is left: an answer that changes no page any more is
\* as good as gone.
Left(p) ==
  LET c == calls[p] IN
  CASE c.client # "page" -> c
    [] c.client = "page" /\ p = "form" /\ c.phase \in {"sent", "ok"} -> [c EXCEPT !.client = "left"]
    [] c.client = "page" /\ p # "form" /\ c.phase = "sent" -> [c EXCEPT !.client = "gone"]
    [] OTHER -> NoCall

\* What a page shows is lost with it, so that leaving while it loads is the same as
\* leaving just afterwards.
Loaded == page = "detail" => incidentLoad = "none"

Leave(p) ==
  /\ page # p /\ Loaded
  /\ Show(p)
  /\ calls' = [c \in Pages |-> Left(c)]
  /\ UNCHANGED <<server, faults>>

\* The links of the layout and of the pages, or the address bar.
ToFeed == Leave("feed")
ToDetail == Leave("detail")

\* The RCA action of a row, the RCA link of the detail page.
ToForm ==
  /\ \/ page = "feed" /\ ~loading /\ row = "RESOLVED"
     \/ page = "detail" /\ ~error /\ shown \in {"INVESTIGATING", "RESOLVED"} /\ ~shownRca
  /\ Leave("form")

-----------------------------------------------------------------------------
(* LiveFeed.                                                               *)

\* The effect of the page, or of its interval, calls load().
StartLoad(t) ==
  \E s \in 1 .. MaxLoads :
    /\ loads[s] = "none" /\ \A other \in 1 .. s - 1 : loads[other] # "none"
    /\ loads' = [loads EXCEPT ![s] = t]

\* Mutant: the effect does not depend on the tab.
SwitchTabOnly(t) ==
  /\ page = "feed" /\ tab # t
  /\ tab' = t /\ loading' = TRUE
  /\ UNCHANGED <<server, page, row, updating, loads, detail, submitting, calls, faults>>

\* A tab is clicked; the interval is set up again for it.
SwitchTab(t) ==
  /\ page = "feed" /\ tab # t
  /\ tab' = t /\ loading' = TRUE
  /\ StartLoad(t)
  /\ UNCHANGED <<server, page, row, updating, detail, submitting, calls, faults>>

\* Mutant: the interval keeps the tab that the page was opened with.
PollFirstTab ==
  /\ page = "feed"
  /\ StartLoad("OPEN")
  /\ UNCHANGED <<server, page, tab, row, loading, updating, detail, submitting, calls, faults>>

\* The interval fires.
Poll ==
  /\ page = "feed"
  /\ StartLoad(tab)
  /\ UNCHANGED <<server, page, tab, row, loading, updating, detail, submitting, calls, faults>>

\* handleRefresh.
Refresh ==
  /\ page = "feed" /\ ~loading /\ loading' = TRUE
  /\ StartLoad(tab)
  /\ UNCHANGED <<server, page, tab, row, updating, detail, submitting, calls, faults>>

\* GET /dashboard/live: the row of the incident, which may be older than the call, unless
\* the projection misses it or there are too many.
Answers(t) == {"empty"} \cup {s \in Status : s = t /\ Rank(s) <= Rank(status)}

\* load() is over: the spinner ends, and so does handleStatusAdvance if it is its load.
EndLoad(s) ==
  /\ loading' = FALSE
  /\ loads' = [loads EXCEPT ![s] = "none"]
  /\ updating' = (updating /\ s # 0)

\* Rows are replaced by those of the load, whatever tab it was started for.
FeedArrives(s) ==
  /\ loads[s] # "none" /\ row' \in Answers(loads[s])
  /\ EndLoad(s)
  /\ UNCHANGED <<server, page, tab, detail, submitting, calls, faults>>

FeedFails(s) ==
  /\ loads[s] # "none" /\ Fault
  /\ EndLoad(s)
  /\ UNCHANGED <<server, page, tab, row, detail, submitting, calls>>

-----------------------------------------------------------------------------
(* Calls.                                                                  *)

\* seen is the status that the page shows; the call asks for the one that follows.
Send(seen) ==
  /\ calls[page] = NoCall
  /\ calls' = [calls EXCEPT ![page] = [seen |-> seen, tab |-> tab, phase |-> "sent", client |-> "page"]]

\* Mutant: the row may have no next status.
ClickAdvanceAnyway ==
  /\ page = "feed" /\ ~loading /\ ~updating
  /\ updating' = TRUE
  /\ Send(row)
  /\ UNCHANGED <<server, page, tab, row, loading, loads, detail, submitting, faults>>

\* handleStatusAdvance.
ClickAdvance ==
  /\ page = "feed" /\ ~loading /\ ~updating
  /\ row \in FeedOffers
  /\ updating' = TRUE
  /\ Send(row)
  /\ UNCHANGED <<server, page, tab, row, loading, loads, detail, submitting, faults>>

\* Mutant: the detail page has the table of the feed.
ClickMoveOfFeed ==
  /\ page = "detail" /\ ~error /\ ~transitioning
  /\ shown \in FeedOffers
  /\ transitioning' = TRUE
  /\ Send(shown)
  /\ UNCHANGED <<server, page, feed, shown, shownRca, error, incidentLoad, rcaLoad, submitting, faults>>

\* handleTransition.
ClickMove ==
  /\ page = "detail" /\ ~error /\ ~transitioning
  /\ shown \in DetailOffers
  /\ transitioning' = TRUE
  /\ Send(shown)
  /\ UNCHANGED <<server, page, feed, shown, shownRca, error, incidentLoad, rcaLoad, submitting, faults>>

\* handleSubmit of a complete form.
ClickSubmit ==
  /\ page = "form" /\ ~submitting /\ submitting' = TRUE
  /\ Send("none")
  /\ UNCHANGED <<server, page, feed, detail, faults>>

\* Mutant: the API moves an incident wherever it is told to.
AnyMove(target) == TRUE

\* transition(): the state machine, and for a close an RCA whose MTTR can be stored; with
\* another one closeWithMttr throws every time.
MayMove(target) ==
  /\ status # "CLOSED" /\ target = Follows(status)
  /\ target = "CLOSED" => rca = "usable"

\* The API executes the call, whether or not somebody still waits for it: 200 and 201, or
\* 422 and 409.  The first analysis is stored for good, but only a usable one is confirmed:
\* after another one updateMttr throws.
Execute(c) ==
  LET moves == c # "form" /\ MayMove(Follows(calls[c].seen))
      stores == c = "form" /\ rca = "none"
  IN
  /\ calls[c].phase = "sent"
  /\ status' = IF moves THEN Follows(calls[c].seen) ELSE status
  /\ \E analysis \in Analyses :
       LET succeeds == moves \/ (stores /\ analysis = "usable")
           awaited == calls[c].client = "page" \/ (calls[c].client = "left" /\ succeeds)
       IN
       /\ rca' = IF stores THEN analysis ELSE rca
       /\ calls' = IF ~awaited THEN [calls EXCEPT ![c] = NoCall]
                   ELSE [calls EXCEPT ![c].phase = IF succeeds THEN "ok" ELSE "failed"]
  /\ UNCHANGED <<pages, faults>>

\* The call, or its answer, is lost: the page waits for its timeout.
Lose(c) ==
  /\ calls[c].phase \in {"sent", "ok"} /\ Fault
  /\ calls' = [calls EXCEPT ![c] = IF @.client = "page" THEN [@ EXCEPT !.phase = "failed"] ELSE NoCall]
  /\ UNCHANGED <<server, pages>>

Answered(c) == calls' = [calls EXCEPT ![c] = NoCall]

\* 2xx: the feed loads the tab of the click ..
FeedAdvanced ==
  /\ calls["feed"].phase = "ok"
  /\ loads' = [loads EXCEPT ![0] = calls["feed"].tab]
  /\ Answered("feed")
  /\ UNCHANGED <<server, page, tab, row, loading, updating, detail, submitting, faults>>

\* .. the detail page loads its incident ..
DetailMoved ==
  /\ calls["detail"].phase = "ok"
  /\ incidentLoad' = status
  /\ Answered("detail")
  /\ UNCHANGED <<server, page, feed, shown, shownRca, error, transitioning, rcaLoad, submitting, faults>>

\* .. and the form goes to the incident, even if the operator has left it.
FormSubmitted ==
  /\ calls["form"].phase = "ok"
  /\ IF page = "detail" THEN Answered("form") /\ UNCHANGED pages
     ELSE /\ calls' = [c \in Pages |-> IF c = "form" THEN NoCall ELSE Left(c)]
          /\ Show("detail")
  /\ UNCHANGED <<server, faults>>

\* 4xx, or no answer within 10 seconds: a message, and the page stays as it is.
GiveUp(c) ==
  /\ updating' = (updating /\ c # "feed")
  /\ transitioning' = (transitioning /\ c # "detail")
  /\ submitting' = (submitting /\ c # "form")
  /\ UNCHANGED <<server, page, tab, row, loading, loads, shown, shownRca, error, incidentLoad, rcaLoad>>

Fail(c) ==
  /\ calls[c].phase = "failed"
  /\ GiveUp(c) /\ Answered(c)
  /\ UNCHANGED faults

\* The timeout of a call that the API has not finished, or not begun.
Timeout(c) ==
  /\ calls[c].phase = "sent" /\ calls[c].client = "page" /\ Fault
  /\ GiveUp(c) /\ calls' = [calls EXCEPT ![c].client = "gone"]

-----------------------------------------------------------------------------
(* IncidentDetail.  The loads of signals and history only show something;     *)
(* those that handleTransition adds to its load of the incident are taken as  *)
(* a part of it: the RCA of a closed incident changes no button.              *)

\* The answer of GET /incidents/:id is not older than the call.
IncidentArrives ==
  /\ incidentLoad # "none"
  /\ shown' \in {s \in Status : Rank(incidentLoad) <= Rank(s) /\ Rank(s) <= Rank(status)}
  /\ incidentLoad' = "none" /\ transitioning' = FALSE
  /\ UNCHANGED <<server, page, feed, shownRca, error, rcaLoad, submitting, calls, faults>>

\* setError: nothing resets it while the page is open.
IncidentFails ==
  /\ incidentLoad # "none" /\ Fault
  /\ error' = TRUE /\ incidentLoad' = "none" /\ transitioning' = FALSE
  /\ UNCHANGED <<server, page, feed, shown, shownRca, rcaLoad, submitting, calls>>

\* Nor is the one of GET /incidents/:id/rca.
RcaArrives ==
  /\ rcaLoad # "none" /\ rcaLoad' = "none"
  /\ \/ rcaLoad = "any" /\ shownRca' = FALSE
     \/ rca # "none" /\ shownRca' = TRUE
  /\ UNCHANGED <<server, page, feed, shown, error, transitioning, incidentLoad, submitting, calls, faults>>

\* It fails, or there is none: setRca(null).
RcaFails ==
  /\ rcaLoad # "none" /\ Fault
  /\ shownRca' = FALSE /\ rcaLoad' = "none"
  /\ UNCHANGED <<server, page, feed, shown, error, transitioning, incidentLoad, submitting, calls>>

-----------------------------------------------------------------------------
\* Another operator.
Elsewhere ==
  /\ \/ status # "CLOSED" /\ MayMove(Follows(status)) /\ status' = Follows(status) /\ UNCHANGED rca
     \/ rca = "none" /\ rca' \in Analyses /\ UNCHANGED status
  /\ UNCHANGED <<pages, calls, faults>>

Init ==
  /\ status = "OPEN" /\ rca = "none"
  /\ page = "feed" /\ tab = "OPEN" /\ row = "empty" /\ loading = TRUE /\ updating = FALSE
  /\ loads = FirstLoad
  /\ shown = "none" /\ shownRca = FALSE /\ error = FALSE /\ transitioning = FALSE
  /\ incidentLoad = "none" /\ rcaLoad = "none" /\ submitting = FALSE
  /\ calls = [c \in Pages |-> NoCall]
  /\ faults = 0

\* What goes on without the operator.
Progress(c) == Execute(c) \/ Fail(c)

Next ==
  \/ ToFeed \/ ToDetail \/ ToForm
  \/ Poll \/ Refresh \/ \E t \in Tabs : SwitchTab(t)
  \/ \E s \in Slots : FeedArrives(s) \/ FeedFails(s)
  \/ ClickAdvance \/ ClickMove \/ ClickSubmit
  \/ FeedAdvanced \/ DetailMoved \/ FormSubmitted
  \/ \E c \in Pages : Progress(c) \/ Lose(c) \/ Timeout(c)
  \/ IncidentArrives \/ IncidentFails \/ RcaArrives \/ RcaFails
  \/ Elsewhere

Spec == Init /\ [][Next]_vars

FairSpec ==
  /\ Spec
  /\ WF_vars(Poll) /\ WF_vars(IncidentArrives) /\ WF_vars(RcaArrives)
  /\ \A s \in Slots : WF_vars(FeedArrives(s))
  /\ \A c \in Pages : WF_vars(Progress(c))
  /\ WF_vars(FeedAdvanced) /\ WF_vars(DetailMoved) /\ WF_vars(FormSubmitted)

-----------------------------------------------------------------------------
(* Properties.                                                             *)

\* Types; a call knows the status it was clicked for.
TypeOK ==
  /\ status \in Status /\ rca \in Analyses \cup {"none"}
  /\ page \in Pages
  /\ tab \in Tabs /\ row \in Tabs \cup {"empty"}
  /\ loads \in [Slots -> Tabs \cup {"none"}]
  /\ shown \in Status \cup {"none"} /\ incidentLoad \in Status \cup {"none"}
  /\ rcaLoad \in {"none", "any", "yes"}
  /\ {loading, updating, shownRca, error, transitioning, submitting} \subseteq BOOLEAN
  /\ calls \in [Pages -> [seen : Status \cup {"none"}, tab : Tabs \cup {"none"},
                          phase : {"none", "sent", "ok", "failed"},
                          client : {"none", "page", "left", "gone"}]]
  /\ faults \in 0 .. MaxFaults

\* A page that waits waits for something that is on its way: a spinner or a disabled
\* button always has a load or a call that ends it, whatever tabs and pages are
\* clicked meanwhile and whatever fails.
WaitingIsBacked ==
  LET waits(c) == calls[c].client = "page" IN
  /\ loading => \E s \in Slots : loads[s] # "none"
  /\ updating => waits("feed") \/ loads[0] # "none"
  /\ transitioning => waits("detail") \/ incidentLoad # "none"
  /\ submitting => waits("form")

\* A click moves the incident from the status that the operator was shown to the next
\* one, or not at all: on a page that is outdated, with a call that is executed after
\* the page gave it up, or clicked again.
MovesAsSeen ==
  [][\A c \in {"feed", "detail"} :
       (calls[c].phase = "sent" /\ calls'[c].phase # "sent" /\ status' # status)
       => status = calls[c].seen /\ Rank(status') = Rank(status) + 1]_vars

\* Late answers of other tabs replace the rows (the load after an advance belongs to the
\* tab of the click), but a tab that stays open comes to show its own rows.
FeedSettlesOnTab ==
  \A t \in Tabs : <>[](page = "feed" /\ tab = t) => <>[](row \in {"empty", t})

\* An operator who keeps coming back to the incident and uses the buttons it offers.
Persistence ==
  /\ WF_vars(ToFeed) /\ WF_vars(ToDetail)
  /\ SF_vars(ToForm) /\ SF_vars(ClickMove) /\ SF_vars(ClickSubmit)

\* No message, stale page, lost answer or conflict keeps that operator from closing it:
\* only an analysis whose MTTR cannot be stored does, and nobody can replace it.
PersistenceCloses == Persistence => <>(status = "CLOSED" \/ rca = "overflow")
=============================================================================
