------------------------------ MODULE Onboarding ------------------------------
(***************************************************************************)
(* esp32p4/main/revlink_onboarding.c over the network runtime: the setup   *)
(* page's handlers, the task each accepted join leaves behind, and the     *)
(* task that shows or hides the hotspot's credentials on the OLED          *)
(* (revlink_status_oled.c).  One HTTP worker runs the handlers one after   *)
(* the other; the tasks run beside it.  All of them share the setup status *)
(* and the screen, and wait for runtime_mutex to look at the network.      *)
(*                                                                         *)
(* The network is what NetworkView says of it, which NetworkRuntime is     *)
(* shown to implement; calls of others come at any time.  Left out: what   *)
(* the pages say, mDNS, the answer to captive probes (a function of the    *)
(* setup status), and the QR code and address overlays, which cover the    *)
(* screen for a while and uncover it unchanged.                            *)
(***************************************************************************)
EXTENDS NetworkView

CONSTANT Joins      \* bound: join tasks alive at a time

SetupStates == {"IDLE", "CONNECTING", "FAILED", "SUCCEEDED", "DIRECT"}
JoinSteps == {"none", "delay", "call", "ok", "bad", "success", "failure", "hide"}

VARIABLES
    setup,     \* onboarding_status.state
    joins,     \* where each join task is
    http,      \* the handler that has published a status and has not ended
    oled,      \* the screen, the display task, and the network as status_model has it
    offer      \* history: an offer of the credentials was taken up since the boot

onboardVars == <<setup, joins, http, oled, offer>>
allVars == <<viewVars, onboardVars>>

NoScreen == [stage |-> "off", visible |-> FALSE, was |-> TRUE, look |-> "none", seen |-> FALSE,
             code |-> FALSE]
NoJoins == [j \in Joins |-> "none"]

\* Types; and a join task is in its call only while such a call has the network.
OnboardTypeOK ==
    /\ ViewTypeOK
    /\ setup \in SetupStates
    /\ joins \in [Joins -> JoinSteps]
    /\ \A j \in Joins : joins[j] = "call" =>
          holder = "join" /\ \A k \in Joins \ {j} : joins[k] # "call"
    /\ http \in {"none", "join", "direct"}
    /\ oled \in [stage : {"off", "shown", "up", "failed"}, visible : BOOLEAN, was : BOOLEAN,
                 look : {"none", "show", "hide"}, seen : BOOLEAN, code : BOOLEAN]
    /\ offer \in [taken : BOOLEAN, qr : BOOLEAN]

OnboardInit ==
    /\ ViewInit
    /\ setup = "IDLE" /\ joins = NoJoins /\ http = "none" /\ oled = NoScreen
    /\ offer = [taken |-> FALSE, qr |-> FALSE]

Hotspot == view \in {"HOTSPOT_STARTING", "HOTSPOT_READY"}

(***************************************************************************)
(* revlink_onboarding_start                                                *)
(***************************************************************************)

\* The credential is made, shown and handed to the runtime.
onboarding_start ==
    /\ oled.stage = "off"
    /\ view_credential
    /\ setup' = "IDLE"
    /\ oled' = [oled EXCEPT !.stage = "shown", !.visible = TRUE]
    /\ UNCHANGED <<joins, http, offer>>

\* The services: the last to start is the display task.  A failure ends the start
\* of the whole program; only that of the display task clears the credentials.
onboarding_serves ==
    /\ oled.stage = "shown" /\ holder = "free"
    /\ \/ oled' = [oled EXCEPT !.stage = "up"]
       \/ \E shown \in BOOLEAN : oled' = [oled EXCEPT !.stage = "failed", !.visible = shown]
    /\ UNCHANGED <<viewVars, setup, joins, http, offer>>

(***************************************************************************)
(* The handlers                                                            *)
(***************************************************************************)
\* The snapshot is taken under the mutex; a transfer that is under way turns the
\* request down as well, so a request is never sure to be accepted.
hotspot_is_ready ==
    /\ oled.stage = "up" /\ http = "none" /\ holder = "free"
    /\ view = "HOTSPOT_READY"

\* The status is published before the request has been read.
join_handler ==
    /\ hotspot_is_ready
    /\ setup' = "CONNECTING" /\ http' = "join"
    /\ UNCHANGED <<viewVars, joins, oled, offer>>

\* A plausible slip: a request that cannot be read leaves the status as it is.
join_rejected_silently ==
    /\ http = "join" /\ http' = "none"
    /\ UNCHANGED <<viewVars, setup, joins, oled, offer>>

\* Header, size, body, form or memory: whatever another join task is doing.
join_rejected ==
    /\ http = "join" /\ http' = "none"
    /\ setup' = "IDLE"
    /\ UNCHANGED <<viewVars, joins, oled, offer>>

join_accepted(j) ==
    /\ http = "join" /\ http' = "none"
    /\ joins[j] = "none" /\ joins' = [joins EXCEPT ![j] = "delay"]
    /\ UNCHANGED <<viewVars, setup, oled, offer>>

direct_handler ==
    /\ hotspot_is_ready
    /\ setup' = "DIRECT" /\ http' = "direct"
    /\ offer' = [offer EXCEPT !.taken = TRUE]
    /\ UNCHANGED <<viewVars, joins, oled>>

Hidden == [oled EXCEPT !.visible = FALSE]

direct_hides ==
    /\ http = "direct" /\ http' = "none"
    /\ oled' = Hidden
    /\ UNCHANGED <<viewVars, setup, joins, offer>>

(***************************************************************************)
(* join_task                                                               *)
(***************************************************************************)

\* 750 ms later; a call the coordinator refuses returns at once.
join_configures(j) ==
    /\ joins[j] = "delay" /\ holder = "free"
    /\ \/ view_take("join") /\ joins' = [joins EXCEPT ![j] = "call"]
       \/ UNCHANGED viewVars /\ joins' = [joins EXCEPT ![j] = "bad"]
    /\ UNCHANGED <<setup, http, oled, offer>>

\* The mutex is given back: the call that had it returns what it came to.
CallReturns ==
    joins' = [j \in Joins |->
                 IF joins[j] = "call" /\ holder' = "free"
                 THEN IF view' = "CLIENT_READY" THEN "ok" ELSE "bad"
                 ELSE joins[j]]

\* The network is looked at again, after others may have had the mutex.
Joined(j) == joins[j] = "ok" /\ view = "CLIENT_READY"

join_looks(j) ==
    /\ joins[j] \in {"ok", "bad"} /\ holder = "free"
    /\ joins' = [joins EXCEPT ![j] = IF Joined(j) THEN "success" ELSE "failure"]
    /\ UNCHANGED <<viewVars, setup, http, oled, offer>>

join_succeeds(j) ==
    /\ joins[j] = "success" /\ joins' = [joins EXCEPT ![j] = "hide"]
    /\ setup' = "SUCCEEDED"
    /\ offer' = [offer EXCEPT !.taken = TRUE]
    /\ UNCHANGED <<viewVars, http, oled>>

\* What the task does after the hold is WifiRadio's finish_check and finish_switch.
join_hides(j) ==
    /\ joins[j] = "hide" /\ joins' = [joins EXCEPT ![j] = "none"]
    /\ oled' = Hidden
    /\ UNCHANGED <<viewVars, setup, http, offer>>

\* The station's error is asked for under the mutex.
join_fails(j) ==
    /\ joins[j] = "failure" /\ holder = "free"
    /\ joins' = [joins EXCEPT ![j] = "none"]
    /\ setup' = "FAILED"
    /\ UNCHANGED <<viewVars, http, oled, offer>>

(***************************************************************************)
(* onboarding_display_task                                                 *)
(***************************************************************************)
\* A plausible slip: the network is not asked.
ShouldBeVisible_setup == setup \notin {"DIRECT", "CONNECTING", "SUCCEEDED"}

ShouldBeVisible == Hotspot /\ setup \notin {"DIRECT", "CONNECTING", "SUCCEEDED"}

\* One round: the network goes to the status model; the screen is touched when the
\* answer is another than last time, whatever has been done to it in between.
onboarding_display_task ==
    /\ oled.stage = "up" /\ oled.look = "none" /\ holder = "free"
    /\ oled' = [oled EXCEPT !.seen = Hotspot,
                            !.look = IF ShouldBeVisible = oled.was THEN "none"
                                     ELSE IF ShouldBeVisible THEN "show" ELSE "hide"]
    /\ oled' # oled
    /\ UNCHANGED <<viewVars, setup, joins, http, offer>>

\* A plausible slip: the screen is changed and the change forgotten.
display_draws_forgets ==
    /\ oled.look # "none"
    /\ oled' = [oled EXCEPT !.visible = oled.look = "show", !.look = "none", !.was = TRUE]
    /\ UNCHANGED <<viewVars, setup, joins, http, offer>>

display_draws ==
    /\ oled.look # "none"
    /\ oled' = [oled EXCEPT !.visible = oled.look = "show", !.look = "none",
                            !.was = oled.look = "show"]
    /\ UNCHANGED <<viewVars, setup, joins, http, offer>>

\* revlink_status_oled_show_hotspot_qr, on a double press: the network is looked up and
\* the code made of the credentials.
show_hotspot_qr ==
    /\ oled.seen /\ ~oled.code
    /\ oled' = [oled EXCEPT !.code = TRUE]
    /\ UNCHANGED <<viewVars, setup, joins, http, offer>>

\* Then it is put up; the credentials are under it when it is taken off again.
qr_draws ==
    /\ oled.code
    /\ oled' = [oled EXCEPT !.code = FALSE, !.visible = TRUE]
    /\ offer' = [offer EXCEPT !.qr = @ \/ ~oled.visible]
    /\ UNCHANGED <<viewVars, setup, joins, http>>

(***************************************************************************)
(* Specification                                                           *)
(***************************************************************************)
power_cycle_or_reset ==
    /\ view_restarts
    /\ setup' = "IDLE" /\ joins' = NoJoins /\ http' = "none" /\ oled' = NoScreen
    /\ offer' = [taken |-> FALSE, qr |-> FALSE]

\* The network's own steps, the end of a join task's call among them.
Network(step) == step /\ CallReturns /\ UNCHANGED <<setup, http, oled, offer>>

NetworkSteps ==
    \/ Network(view_boots) \/ Network(view_work) \/ Network(view_release)
    \/ \E who \in {"join", "other"} : Network(view_take(who))

Handler == join_rejected \/ direct_hides \/ \E j \in Joins : join_accepted(j)
JoinTask(j) ==
    \/ join_configures(j) \/ join_looks(j) \/ join_succeeds(j) \/ join_hides(j) \/ join_fails(j)

OnboardNext ==
    \/ power_cycle_or_reset \/ NetworkSteps
    \/ onboarding_start \/ onboarding_serves
    \/ join_handler \/ direct_handler \/ Handler
    \/ \E j \in Joins : JoinTask(j)
    \/ onboarding_display_task \/ display_draws
    \/ show_hotspot_qr \/ qr_draws

(***************************************************************************)
(* Fairness: NetworkView's, and that of tasks FreeRTOS schedules: a        *)
(* handler ends (its socket has a receive timeout), and a task that waits  *)
(* for the mutex is handed it.  Nothing obliges anyone to post a request.  *)
(***************************************************************************)
OnboardSpec ==
    /\ OnboardInit /\ [][OnboardNext]_allVars
    /\ WF_allVars(Network(view_boots)) /\ WF_allVars(Network(view_release))
    /\ WF_allVars(Handler) /\ \A j \in Joins : SF_allVars(JoinTask(j))
    /\ SF_allVars(onboarding_display_task) /\ WF_allVars(display_draws)

(***************************************************************************)
(* Properties                                                              *)
(***************************************************************************)

\* The setup page is not left waiting: a join that was announced is answered, also
\* when requests overlap and one is turned down while another's task is at work.
ConnectingEnds == (setup = "CONNECTING") ~> (setup # "CONNECTING")

Offered == oled.stage = "up" /\ view = "HOTSPOT_READY" /\ setup # "CONNECTING"

\* A hotspot whose offer nobody has taken up since the boot shows its credentials in
\* the end, after any number of failed or refused joins.
CredentialsShown ==
    (Offered /\ ~offer.taken) ~> (oled.visible \/ ~Offered \/ offer.taken)

\* A client does not go on showing the hotspot's credentials, unless the owner asked
\* for them with the button.
CredentialsHidden ==
    (view = "CLIENT_READY" /\ oled.stage = "up" /\ ~offer.qr)
       ~> (~oled.visible \/ view # "CLIENT_READY" \/ oled.stage # "up" \/ offer.qr)

\* docs/PRODUCT_NETWORKING.md: the display, hidden in client mode, "restores that same
\* display state when the coordinator returns to hotspot mode".
CredentialsRestored ==
    (Offered /\ setup = "SUCCEEDED") ~> (oled.visible \/ ~Offered \/ setup # "SUCCEEDED")

(***************************************************************************)
(* The inductive invariant                                                 *)
(***************************************************************************)

\* Before the services are up nobody has asked for anything.
NothingAsked ==
    oled.stage # "up" =>
        /\ http = "none" /\ joins = NoJoins /\ setup = "IDLE"
        /\ oled.look = "none" /\ oled.was /\ ~oled.seen /\ ~oled.code
        /\ ~offer.taken /\ ~offer.qr /\ (oled.stage = "shown" => oled.visible)

\* A join that is announced as under way has a handler or a task at work on it, which
\* will publish another status.
JoinOwned ==
    setup = "CONNECTING" =>
        \/ http = "join"
        \/ \E j \in Joins : joins[j] \in {"delay", "call", "ok", "bad", "success", "failure"}

\* Who takes the credentials off the screen has recorded why.
TakenBeforeHidden ==
    /\ http = "direct" => offer.taken
    /\ \A j \in Joins : joins[j] = "hide" => offer.taken

\* The display task compares with what it did last, not with the screen.  Until the offer
\* is taken up or the owner presses the button the two agree, so that it is not blind.
ScreenRemembered ==
    oled.stage = "up" =>
        /\ ~offer.qr /\ oled.visible => oled.was
        /\ ~offer.taken /\ oled.was => oled.visible

OnboardIInv ==
    /\ OnboardTypeOK /\ NothingAsked /\ JoinOwned /\ TakenBeforeHidden /\ ScreenRemembered
===============================================================================
