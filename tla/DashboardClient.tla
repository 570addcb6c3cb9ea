-------------------------- MODULE DashboardClient --------------------------
(***************************************************************************)
(* The refresh machinery of src/dashboard/app.js: which range the user has *)
(* chosen, which one the charts show, the refresh in flight and the one    *)
(* that is queued behind it, and the two timers.  JavaScript runs one      *)
(* handler at a time, so a handler up to its await is one step.            *)
(***************************************************************************)
EXTENDS Naturals

CONSTANTS
    Presets,    \* ranges that end now, { last: ... }
    Windows,    \* ranges of the past, { from, to }
    FirstPreset,
    NoSnapshot

ASSUME ClientAssumption ==
    /\ FirstPreset \in Presets
    /\ Presets \cap Windows = {}
    /\ NoSnapshot \notin Presets \cup Windows

VARIABLES
    range,          \* state.range
    liveRange,      \* state.liveRange
    snapshot,       \* the range that the charts show
    badge,          \* "loading", "healthy", "error"
    refreshing,     \* state.refreshing
    queued,         \* state.refreshQueued
    asked,          \* the range in the URL of the refresh in flight
    awaiting,       \* its requests that have not been answered
    auto,           \* autoRefresh.checked
    timer,          \* state.timer is running
    navTimer,       \* state.navigationTimer is running
    liveDisabled    \* timelineLive.disabled

chosen == <<range, liveRange>>
timers == <<auto, timer, navTimer>>
shown == <<snapshot, liveDisabled>>
refreshVars == <<badge, refreshing, queued, asked, awaiting>>
clientVars == <<chosen, timers, shown, refreshVars>>

Parts == {"snapshot", "status"}
Ranges == Presets \cup Windows

ClientTypeOK ==
    /\ range \in Ranges /\ asked \in Ranges /\ liveRange \in Presets
    /\ snapshot \in Ranges \cup {NoSnapshot}
    /\ badge \in {"loading", "healthy", "error"}
    /\ refreshing \in BOOLEAN /\ queued \in BOOLEAN /\ liveDisabled \in BOOLEAN
    /\ auto \in BOOLEAN /\ timer \in BOOLEAN /\ navTimer \in BOOLEAN
    /\ awaiting \subseteq Parts
    /\ refreshing <=> awaiting # {}
    /\ refreshing <=> badge = "loading"
    /\ queued => refreshing

\* The page has loaded: the last statement of the script is a refresh.
ClientInit ==
    /\ range = FirstPreset /\ liveRange = FirstPreset /\ asked = FirstPreset
    /\ snapshot = NoSnapshot
    /\ badge = "loading" /\ refreshing = TRUE /\ queued = FALSE /\ awaiting = Parts
    /\ auto = TRUE /\ timer = FALSE /\ navTimer = FALSE /\ liveDisabled = FALSE

----------------------------------------------------------------------------
(* refresh() *)

\* Up to the await: both requests are under way.
BeginRefresh(r) ==
    /\ refreshing' = TRUE
    /\ asked' = r
    /\ awaiting' = Parts
    /\ badge' = "loading"

\* Slip: a refresh that is asked for during another one is dropped.
Refresh_Dropped(r) ==
    IF refreshing THEN UNCHANGED refreshVars
    ELSE BeginRefresh(r) /\ UNCHANGED queued

Refresh(r) ==
    IF refreshing THEN queued' = TRUE /\ UNCHANGED <<badge, refreshing, asked, awaiting>>
    ELSE BeginRefresh(r) /\ UNCHANGED queued

\* scheduleRefresh
ScheduleRefresh == timer' = auto

\* Slip: after an error no further refresh is scheduled.
EndRefresh_SilentOnError(outcome) ==
    /\ queued' = FALSE
    /\ IF queued THEN BeginRefresh(range) /\ UNCHANGED timer
       ELSE /\ refreshing' = FALSE /\ awaiting' = {} /\ badge' = outcome
            /\ timer' = (auto /\ outcome = "healthy") /\ UNCHANGED asked

\* Slip: the queue flag is not reset.
EndRefresh_KeepsQueued(outcome) ==
    /\ UNCHANGED queued
    /\ IF queued THEN BeginRefresh(range) /\ UNCHANGED timer
       ELSE /\ refreshing' = FALSE /\ awaiting' = {} /\ badge' = outcome
            /\ ScheduleRefresh /\ UNCHANGED asked

\* The finally block: the queued refresh, for the newest range, or the timer.
EndRefresh(outcome) ==
    /\ queued' = FALSE
    /\ IF queued THEN BeginRefresh(range) /\ UNCHANGED timer
       ELSE /\ refreshing' = FALSE /\ awaiting' = {} /\ badge' = outcome
            /\ ScheduleRefresh /\ UNCHANGED asked

\* One of the two requests has been answered and the other has not.
FirstAnswer(part) ==
    /\ part \in awaiting /\ awaiting # {part}
    /\ awaiting' = awaiting \ {part}
    /\ UNCHANGED <<chosen, timers, shown, badge, refreshing, queued, asked>>

\* Both have: the snapshot is rendered.
LastAnswer(part) ==
    /\ awaiting = {part}
    /\ snapshot' = asked
    /\ liveDisabled' = (range \in Presets)
    /\ EndRefresh("healthy")
    /\ UNCHANGED <<chosen, auto, navTimer>>

\* One fails, and Promise.all does not wait for the other.
FailedAnswer(part) ==
    /\ part \in awaiting
    /\ EndRefresh("error")
    /\ UNCHANGED <<chosen, auto, navTimer, shown>>

----------------------------------------------------------------------------
(* The user and the timers. *)

\* The button is disabled during a refresh.
ClickRefresh ==
    /\ ~refreshing
    /\ Refresh(range)
    /\ UNCHANGED <<chosen, timers, shown>>

SetPreset(preset) ==
    /\ liveRange' = preset
    /\ range' = preset
    /\ Refresh(preset)
    /\ UNCHANGED <<timers, shown>>

GoLive ==
    /\ ~liveDisabled
    /\ auto' = TRUE
    /\ range' = liveRange
    /\ Refresh(liveRange)
    /\ UNCHANGED <<liveRange, timer, navTimer, shown>>

ApplyCustomRange(window) ==
    /\ range' = window
    /\ auto' = FALSE
    /\ Refresh(window)
    /\ UNCHANGED <<liveRange, timer, navTimer, shown>>

\* Slip: the automatic refresh that is already scheduled is left alone.
NavigateToStart_KeepsTimer(window) ==
    /\ snapshot # NoSnapshot
    /\ range' = window
    /\ auto' = FALSE
    /\ UNCHANGED <<liveRange, shown, timer>>

\* navigateToStart, up to the refresh.  Without a snapshot there is no timeline.
NavigateToStart(window) ==
    /\ snapshot # NoSnapshot
    /\ range' = window
    /\ auto' = FALSE
    /\ timer' = FALSE
    /\ UNCHANGED <<liveRange, shown>>

\* Buttons, keys, dragging a chart, releasing the slider.
Navigate(window) ==
    /\ NavigateToStart(window)
    /\ navTimer' = FALSE
    /\ Refresh(window)

\* The slider moves: the refresh is put off until it rests.
Slide(window) ==
    /\ NavigateToStart(window)
    /\ navTimer' = TRUE
    /\ UNCHANGED refreshVars

NavTimerFires ==
    /\ navTimer
    /\ navTimer' = FALSE
    /\ Refresh(range)
    /\ UNCHANGED <<chosen, auto, timer, shown>>

TimerFires ==
    /\ timer
    /\ timer' = FALSE
    /\ Refresh(range)
    /\ UNCHANGED <<chosen, auto, navTimer, shown>>

ToggleAutoRefresh ==
    /\ auto' = ~auto
    /\ timer' = auto'
    /\ UNCHANGED <<chosen, navTimer, shown, refreshVars>>

UserStep ==
    \/ ClickRefresh
    \/ \E preset \in Presets : SetPreset(preset)
    \/ GoLive
    \/ \E window \in Windows : ApplyCustomRange(window) \/ Navigate(window) \/ Slide(window)
    \/ ToggleAutoRefresh

TimerStep == NavTimerFires \/ TimerFires

----------------------------------------------------------------------------
(* Properties. *)

\* However refreshes, navigation and answers overlap, a badge that says "healthy" means that
\* the charts show the range that is chosen, unless the slider is still moving, and that the
\* Live button is there exactly when the view is historical.
HealthyViewIsTheChosenOne ==
    badge = "healthy" /\ ~navTimer =>
        /\ snapshot = range
        /\ liveDisabled <=> range \in Presets

\* With auto-refresh on, the view never falls asleep, not even after an error; and, as
\* domain-models.md says that historical navigation disables auto-refresh, once it is off and
\* no refresh that was started before is left, none is scheduled either.
AutoRefreshFollowsTheView ==
    /\ auto => refreshing \/ timer
    /\ ~auto /\ ~refreshing => ~timer
=============================================================================
