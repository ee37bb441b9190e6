----------------------------- MODULE MapPoints -----------------------------
(***************************************************************************)
(* What the map page (app/map/page.tsx) reads for the part of the world on *)
(* show: the event pins of a padded box round the viewport, claimed as     *)
(* covered when they are asked for, and the sites of the same box.  A      *)
(* viewport is moved without end; each part asks again only when its own   *)
(* box, filters or day change, and gives up what it was asking before.     *)
(***************************************************************************)
EXTENDS Integers, FiniteSets

CONSTANTS
    Viewports,    \* the rectangles the reader may move to
    BoxOf,        \* a viewport -> its padded box, as the bbox parameter names it
    Inside,        \* a box -> the viewports that lie inside it
    PointFilters, \* the filters the server applies
    Days,         \* the days the sites may be asked as of
    NoBox, NoView, NothingRead

ASSUME MapAssumption ==
    /\ \A v \in Viewports : v \in Inside[BoxOf[v]]
    /\ NoView \notin Viewports
    /\ \A v \in Viewports : BoxOf[v] # NoBox

VARIABLES
    onShow,       \* the viewport of the camera
    bbox,         \* the bbox state, NoBox until the map first reports
    claimed,      \* coveredRef
    boundsTimer,  \* the viewport the debounce holds
    pointFilters, \* serverFilters
    pointsFor,    \* the box and filters the effect of the points last ran with
    pointReads,   \* the points reads in flight and not aborted
    points,       \* the read whose pins are on the map
    pointsError,
    sitesShown, asOf,
    sitesFor,     \* what the effect of the sites last ran with
    sitesStage,   \* its timer, then its read
    siteReads,    \* the sites reads in flight and not aborted
    sites         \* the read whose sites are on the map

cameraVars == <<onShow, bbox, claimed, boundsTimer>>
pointVars == <<pointFilters, pointsFor, pointReads, points, pointsError>>
siteVars == <<sitesShown, asOf, sitesFor, sitesStage, siteReads, sites>>
mapVars == <<cameraVars, pointVars, siteVars>>

Boxes == {BoxOf[v] : v \in Viewports}
PointReads == [box : Boxes, filters : PointFilters]
SiteReads == [box : Boxes, day : Days]

MapInit ==
    /\ onShow \in Viewports
    /\ bbox = NoBox /\ claimed = NoBox /\ boundsTimer = NoView
    /\ pointFilters \in PointFilters
    /\ pointsFor = [box |-> NoBox, filters |-> pointFilters]
    /\ pointReads = {} /\ points = NothingRead /\ pointsError = FALSE
    /\ sitesShown = TRUE /\ asOf \in Days
    /\ sitesFor = [shown |-> TRUE, box |-> NoBox, day |-> asOf]
    /\ sitesStage = "waiting" /\ siteReads = {} /\ sites = NothingRead
-----------------------------------------------------------------------------
\* apply of handleBoundsChange: a viewport inside the claimed box asks nothing.
Cover(v) ==
    IF claimed # NoBox /\ v \in Inside[claimed]
    THEN UNCHANGED <<bbox, claimed>>
    ELSE bbox' = BoxOf[v] /\ claimed' = BoxOf[v]

\* Mutant of MoveEnd: the viewport that is taken at once leaves the timer of an earlier one armed.
MoveEndTimerKept(v) ==
    /\ onShow' = v
    /\ IF claimed = NoBox
       THEN Cover(v) /\ UNCHANGED boundsTimer
       ELSE boundsTimer' = v /\ UNCHANGED <<bbox, claimed>>
    /\ UNCHANGED <<pointVars, siteVars>>

\* The map reports its bounds, on mount and after every move, and the page hears of them: the
\* first ones, or the first after a failed read, are taken at once, the others after a pause.
MoveEnd(v) ==
    /\ onShow' = v
    /\ IF claimed = NoBox
       THEN Cover(v) /\ boundsTimer' = NoView
       ELSE boundsTimer' = v /\ UNCHANGED <<bbox, claimed>>
    /\ UNCHANGED <<pointVars, siteVars>>

BoundsSettle ==
    /\ boundsTimer # NoView
    /\ Cover(boundsTimer)
    /\ boundsTimer' = NoView
    /\ UNCHANGED <<onShow, pointVars, siteVars>>
-----------------------------------------------------------------------------
ChangeFilters(f) ==
    /\ f # pointFilters
    /\ pointFilters' = f
    /\ UNCHANGED <<cameraVars, pointsFor, pointReads, points, pointsError, siteVars>>

\* fetchPoints: the read before it is aborted, and never lands.
FetchPoints ==
    /\ bbox # NoBox
    /\ pointReads' = {[box |-> bbox, filters |-> pointFilters]}
    /\ pointsFor' = [box |-> bbox, filters |-> pointFilters]
    /\ UNCHANGED <<cameraVars, pointFilters, points, pointsError, siteVars>>

\* The effect keyed on fetchPoints, which a new box or new filters make anew.
PointsEffect == pointsFor # [box |-> bbox, filters |-> pointFilters] /\ FetchPoints

\* The button of the error notice.
RetryPoints == pointsError /\ FetchPoints

LandPoints(r) ==
    /\ r \in pointReads
    /\ pointReads' = pointReads \ {r}
    /\ \/ points' = r /\ pointsError' = FALSE /\ UNCHANGED claimed
       \/ pointsError' = TRUE /\ claimed' = NoBox /\ UNCHANGED points
    /\ UNCHANGED <<onShow, bbox, boundsTimer, pointFilters, pointsFor, siteVars>>
-----------------------------------------------------------------------------
PickSites ==
    /\ sitesShown' = ~sitesShown
    /\ UNCHANGED <<cameraVars, pointVars, asOf, sitesFor, sitesStage, siteReads, sites>>

MoveWindow(d) ==
    /\ asOf # d
    /\ asOf' = d
    /\ UNCHANGED <<cameraVars, pointVars, sitesShown, sitesFor, sitesStage, siteReads, sites>>

SitesWanted == [shown |-> sitesShown, box |-> bbox, day |-> asOf]

\* The debounced effect: what it waited for or was asking is given up, and the pause starts anew.
SitesEffect ==
    /\ sitesFor # SitesWanted
    /\ sitesFor' = SitesWanted
    /\ sitesStage' = "waiting"
    /\ siteReads' = {}
    /\ UNCHANGED <<cameraVars, pointVars, sitesShown, asOf, sites>>

\* The pause is over: with the sites hidden, or no box yet, there is nothing to ask.
SitesSettle ==
    /\ sitesStage = "waiting"
    /\ IF sitesFor.shown /\ sitesFor.box # NoBox
       THEN /\ sitesStage' = "asked"
            /\ siteReads' = siteReads \cup {[box |-> sitesFor.box, day |-> sitesFor.day]}
       ELSE sitesStage' = "nothing" /\ UNCHANGED siteReads
    /\ UNCHANGED <<cameraVars, pointVars, sitesShown, asOf, sitesFor, sites>>

\* A read that fails says nothing, and the sites of before stay.
LandSites(r) ==
    /\ r \in siteReads
    /\ siteReads' = siteReads \ {r}
    /\ \/ sites' = r /\ sitesStage' = "answered"
       \/ sitesStage' = "failed" /\ UNCHANGED sites
    /\ UNCHANGED <<cameraVars, pointVars, sitesShown, asOf, sitesFor>>
-----------------------------------------------------------------------------
CameraNext == BoundsSettle \/ \E v \in Viewports : MoveEnd(v)

PointsNext ==
    \/ PointsEffect \/ RetryPoints
    \/ \E f \in PointFilters : ChangeFilters(f)
    \/ \E r \in PointReads : LandPoints(r)

SitesNext ==
    \/ PickSites \/ SitesEffect \/ SitesSettle
    \/ \E d \in Days : MoveWindow(d)
    \/ \E r \in SiteReads : LandSites(r)

MapNext == CameraNext \/ PointsNext \/ SitesNext

MapSpec == MapInit /\ [][MapNext]_mapVars
-----------------------------------------------------------------------------
\* Every state has the shape its declaration gives it.
MapTypeOK ==
    /\ onShow \in Viewports /\ boundsTimer \in Viewports \cup {NoView}
    /\ {bbox, claimed} \subseteq Boxes \cup {NoBox}
    /\ pointFilters \in PointFilters
    /\ pointsFor \in [box : Boxes \cup {NoBox}, filters : PointFilters]
    /\ pointReads \subseteq PointReads
    /\ points \in PointReads \cup {NothingRead}
    /\ pointsError \in BOOLEAN
    /\ sitesShown \in BOOLEAN /\ asOf \in Days
    /\ sitesFor \in [shown : BOOLEAN, box : Boxes \cup {NoBox}, day : Days]
    /\ sitesStage \in {"waiting", "asked", "nothing", "answered", "failed"}
    /\ siteReads \subseteq SiteReads
    /\ sites \in SiteReads \cup {NothingRead}

PointsRest ==
    /\ bbox # NoBox /\ boundsTimer = NoView
    /\ pointReads = {}
    /\ pointsFor = [box |-> bbox, filters |-> pointFilters]

SitesRest == sitesShown /\ sitesFor = SitesWanted /\ sitesStage = "answered" /\ siteReads = {}

\* Once nothing is under way, the map shows the pins of a box round the viewport under the
\* filters of the panel, or says that they failed; and the sites, unless their last read failed,
\* are those of that box on the day of the timeline: handleBoundsChange, fetchPoints and the
\* effect of the sites of app/map/page.tsx.
MapShowsItsView ==
    /\ PointsRest =>
        pointsError \/ (points = pointsFor /\ onShow \in Inside[bbox] /\ claimed \in {bbox, NoBox})
    /\ SitesRest => sites = [box |-> bbox, day |-> asOf]
=============================================================================
