------------------------------ MODULE MCPages ------------------------------
(***************************************************************************)
(* Instances of the pages' state machines.  They keep their state apart (a *)
(* provider, a hook or a page's own component, and the requests each one   *)
(* asks), and what one reads of another is a parameter here, so a          *)
(* behaviour of all is one behaviour of each: a run follows one of them at *)
(* a time, the one named by focus, out of the set Followed.                *)
(***************************************************************************)
EXTENDS SignIn, DisplayPreferences, CursorList, SearchPage, SubmitDraft, CollectionEdit,
        FilterUrl, SourceUploads, MapPoints, TLC

CONSTANT Followed

VARIABLE focus

MCWho == 1 :> "ana" @@ 2 :> "ben"
MCMatches == "all" :> (1 .. 4) @@ "mine" :> {1, 3, 4}
MCLastPage == "q" :> 2 @@ "r" :> 2
MCMeets == "publish" :> {2, 3} @@ "request" :> {1, 2}
MCFileOf == 1 :> "clip" @@ 2 :> "clip" @@ 3 :> "frame"
MCKindDims == "site" :> {"author"} @@ "user" :> {}
MCBoxOf == "city" :> "near" @@ "front" :> "far" @@ "hemisphere" :> "planet"
           @@ "world" :> "planet"
MCInside == "near" :> {"city"} @@ "far" :> {"city", "front"} @@ "planet" :> DOMAIN MCBoxOf
MCBareUrl == [types |-> {}, status |-> {}, on |-> {}, coords |-> {}, dated |-> FALSE]
MCLinksIn ==
    {MCBareUrl, [MCBareUrl EXCEPT !.types = {"event", "user"}],
     [MCBareUrl EXCEPT !.types = {"site"}, !.on = {"tags", "author"}, !.dated = TRUE]}

vars == <<focus, signInVars, displayVars, listVars, searchVars, submitVars, editVars, filterVars,
          sourcesVars, mapVars>>

Init ==
    /\ focus \in Followed
    /\ SignInInit /\ DisplayInit /\ ListInit /\ SearchInit /\ SubmitInit /\ EditInit /\ FilterInit
    /\ SourcesInit /\ MapInit
    /\ members \in IF focus = "collection" THEN {{1}, {1, 2, 3}} ELSE {{}}
    /\ focus # "filters" => query = MCBareUrl
    /\ focus # "sources" => page = "submit"
    /\ focus \notin {"pins", "sites"} => onShow = "city"
    /\ focus # "pins" => pointFilters = "every"
    /\ focus # "sites" => asOf = "then"

OfSignIn(A) ==
    /\ focus = "sign-in" /\ A
    /\ UNCHANGED <<focus, displayVars, listVars, searchVars, submitVars, editVars, filterVars,
                   sourcesVars, mapVars>>
OfDisplay(A) ==
    /\ focus = "display" /\ A
    /\ UNCHANGED <<focus, signInVars, listVars, searchVars, submitVars, editVars, filterVars,
                   sourcesVars, mapVars>>
OfList(A) ==
    /\ focus = "list" /\ A
    /\ UNCHANGED <<focus, signInVars, displayVars, searchVars, submitVars, editVars, filterVars,
                   sourcesVars, mapVars>>
OfSearch(A) ==
    /\ focus = "search" /\ A
    /\ UNCHANGED <<focus, signInVars, displayVars, listVars, submitVars, editVars, filterVars,
                   sourcesVars, mapVars>>
OfSubmit(A) ==
    /\ focus = "submit" /\ A
    /\ UNCHANGED <<focus, signInVars, displayVars, listVars, searchVars, editVars, filterVars,
                   sourcesVars, mapVars>>
OfCollection(A) ==
    /\ focus = "collection" /\ A
    /\ UNCHANGED <<focus, signInVars, displayVars, listVars, searchVars, submitVars, filterVars,
                   sourcesVars, mapVars>>
OfFilters(A) ==
    /\ focus = "filters" /\ A
    /\ UNCHANGED <<focus, signInVars, displayVars, listVars, searchVars, submitVars, editVars,
                   sourcesVars, mapVars>>

OfSources(A) ==
    /\ focus = "sources" /\ A
    /\ UNCHANGED <<focus, signInVars, displayVars, listVars, searchVars, submitVars, editVars,
                   filterVars, mapVars>>

\* The pins and the sites each follow the camera, and neither reads the other.
OfMap(what, A) ==
    /\ focus = what /\ A
    /\ UNCHANGED <<focus, signInVars, displayVars, listVars, searchVars, submitVars, editVars,
                   filterVars, sourcesVars>>

Next ==
    \/ OfSignIn(SignInNext) \/ OfDisplay(DisplayNext) \/ OfList(ListNext) \/ OfSearch(SearchNext)
    \/ OfSubmit(SubmitNext) \/ OfCollection(EditNext) \/ OfFilters(FilterNext)
    \/ OfSources(SourcesNext)
    \/ OfMap("pins", CameraNext \/ PointsNext) \/ OfMap("sites", CameraNext \/ SitesNext)

\* A request ends, and a timer fires; the readers and the sessions owe nothing.  A step
\* of one page leaves the others alone, so each is fair on its own variables.
Fairness ==
    /\ WF_signInVars(focus = "sign-in" /\ SignInSettles)
    /\ WF_listVars(focus = "list" /\ LandFirst)
    /\ WF_sourcesVars(focus = "sources" /\ UploadsEnd)

Spec == Init /\ [][Next]_vars /\ Fairness

\* No page waits for good: its reader's identity is settled, and a list shows its first page or
\* its error, and a file on its way ends in a source or in a refusal.
PagesSettle == SignInIsResolved /\ ListSettles /\ UploadsSettle
=============================================================================
