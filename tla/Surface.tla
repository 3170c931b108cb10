------------------------------ MODULE Surface -------------------------------
(***************************************************************************)
(* The drawing surface of the player.  The host's set_movie_size runs on   *)
(* the main thread and stores a pending size; refresh_size makes an        *)
(* IOSurface of that size.  Flash draws between surface_impl_lock and      *)
(* surface_impl_unlock into a buffer `temp' that unlock copies to the      *)
(* surface; unlock tells the host about a new surface and applies a size   *)
(* that came meanwhile.                                                    *)
(*                                                                         *)
(* The code has no mutex: the flag `locked' is all there is.  Flash may    *)
(* draw on the main thread, then set_movie_size can only come between lock *)
(* and unlock; or on a thread of its own, then the steps interleave.       *)
(***************************************************************************)
EXTENDS Integers

CONSTANTS
    Dims,       \* widths and heights the host sends
    MaxSizes    \* bound: calls of set_movie_size

ASSUME DimsAssumption == Dims \subseteq Nat /\ MaxSizes \in Nat

VARIABLES
    onMain,     \* Flash draws on the main thread
    pend,       \* pending_movie_w, pending_movie_h
    movie,      \* movie_w, movie_h
    locked,     \* the flag
    created,    \* already_created_surface
    dirty,      \* sfc_dirty
    sfc,        \* the IOSurface: its number (0 if there is none) and size
    made,       \* IOSurfaces made so far
    released,   \* IOSurfaces given back with CFRelease
    tempMem,    \* bytes behind temp
    tempSz,     \* temp_sz
    bitmap,     \* size of the bitmap Flash was given
    shown,      \* the surface the host was told to show
    pc,         \* where set_movie_size ("main") and Flash's drawing ("draw") are
    arg,        \* the height set_movie_size was called with
    calls,      \* calls of set_movie_size so far
    broken,     \* memory was overrun or a surface given back twice
    early       \* history: the first surface was made between lock and unlock

sizeVars == <<pend, movie>>
tempVars == <<tempMem, tempSz, bitmap>>
sfcVars == <<sfc, made, released, dirty, created>>
vars == <<onMain, pend, movie, locked, created, dirty, sfc, made, released, tempMem,
          tempSz, bitmap, shown, pc, arg, calls, broken, early>>

NoSize == [w |-> 0, h |-> -1]    \* of the two variables at first
Empty == [w |-> 0, h |-> 0]
NoSfc == [id |-> 0, w |-> 0, h |-> 0]
Area(s) == s.w * s.h    \* of a surface; 0 for none
Drawable(s) == s.w >= 2 /\ s.h >= 2
Sizes == [w : Dims \cup {0}, h : Dims \cup {0, -1}]
RefreshPcs == {"refresh", "width", "height", "create", "dirty", "release", "make"}

TypeOK ==
    /\ onMain \in BOOLEAN
    /\ pend \in Sizes /\ movie \in Sizes /\ bitmap \in Sizes
    /\ locked \in BOOLEAN /\ created \in BOOLEAN /\ dirty \in BOOLEAN
    /\ sfc \in [id : Nat, w : Dims \cup {0}, h : Dims \cup {0}]
    /\ sfc.id <= made
    /\ made \in Nat /\ tempMem \in Nat /\ tempSz \in Nat
    /\ released \subseteq 1..made
    /\ shown \in 0..made
    /\ pc["main"] \in {"loop", "seth", "decide"} \cup RefreshPcs
    /\ pc["draw"] \in {"out", "compare", "size", "bitmap", "flag", "held", "unlock",
                       "copy", "tell", "sync", "late", "unflag"} \cup RefreshPcs
    /\ DOMAIN pc = {"main", "draw"}
    /\ arg \in Dims \cup {0}
    /\ calls \in 0..MaxSizes
    /\ broken \in BOOLEAN /\ early \in BOOLEAN

\* new_fps has run (np.c asks Flash for its surface before the run loop
\* starts), and its refresh_size did nothing, there being no size yet.
Init ==
    /\ onMain \in BOOLEAN
    /\ pend = NoSize /\ movie = NoSize /\ bitmap = Empty
    /\ locked = FALSE /\ created = FALSE /\ dirty = FALSE
    /\ sfc = NoSfc /\ made = 0 /\ released = {}
    /\ tempMem = 0 /\ tempSz = 0 /\ shown = 0
    /\ pc = [t \in {"main", "draw"} |-> IF t = "main" THEN "loop" ELSE "out"]
    /\ arg = 0
    /\ calls = 0 /\ broken = FALSE /\ early = FALSE
-----------------------------------------------------------------------------
(* refresh_size and do_jni_surface_changed, run by either thread t.        *)

Go(t, from, to) == pc[t] = from /\ pc' = [pc EXCEPT ![t] = to]

Done(t) == IF t = "main" THEN "loop" ELSE "unflag"

\* A size below 2 is not applied.
RefreshCheck(t) ==
    /\ Go(t, "refresh", IF Drawable(pend) THEN "width" ELSE Done(t))
    /\ UNCHANGED <<sizeVars, sfcVars, broken, early>>

RefreshWidth(t) ==
    /\ Go(t, "width", "height")
    /\ movie' = [movie EXCEPT !.w = pend.w]
    /\ UNCHANGED <<pend, sfcVars, broken, early>>

RefreshHeight(t) ==
    /\ Go(t, "height", "create")
    /\ movie' = [movie EXCEPT !.h = pend.h]
    /\ UNCHANGED <<pend, sfcVars, broken, early>>

\* do_jni_surface_created, once; nativeSurfaceChanged.
RefreshCreate(t) ==
    /\ Go(t, "create", "dirty")
    /\ created' = TRUE
    /\ UNCHANGED <<sizeVars, sfc, made, released, dirty, broken, early>>

\* Mutant: the new surface is not marked as unknown to the host.
RefreshClean(t) ==
    /\ Go(t, "dirty", "release")
    /\ UNCHANGED <<sizeVars, sfc, made, released, dirty, created, broken, early>>

RefreshDirty(t) ==
    /\ Go(t, "dirty", "release")
    /\ dirty' = TRUE
    /\ UNCHANGED <<sizeVars, sfc, made, released, created, broken, early>>

\* Mutant: CFRelease without if(sfc).
RefreshReleaseNull(t) ==
    /\ Go(t, "release", "make")
    /\ released' = released \cup {sfc.id}
    /\ broken' = (broken \/ sfc.id \in released)
    /\ UNCHANGED <<sizeVars, sfc, made, dirty, created, early>>

\* if(sfc) CFRelease(sfc): sfc keeps the pointer until the next step.
RefreshRelease(t) ==
    /\ Go(t, "release", "make")
    /\ released' = IF sfc = NoSfc THEN released ELSE released \cup {sfc.id}
    /\ broken' = (broken \/ sfc.id \in released)
    /\ UNCHANGED <<sizeVars, sfc, made, dirty, created, early>>

\* sfc = make_iosurface()
RefreshMake(t) ==
    /\ Go(t, "make", Done(t))
    /\ made' = made + 1
    /\ sfc' = [id |-> made + 1, w |-> movie.w, h |-> movie.h]
    /\ early' = (early \/ (sfc = NoSfc /\ pc["draw"] = "held"))
    /\ UNCHANGED <<sizeVars, released, dirty, created, broken>>

Refresh(t) ==
    /\ \/ RefreshCheck(t) \/ RefreshWidth(t) \/ RefreshHeight(t) \/ RefreshCreate(t)
       \/ RefreshDirty(t) \/ RefreshRelease(t) \/ RefreshMake(t)
    /\ UNCHANGED <<onMain, locked, tempVars, shown, arg, calls>>
-----------------------------------------------------------------------------
(* set_movie_size.  If Flash draws on the main thread the two exclude each *)
(* other, but a call may come between lock and unlock.                     *)

MainFree == onMain => pc["draw"] \in {"out", "held"}
DrawFree == onMain => pc["main"] = "loop"

\* The size that is already pending is ignored.  The width is stored ...
SetMovieSize(w, h) ==
    /\ MainFree
    /\ calls < MaxSizes
    /\ calls' = calls + 1
    /\ Go("main", "loop", IF pend = [w |-> w, h |-> h] THEN "loop" ELSE "seth")
    /\ pend' = [pend EXCEPT !.w = w]
    /\ arg' = IF pend = [w |-> w, h |-> h] THEN arg ELSE h
    /\ UNCHANGED <<onMain, movie, locked, sfcVars, tempVars, shown, broken, early>>

\* ... then the height.
SetHeight ==
    /\ Go("main", "seth", "decide")
    /\ pend' = [pend EXCEPT !.h = arg]
    /\ arg' = 0
    /\ UNCHANGED <<onMain, movie, locked, sfcVars, tempVars, shown, calls, broken, early>>

\* Mutant: the flag is not looked at.
DecideAlways ==
    /\ Go("main", "decide", "refresh")
    /\ UNCHANGED <<onMain, sizeVars, locked, sfcVars, tempVars, shown, arg, calls, broken, early>>

\* if((fps_npp && !already_created_surface) || !locked) refresh_size();
Decide ==
    /\ Go("main", "decide", IF created /\ locked THEN "loop" ELSE "refresh")
    /\ UNCHANGED <<onMain, sizeVars, locked, sfcVars, tempVars, shown, arg, calls, broken, early>>
-----------------------------------------------------------------------------
(* surface_impl_lock.                                                      *)

\* A drawing step that leaves everything but pc and the named parts alone.
Draws(from, to) ==
    /\ DrawFree
    /\ Go("draw", from, to)
    /\ UNCHANGED <<onMain, pend, movie, made, released, created, arg, calls, early>>

\* Flash may draw before there is a surface: its bitmap is empty then.
Lock ==
    /\ Draws("out", "compare")
    /\ UNCHANGED <<locked, dirty, sfc, tempVars, shown, broken>>

\* if(temp_sz != IOSurfaceGetAllocSize(sfc)): a new temp ...
LockTemp ==
    /\ Draws("compare", IF tempSz = Area(sfc) THEN "bitmap" ELSE "size")
    /\ tempMem' = IF tempSz = Area(sfc) THEN tempMem ELSE Area(sfc)
    /\ UNCHANGED <<locked, dirty, sfc, tempSz, bitmap, shown, broken>>

\* ... and its size, asked of the surface again.
LockTempSize ==
    /\ Draws("size", "bitmap")
    /\ tempSz' = Area(sfc)
    /\ UNCHANGED <<locked, dirty, sfc, tempMem, bitmap, shown, broken>>

LockBitmap ==
    /\ Draws("bitmap", "flag")
    /\ bitmap' = [w |-> sfc.w, h |-> sfc.h]
    /\ UNCHANGED <<locked, dirty, sfc, tempMem, tempSz, shown, broken>>

\* locked = true comes last.
LockFlag ==
    /\ Draws("flag", "held")
    /\ locked' = TRUE
    /\ UNCHANGED <<dirty, sfc, tempVars, shown, broken>>
-----------------------------------------------------------------------------
(* surface_impl_unlock.                                                    *)

\* Flash has filled its bitmap.  Without a surface the function returns,
\* and the flag stays set until the next drawing.
Unlock ==
    /\ Draws("held", IF sfc = NoSfc THEN "out" ELSE "copy")
    /\ broken' = (broken \/ Area(bitmap) > tempMem)
    /\ UNCHANGED <<locked, dirty, sfc, tempVars, shown>>

\* temp is copied, as much as the surface holds.
UnlockCopy ==
    /\ Draws("copy", "tell")
    /\ broken' = (broken \/ Area(sfc) > tempMem \/ sfc.id \in released)
    /\ UNCHANGED <<locked, dirty, sfc, tempVars, shown>>

\* if(sfc_dirty) { sfc_dirty = false; use_surface(...) }, which waits for the
\* host; then display_sync.
UnlockTell ==
    /\ Draws("tell", "sync")
    /\ dirty' = FALSE
    /\ shown' = IF dirty THEN sfc.id ELSE shown
    /\ UNCHANGED <<locked, sfc, tempVars, broken>>

\* Mutant: a size that came meanwhile is not looked for.
UnlockSyncOnly ==
    /\ Draws("sync", "unflag")
    /\ UNCHANGED <<locked, dirty, sfc, tempVars, shown, broken>>

\* After display_sync: if the pending size is another one, refresh_size().
UnlockSync ==
    /\ Draws("sync", IF pend # movie THEN "refresh" ELSE "unflag")
    /\ UNCHANGED <<locked, dirty, sfc, tempVars, shown, broken>>

\* locked = false comes after the comparison.
UnlockFlag ==
    /\ Draws("unflag", "out")
    /\ locked' = FALSE
    /\ UNCHANGED <<dirty, sfc, tempVars, shown, broken>>

Main == SetHeight \/ Decide \/ Refresh("main")

Draw ==
    \/ Lock \/ LockTemp \/ LockTempSize \/ LockBitmap \/ LockFlag
    \/ Unlock \/ UnlockCopy \/ UnlockTell \/ UnlockSync \/ UnlockFlag
    \/ DrawFree /\ Refresh("draw")

Next ==
    \/ \E w, h \in Dims : SetMovieSize(w, h)
    \/ Main
    \/ Draw

\* Both threads run, and Flash keeps drawing.
Fairness == WF_vars(Main) /\ WF_vars(Draw)

Spec == Init /\ [][Next]_vars
FairSpec == Spec /\ Fairness
-----------------------------------------------------------------------------
(* Properties.                                                             *)

\* ANPSurface_npapi.h promises that lock keeps other threads from the surface
\* and gives a valid bitmap: between lock and unlock the bitmap has the size
\* of the surface and fits the memory behind it.
LockedBitmapValid ==
    pc["draw"] = "held" => /\ bitmap = [w |-> sfc.w, h |-> sfc.h]
                           /\ Area(bitmap) <= tempMem

\* When Flash draws on the main thread the flag is enough for that, sizes may
\* come at any time between lock and unlock, and no memory is misused; unless
\* Flash locked before there was a surface and the first size came then, which
\* is applied in spite of the flag (classes.c:449).
LockWorksOnMain == onMain /\ ~early => LockedBitmapValid /\ ~broken

\* The host is told to redraw (display_sync) only for the surface it was told
\* to show.
SyncsWhatIsShown == onMain /\ pc["draw"] = "sync" => shown = sfc.id

Settled ==
    Drawable(pend) => movie = pend /\ sfc.w = pend.w /\ sfc.h = pend.h

\* While Flash draws on the main thread no size waits when neither
\* set_movie_size nor Flash is at work: it was applied by whichever of the two
\* came last, and the host shows the surface or will be told at the next unlock.
\* Only until Flash's first drawing ends may the flag be left set, by an unlock
\* that found no surface.
SettledAtRest ==
    onMain /\ pc["main"] = "loop" /\ pc["draw"] = "out" =>
        /\ Settled \/ (locked /\ shown = 0)
        /\ dirty \/ shown = sfc.id

\* A size that stays pending is applied in the end, whichever way it came:
\* ignored as a repetition, before the first surface, while locked, or in
\* the gap between the comparison in unlock and locked = false.
SizeSettles == <>[](Settled \/ broken)

\* And then the host shows the surface of that size.
HostCatchesUp == <>[](onMain => shown = sfc.id)
=============================================================================
