--------------------------- MODULE SurfaceProofs ----------------------------
(***************************************************************************)
(* Theorems about Surface, for any sizes and any number of them: types,    *)
(* and, when Flash draws on the main thread, that the flag `locked' keeps  *)
(* the surface, temp and Flash's bitmap together and that the host is told *)
(* to redraw only what it shows.                                           *)
(*                                                                         *)
(* The flag works because set_movie_size and Flash take turns: a size that *)
(* comes between lock and unlock meets the flag set, so refresh_size runs  *)
(* only outside, or at the end of unlock when the buffers are done with.   *)
(* Until there is a surface the flag does not count, and the first size is *)
(* applied at once; `early' records that it met a drawing under way.       *)
(***************************************************************************)
EXTENDS Surface, TLAPS

Threads == {"main", "draw"}
HeightPcs == {"create", "dirty", "release", "make"}
PendPcs == HeightPcs \cup {"width", "height"}

\* The height that marks the variables as unset does not reach a surface, and
\* no surface has the number of none.
Heights ==
    /\ \A t \in Threads : pc[t] \in PendPcs => pend.h # -1
    /\ \A t \in Threads : pc[t] \in HeightPcs => movie.h # -1
    /\ sfc.id = 0 => sfc = NoSfc

EndPcs == {"sync", "unflag"} \cup RefreshPcs

\* On one thread: set_movie_size runs while Flash is outside of lock and
\* unlock or between them, where the flag is set and only the first surface
\* is made.  Unlock does its work only if there is a surface.
Turns ==
    /\ pc["main"] # "loop" => pc["draw"] \in {"out", "held"}
    /\ pc["main"] \in RefreshPcs => pc["draw"] = "out" \/ sfc.id = 0
    /\ \A t \in Threads : pc[t] \in {"dirty", "release", "make"} => created
    /\ ~created => sfc.id = 0
    /\ pc["draw"] = "held" => locked
    /\ pc["draw"] \in {"copy", "tell"} \cup EndPcs => sfc.id # 0

\* temp and the bitmap follow the surface.
Buffers ==
    /\ pc["draw"] # "size" => tempMem = tempSz
    /\ pc["draw"] \in {"size", "bitmap", "flag"} => tempMem = Area(sfc)
    /\ pc["draw"] = "flag" => bitmap = [w |-> sfc.w, h |-> sfc.h]
    /\ ~early =>
          /\ pc["draw"] \in {"held", "copy"} => tempMem = Area(sfc)
          /\ pc["draw"] = "held" => bitmap = [w |-> sfc.w, h |-> sfc.h]

\* A surface the host does not show is marked; the current one is given back
\* only when it is about to be replaced.
Telling ==
    /\ ~dirty => shown = sfc.id
    /\ pc["draw"] = "sync" => ~dirty
    /\ \A t \in Threads : pc[t] \in {"release", "make"} => dirty
    /\ sfc.id \in released => \E t \in Threads : pc[t] = "make"
    /\ sfc.id = 0 => shown = 0
    /\ pc["draw"] \in EndPcs => shown # 0
    /\ ~early => ~broken

SurfaceInv == TypeOK /\ Heights /\ (onMain => Turns /\ Buffers /\ Telling)
-----------------------------------------------------------------------------
(* Lemmas.                                                                 *)

\* A step of one thread moves its own pc.
LEMMA GoMoves ==
    ASSUME TypeOK, NEW t \in Threads, NEW from, NEW to, Go(t, from, to)
    PROVE  /\ pc[t] = from /\ pc'[t] = to
           /\ \A u \in Threads : u # t => pc'[u] = pc[u]
           /\ DOMAIN pc' = Threads
  BY DEF TypeOK, Go, Threads

\* Areas of surfaces are natural numbers.
LEMMA AreaNat ==
    ASSUME TypeOK
    PROVE  Area(sfc) \in Nat
<1>1. sfc.w \in Nat /\ sfc.h \in Nat
  <2>1. sfc.w \in Dims \cup {0} /\ sfc.h \in Dims \cup {0}
    BY DEF TypeOK
  <2>2. ASSUME NEW x \in Dims \cup {0} PROVE x \in Nat
    <3>1. CASE x \in Dims
      BY <3>1, DimsAssumption
    <3>2. CASE x = 0
      BY <3>2
    <3> QED
      BY <3>1, <3>2
  <2> QED
    BY <2>1, <2>2
<1>2. \A x, y \in Nat : x * y \in Nat
  OBVIOUS
<1> QED
  BY <1>1, <1>2 DEF Area

\* The initial state satisfies the invariant.
LEMMA InitSurface == Init => SurfaceInv
<1> SUFFICES ASSUME Init PROVE SurfaceInv
  OBVIOUS
<1>1. pc["main"] = "loop" /\ pc["draw"] = "out" /\ DOMAIN pc = {"main", "draw"}
      /\ \A t \in Threads : pc[t] \in {"loop", "out"}
  BY DEF Init, Threads
<1>2. TypeOK
  <2>1. NoSize \in Sizes /\ Empty \in Sizes
        /\ NoSfc \in [id : Nat, w : Dims \cup {0}, h : Dims \cup {0}] /\ NoSfc.id = 0
    BY DEF NoSize, Empty, NoSfc, Sizes
  <2>2. /\ pend \in Sizes /\ movie \in Sizes /\ bitmap \in Sizes
        /\ sfc \in [id : Nat, w : Dims \cup {0}, h : Dims \cup {0}] /\ sfc.id <= made
        /\ made \in Nat /\ tempMem \in Nat /\ tempSz \in Nat
        /\ released \subseteq 1..made /\ shown \in 0..made
    BY <2>1 DEF Init
  <2>3. onMain \in BOOLEAN /\ locked \in BOOLEAN /\ created \in BOOLEAN /\ dirty \in BOOLEAN
        /\ broken \in BOOLEAN /\ early \in BOOLEAN
    BY Zenon DEF Init
  <2>4. arg \in Dims \cup {0} /\ calls \in 0..MaxSizes
    BY DimsAssumption DEF Init
  <2> QED
    BY <1>1, <2>2, <2>3, <2>4 DEF TypeOK
<1>3. Heights
  BY <1>1 DEF Init, Heights, PendPcs, HeightPcs
<1>4. Turns /\ Buffers /\ Telling
  BY <1>1 DEF Init, Turns, Buffers, Telling, RefreshPcs, EndPcs, NoSfc
<1> QED
  BY <1>2, <1>3, <1>4 DEF SurfaceInv
-----------------------------------------------------------------------------
(* refresh_size.                                                           *)

\* A step of refresh_size, on either thread, keeps types and heights.
LEMMA RefreshTypes ==
    ASSUME SurfaceInv, NEW t \in Threads, Refresh(t)
    PROVE  TypeOK' /\ Heights'
<1> USE DEF sizeVars, tempVars, sfcVars
<1>0. TypeOK /\ Heights /\ UNCHANGED <<onMain, locked, tempMem, tempSz, bitmap, shown, arg, calls>>
  BY DEF SurfaceInv, Refresh
<1>1. ASSUME NEW from \in {"refresh"} \cup PendPcs, NEW to \in RefreshPcs \cup {Done(t)}, Go(t, from, to)
      PROVE  /\ pc'["main"] \in {"loop", "seth", "decide"} \cup RefreshPcs
             /\ pc'["draw"] \in {"out", "compare", "size", "bitmap", "flag", "held", "unlock",
                                 "copy", "tell", "sync", "late", "unflag"} \cup RefreshPcs
             /\ DOMAIN pc' = {"main", "draw"}
  BY <1>0, <1>1 DEF TypeOK, Go, Threads, Done
<1>2. CASE RefreshCheck(t)
  <2>1. Go(t, "refresh", IF Drawable(pend) THEN "width" ELSE Done(t))
        /\ UNCHANGED <<pend, movie, sfc, made, released, dirty, created, broken, early>>
    BY <1>2 DEF RefreshCheck
  <2>2. TypeOK'
    <3>1. (IF Drawable(pend) THEN "width" ELSE Done(t)) \in RefreshPcs \cup {Done(t)}
      BY DEF RefreshPcs
    <3> QED
      BY <1>0, <1>1, <2>1, <3>1 DEF TypeOK
  <2>3. Heights'
    BY <1>0, <2>1, GoMoves DEF Heights, Drawable, Done, PendPcs, HeightPcs
  <2> QED
    BY <2>2, <2>3
<1>3. CASE RefreshWidth(t) \/ RefreshHeight(t)
  <2>1. /\ Go(t, "width", "height") \/ Go(t, "height", "create")
        /\ pc'[t] = "height" => movie' = [movie EXCEPT !.w = pend.w]
        /\ pc'[t] = "create" => movie' = [movie EXCEPT !.h = pend.h]
        /\ UNCHANGED <<pend, sfc, made, released, dirty, created, broken, early>>
    <3>1. CASE RefreshWidth(t)
      <4>1. Go(t, "width", "height") /\ movie' = [movie EXCEPT !.w = pend.w]
            /\ UNCHANGED <<pend, sfc, made, released, dirty, created, broken, early>>
        BY <3>1 DEF RefreshWidth
      <4>2. pc'[t] = "height"
        BY <1>0, <4>1, GoMoves
      <4> QED
        BY <4>1, <4>2
    <3>2. CASE RefreshHeight(t)
      <4>1. Go(t, "height", "create") /\ movie' = [movie EXCEPT !.h = pend.h]
            /\ UNCHANGED <<pend, sfc, made, released, dirty, created, broken, early>>
        BY <3>2 DEF RefreshHeight
      <4>2. pc'[t] = "create"
        BY <1>0, <4>1, GoMoves
      <4> QED
        BY <4>1, <4>2
    <3> QED
      BY <1>3, <3>1, <3>2
  <2>2. TypeOK'
    <3>1. movie' \in Sizes
      <4>1. pc'[t] \in {"height", "create"}
        BY <1>0, <2>1, GoMoves
      <4> QED
        BY <1>0, <2>1, <4>1 DEF TypeOK, Sizes
    <3>2. "height" \in RefreshPcs /\ "create" \in RefreshPcs /\ "width" \in PendPcs /\ "height" \in PendPcs
      BY DEF RefreshPcs, PendPcs
    <3> QED
      BY <1>0, <1>1, <2>1, <3>1, <3>2 DEF TypeOK
  <2>3. Heights'
    <3>1. pend.h # -1
      BY <1>0, <2>1, GoMoves DEF Heights, PendPcs
    <3>2. pc'[t] = "height" => movie'.h = movie.h
      BY <1>0, <2>1 DEF TypeOK, Sizes
    <3>3. pc'[t] = "create" => movie'.h = pend.h
      BY <1>0, <2>1 DEF TypeOK, Sizes
    <3>4. pc'[t] \in {"height", "create"} /\ \A u \in Threads : u # t => pc'[u] = pc[u]
      BY <1>0, <2>1, GoMoves
    <3> QED
      BY <1>0, <2>1, <3>1, <3>2, <3>3, <3>4 DEF Heights, PendPcs, HeightPcs
  <2> QED
    BY <2>2, <2>3
<1>4. CASE RefreshCreate(t) \/ RefreshDirty(t) \/ RefreshRelease(t)
  <2>1. /\ Go(t, "create", "dirty") \/ Go(t, "dirty", "release") \/ Go(t, "release", "make")
        /\ created' \in {created, TRUE} /\ dirty' \in {dirty, TRUE}
        /\ released' \in {released, released \cup {sfc.id}}
        /\ sfc = NoSfc => released' = released
        /\ broken' = broken \/ broken' = (broken \/ sfc.id \in released)
        /\ UNCHANGED <<pend, movie, sfc, made, early>>
    BY <1>4 DEF RefreshCreate, RefreshDirty, RefreshRelease
  <2>2. TypeOK'
    <3>1. "dirty" \in RefreshPcs /\ "release" \in RefreshPcs /\ "make" \in RefreshPcs
          /\ "create" \in PendPcs /\ "dirty" \in PendPcs /\ "release" \in PendPcs
      BY DEF RefreshPcs, PendPcs, HeightPcs
    <3>2. created' \in BOOLEAN /\ dirty' \in BOOLEAN
      BY <1>0, <2>1, Zenon DEF TypeOK
    <3>3. broken' \in BOOLEAN
      BY <1>0, <2>1, Zenon DEF TypeOK
    <3>4. released' \subseteq 1..made
      BY <1>0, <2>1 DEF TypeOK, Heights
    <3> QED
      BY <1>0, <1>1, <2>1, <3>1, <3>2, <3>3, <3>4 DEF TypeOK
  <2>3. Heights'
    BY <1>0, <2>1, GoMoves DEF Heights, PendPcs, HeightPcs
  <2> QED
    BY <2>2, <2>3
<1>5. CASE RefreshMake(t)
  <2>1. /\ Go(t, "make", Done(t)) /\ made' = made + 1
        /\ sfc' = [id |-> made + 1, w |-> movie.w, h |-> movie.h]
        /\ UNCHANGED <<pend, movie, released, dirty, created, broken>>
    BY <1>5 DEF RefreshMake
  <2>0. early' \in BOOLEAN
    BY <1>0, <1>5, Zenon DEF RefreshMake, TypeOK
  <2>2. movie.h # -1
    BY <1>0, <2>1, GoMoves DEF Heights, HeightPcs
  <2>3. made \in Nat /\ movie.w \in Dims \cup {0} /\ movie.h \in Dims \cup {0}
    BY <1>0, <2>2 DEF TypeOK, Sizes
  <2>4. TypeOK'
    <3>1. sfc' \in [id : Nat, w : Dims \cup {0}, h : Dims \cup {0}] /\ sfc'.id <= made'
      BY <2>1, <2>3
    <3>2. released' \subseteq 1..made' /\ shown' \in 0..made'
      BY <1>0, <2>1, <2>3 DEF TypeOK
    <3>3. "make" \in PendPcs
      BY DEF PendPcs, HeightPcs
    <3> QED
      BY <1>0, <1>1, <2>0, <2>1, <2>3, <3>1, <3>2, <3>3 DEF TypeOK
  <2>5. Heights'
    <3>1. sfc'.id # 0
      BY <2>1, <2>3
    <3>2. Done(t) \notin PendPcs
      BY DEF Done, PendPcs, HeightPcs
    <3> QED
      BY <1>0, <2>1, <3>1, <3>2, GoMoves DEF Heights, PendPcs, HeightPcs
  <2> QED
    BY <2>4, <2>5
<1> QED
  BY <1>2, <1>3, <1>4, <1>5 DEF Refresh

\* On one thread, refresh_size runs outside of lock and unlock or at the end
\* of unlock: nobody holds the surface it replaces.
LEMMA RefreshAlone ==
    ASSUME SurfaceInv, onMain, NEW t \in Threads, t = "draw" => DrawFree, Refresh(t)
    PROVE  Turns' /\ Buffers' /\ Telling'
<1> USE DEF sizeVars, tempVars, sfcVars
<1>0. /\ TypeOK /\ Turns /\ Buffers /\ Telling /\ Heights
      /\ UNCHANGED <<onMain, locked, tempMem, tempSz, bitmap, shown>>
  BY DEF SurfaceInv, Refresh
<1>1. PICK from \in RefreshPcs, to \in RefreshPcs \cup {Done(t)} : Go(t, from, to)
  BY DEF Refresh, RefreshCheck, RefreshWidth, RefreshHeight, RefreshCreate, RefreshDirty,
         RefreshRelease, RefreshMake, RefreshPcs
<1>2. pc[t] = from /\ pc'[t] = to /\ \A u \in Threads : u # t => pc'[u] = pc[u]
  BY <1>0, <1>1, GoMoves
<1>3. /\ pc'["main"] # "loop" => pc'["draw"] \in {"out", "held"}
      /\ t = "main" => pc["draw"] = "out" \/ (pc["draw"] = "held" /\ sfc.id = 0)
      /\ t = "draw" => pc["main"] = "loop" /\ sfc.id # 0 /\ shown # 0
  BY <1>0, <1>1, <1>2 DEF Turns, Telling, DrawFree, Threads, EndPcs, RefreshPcs
<1>4. sfc' = sfc \/ (RefreshMake(t) /\ sfc'.id = made + 1 /\ sfc'.id # 0)
  <2>1. made \in Nat
    BY <1>0 DEF TypeOK
  <2> QED
    BY <2>1 DEF Refresh, RefreshCheck, RefreshWidth, RefreshHeight, RefreshCreate, RefreshDirty,
                RefreshRelease, RefreshMake
<1>5. pc'["draw"] \in {"out", "held", "unflag"} \cup RefreshPcs
  BY <1>1, <1>2, <1>3 DEF Threads, Done, RefreshPcs
<1>6. pc["draw"] # "size" /\ tempMem = tempSz
  BY <1>0, <1>1, <1>2, <1>3 DEF Buffers, Threads, RefreshPcs
<1>7. Turns'
  <2>1. /\ created' \in {created, TRUE}
        /\ \A u \in Threads : pc'[u] \in {"dirty", "release", "make"} => created'
    <3>1. CASE RefreshCreate(t)
      BY <3>1 DEF RefreshCreate
    <3>2. CASE ~RefreshCreate(t)
      <4>1. /\ created' = created
            /\ pc'[t] \in {"dirty", "release", "make"} => pc[t] \in {"dirty", "release", "make"}
        BY <1>0, <3>2, GoMoves DEF Refresh, RefreshCheck, RefreshWidth, RefreshHeight, RefreshDirty,
                        RefreshRelease, RefreshMake, Done
      <4> QED
        BY <1>0, <1>2, <4>1 DEF Turns
    <3> QED
      BY <3>1, <3>2
  <2>2. RefreshMake(t) => created /\ pc'[t] = Done(t)
    BY <1>0, GoMoves DEF RefreshMake, Turns
  <2>3. pc'["main"] \in RefreshPcs => pc'["draw"] = "out" \/ sfc'.id = 0
    <3>1. CASE t = "main"
      BY <1>2, <1>3, <1>4, <2>2, <3>1 DEF Threads, Done, RefreshPcs
    <3>2. CASE t = "draw"
      BY <1>2, <1>3, <3>2 DEF Threads, RefreshPcs
    <3> QED
      BY <3>1, <3>2 DEF Threads
  <2>4. ~created' => sfc'.id = 0
    <3>1. CASE created
      BY <2>1, <3>1
    <3>2. CASE ~created
      <4>1. sfc' = sfc /\ sfc.id = 0
        BY <1>0, <1>4, <2>2, <3>2 DEF Turns
      <4> QED
        BY <4>1
    <3> QED
      BY <3>1, <3>2
  <2>5. pc'["draw"] = "held" => locked'
    BY <1>0, <1>1, <1>2, <1>3, <1>5 DEF Turns, Threads, Done, RefreshPcs
  <2>6. pc'["draw"] \in {"copy", "tell"} \cup EndPcs => sfc'.id # 0
    BY <1>0, <1>2, <1>3, <1>4 DEF Turns, Threads, EndPcs, RefreshPcs
  <2> QED
    BY <1>3, <2>1, <2>3, <2>4, <2>5, <2>6 DEF Turns
<1>8. Buffers'
  <2>1. CASE pc'["draw"] # "held"
    BY <1>0, <1>5, <1>6, <2>1 DEF Buffers, RefreshPcs
  <2>2. CASE pc'["draw"] = "held"
    <3>1. t = "main" /\ pc["draw"] = "held" /\ sfc = NoSfc
      BY <1>0, <1>1, <1>2, <1>3, <2>2 DEF Threads, Done, RefreshPcs, Heights
    <3>2. CASE RefreshMake(t)
      <4>1. early'
        BY <3>1, <3>2 DEF RefreshMake
      <4> QED
        BY <1>0, <1>6, <2>2, <4>1 DEF Buffers
    <3>3. CASE ~RefreshMake(t)
      <4>1. sfc' = sfc /\ early' = early
        BY <3>3 DEF Refresh, RefreshCheck, RefreshWidth, RefreshHeight, RefreshCreate, RefreshDirty,
                    RefreshRelease
      <4> QED
        BY <1>0, <1>6, <2>2, <3>1, <4>1 DEF Buffers, Area
    <3> QED
      BY <3>2, <3>3
  <2> QED
    BY <2>1, <2>2
<1>9. \A u \in Threads : u # t => pc[u] \notin {"release", "make"} /\ pc'[u] \notin {"release", "make"}
  BY <1>0, <1>1, <1>2, <1>3 DEF Turns, Threads
<1>10. sfc.id = 0 => sfc.id \notin released
  BY <1>0 DEF TypeOK
<1>11. Telling'
  <2>0. /\ sfc'.id = 0 => shown' = 0
        /\ pc'["draw"] \in EndPcs => shown' # 0
        /\ ~early' => ~early /\ ~broken
        /\ pc'["draw"] # "sync"
    <3>1. ~early' => ~early
      BY DEF Refresh, RefreshCheck, RefreshWidth, RefreshHeight, RefreshCreate, RefreshDirty,
             RefreshRelease, RefreshMake
    <3>2. pc'["draw"] \in EndPcs => t = "draw"
      BY <1>2, <1>3 DEF Threads, EndPcs, RefreshPcs
    <3>3. pc'["draw"] # "sync"
      BY <1>5 DEF RefreshPcs
    <3> QED
      BY <1>0, <1>3, <1>4, <3>1, <3>2, <3>3 DEF Telling
  <2>1. CASE RefreshCheck(t) \/ RefreshWidth(t) \/ RefreshHeight(t) \/ RefreshCreate(t)
    <3>1. /\ UNCHANGED <<dirty, sfc, released, broken>>
          /\ pc[t] \notin {"release", "make"} /\ pc'[t] \notin {"release", "make"}
      BY <1>0, <2>1, GoMoves DEF RefreshCheck, RefreshWidth, RefreshHeight, RefreshCreate, Done
    <3> QED
      BY <1>0, <1>9, <2>0, <3>1 DEF Telling
  <2>2. CASE RefreshDirty(t)
    <3>1. /\ UNCHANGED <<sfc, released, broken>> /\ dirty'
          /\ pc[t] = "dirty" /\ pc'[t] = "release"
      BY <1>0, <2>2, GoMoves DEF RefreshDirty
    <3> QED
      BY <1>0, <1>9, <2>0, <3>1 DEF Telling
  <2>3. CASE RefreshRelease(t)
    <3>1. /\ UNCHANGED <<sfc, dirty>> /\ broken' = (broken \/ sfc.id \in released)
          /\ pc[t] = "release" /\ pc'[t] = "make"
      BY <1>0, <2>3, GoMoves DEF RefreshRelease
    <3>2. dirty /\ sfc.id \notin released
      BY <1>0, <1>9, <3>1 DEF Telling
    <3> QED
      BY <1>0, <2>0, <3>1, <3>2 DEF Telling
  <2>4. CASE RefreshMake(t)
    <3>1. /\ UNCHANGED <<released, dirty, broken>> /\ sfc'.id = made + 1
          /\ pc[t] = "make" /\ pc'[t] = Done(t)
      BY <1>0, <2>4, GoMoves DEF RefreshMake
    <3>2. dirty
      BY <1>0, <3>1 DEF Telling
    <3>3. sfc'.id \notin released
      BY <1>0, <3>1 DEF TypeOK
    <3> QED
      BY <1>9, <2>0, <3>1, <3>2, <3>3 DEF Telling
  <2> QED
    BY <2>1, <2>2, <2>3, <2>4 DEF Refresh
<1> QED
  BY <1>7, <1>8, <1>11
-----------------------------------------------------------------------------
(* set_movie_size.                                                         *)

\* set_movie_size stores its size; it decides to refresh only when Flash is
\* outside, or has not been told of a surface.
LEMMA SizeSteps ==
    ASSUME SurfaceInv, (\E w, h \in Dims : SetMovieSize(w, h)) \/ SetHeight \/ Decide
    PROVE  SurfaceInv'
<1> USE DEF sizeVars, tempVars, sfcVars
<1>0. TypeOK /\ Heights
  BY DEF SurfaceInv
<1>1. PICK from \in {"loop", "seth", "decide"}, to \in {"loop", "seth", "decide", "refresh"} :
        /\ Go("main", from, to)
        /\ from = "loop" => MainFree
        /\ to = "refresh" => ~(created /\ locked)
        /\ from # "loop" => to # "seth"
  BY DEF SetMovieSize, SetHeight, Decide
<1>2. /\ pc["main"] = from /\ pc'["main"] = to /\ pc'["draw"] = pc["draw"]
      /\ DOMAIN pc' = {"main", "draw"}
  BY <1>0, <1>1, GoMoves DEF Threads
<1>3. UNCHANGED <<onMain, movie, locked, sfc, made, released, dirty, created, tempMem, tempSz,
                  bitmap, shown, broken, early>>
  BY DEF SetMovieSize, SetHeight, Decide
<1>4. /\ pend' \in Sizes /\ arg' \in Dims \cup {0} /\ calls' \in 0..MaxSizes
      /\ pend.h # -1 => pend'.h # -1
  <2>1. ASSUME NEW w \in Dims, NEW h \in Dims, SetMovieSize(w, h)
        PROVE  /\ pend' \in Sizes /\ arg' \in Dims \cup {0} /\ calls' \in 0..MaxSizes
               /\ pend.h # -1 => pend'.h # -1
    BY <1>0, <2>1, DimsAssumption DEF SetMovieSize, TypeOK, Sizes
  <2>2. CASE SetHeight
    <3>1. pend' = [pend EXCEPT !.h = arg] /\ arg' = 0 /\ calls' = calls /\ arg \in Dims \cup {0}
      BY <1>0, <2>2 DEF SetHeight, TypeOK
    <3>2. arg # -1
      BY <3>1, DimsAssumption
    <3>3. pend' \in Sizes /\ pend'.h = arg
      BY <1>0, <3>1 DEF TypeOK, Sizes
    <3> QED
      BY <1>0, <3>1, <3>2, <3>3 DEF TypeOK
  <2>3. CASE Decide
    BY <1>0, <2>3 DEF Decide, TypeOK
  <2> QED
    BY <2>1, <2>2, <2>3
<1>5. TypeOK'
  BY <1>0, <1>1, <1>2, <1>3, <1>4 DEF TypeOK, RefreshPcs
<1>6. Heights'
  BY <1>0, <1>1, <1>2, <1>3, <1>4 DEF Heights, Threads, PendPcs, HeightPcs
<1>7. ASSUME onMain PROVE Turns' /\ Buffers' /\ Telling'
  <2>1. Turns /\ Buffers /\ Telling
    BY <1>7 DEF SurfaceInv
  <2>2. Turns'
    <3>1. \A t \in Threads : pc'[t] \in {"dirty", "release", "make"} => created
      BY <1>1, <1>2, <2>1 DEF Turns, Threads
    <3>2. pc'["draw"] \in {"out", "held"}
      BY <1>1, <1>2, <1>7, <2>1 DEF Turns, MainFree
    <3>3. pc'["main"] \in RefreshPcs => pc'["draw"] = "out" \/ sfc.id = 0
      BY <1>1, <1>2, <2>1, <3>2 DEF Turns, RefreshPcs
    <3> QED
      BY <1>2, <1>3, <2>1, <3>1, <3>2, <3>3 DEF Turns
  <2>3. Buffers'
    BY <1>2, <1>3, <2>1 DEF Buffers
  <2>4. Telling'
    BY <1>1, <1>2, <1>3, <2>1 DEF Telling, Threads
  <2> QED
    BY <2>2, <2>3, <2>4
<1> QED
  BY <1>3, <1>5, <1>6, <1>7 DEF SurfaceInv
-----------------------------------------------------------------------------
(* Flash's drawing.                                                        *)

\* The steps of lock and unlock keep the surface, temp and the bitmap
\* together.
LEMMA DrawSteps ==
    ASSUME SurfaceInv,
           \/ Lock \/ LockTemp \/ LockTempSize \/ LockBitmap \/ LockFlag
           \/ Unlock \/ UnlockCopy \/ UnlockTell \/ UnlockSync \/ UnlockFlag
    PROVE  SurfaceInv'
<1> USE DEF tempVars
<1>0. TypeOK /\ Heights /\ Area(sfc) \in Nat
  BY AreaNat DEF SurfaceInv
<1>1. PICK from \in {"out", "compare", "size", "bitmap", "flag", "held", "copy", "tell", "sync", "unflag"},
           to \in {"out", "compare", "size", "bitmap", "flag", "held", "copy", "tell", "sync", "unflag",
                   "refresh"} : Draws(from, to)
  BY DEF Lock, LockTemp, LockTempSize, LockBitmap, LockFlag, Unlock, UnlockCopy, UnlockTell,
         UnlockSync, UnlockFlag
<1>2. /\ pc["draw"] = from /\ pc'["draw"] = to /\ pc'["main"] = pc["main"]
      /\ DOMAIN pc' = {"main", "draw"}
      /\ UNCHANGED <<onMain, pend, movie, made, released, created, arg, calls, early>>
      /\ onMain => pc["main"] = "loop"
  BY <1>0, <1>1, GoMoves DEF Draws, DrawFree, Threads
<1>3. sfc' = sfc
  BY DEF Lock, LockTemp, LockTempSize, LockBitmap, LockFlag, Unlock, UnlockCopy, UnlockTell,
         UnlockSync, UnlockFlag
<1>4. TypeOK'
  <2>1. tempMem' \in Nat /\ tempSz' \in Nat
    BY <1>0 DEF Lock, LockTemp, LockTempSize, LockBitmap, LockFlag, Unlock, UnlockCopy, UnlockTell,
                UnlockSync, UnlockFlag, TypeOK
  <2>2. bitmap' \in Sizes
    <3>1. [w |-> sfc.w, h |-> sfc.h] \in Sizes
      BY <1>0 DEF TypeOK, Sizes
    <3> QED
      BY <1>0, <3>1 DEF Lock, LockTemp, LockTempSize, LockBitmap, LockFlag, Unlock, UnlockCopy, UnlockTell,
                UnlockSync, UnlockFlag, TypeOK
  <2>3. locked' \in BOOLEAN /\ dirty' \in BOOLEAN
    BY <1>0, Zenon DEF Lock, LockTemp, LockTempSize, LockBitmap, LockFlag, Unlock, UnlockCopy, UnlockTell,
                UnlockSync, UnlockFlag, TypeOK
  <2>4. broken' \in BOOLEAN
    BY <1>0, Zenon DEF Lock, LockTemp, LockTempSize, LockBitmap, LockFlag, Unlock, UnlockCopy, UnlockTell,
                UnlockSync, UnlockFlag, TypeOK
  <2>5. shown' \in 0..made
    BY <1>0 DEF Lock, LockTemp, LockTempSize, LockBitmap, LockFlag, Unlock, UnlockCopy, UnlockTell,
                UnlockSync, UnlockFlag, TypeOK
  <2> QED
    BY <1>0, <1>2, <1>3, <2>1, <2>2, <2>3, <2>4, <2>5 DEF TypeOK, RefreshPcs
<1>5. Heights'
  BY <1>0, <1>2, <1>3 DEF Heights, Threads, PendPcs, HeightPcs
<1>6. ASSUME onMain PROVE Turns' /\ Buffers' /\ Telling'
  <2>1. Turns /\ Buffers /\ Telling /\ pc["main"] = "loop" /\ pc'["main"] = "loop"
    BY <1>2, <1>6 DEF SurfaceInv
  <2>2. Turns'
    <3>1. pc'["draw"] = "held" => locked'
      BY <1>0, <1>2, <2>1, GoMoves DEF Lock, LockTemp, LockTempSize, LockBitmap, LockFlag,
             Unlock, UnlockCopy, UnlockTell, UnlockSync, UnlockFlag, Draws, Go, Threads
    <3>2. pc'["draw"] \in {"copy", "tell"} \cup EndPcs => sfc'.id # 0
      <4>1. CASE Unlock
        BY <1>0, <1>2, <1>3, <4>1, GoMoves DEF Unlock, Draws, Threads, Heights, EndPcs, RefreshPcs
      <4>2. CASE ~Unlock
        <5>1. pc'["draw"] \in {"copy", "tell"} \cup EndPcs => pc["draw"] \in {"copy", "tell"} \cup EndPcs
          BY <1>0, <1>2, <4>2, GoMoves DEF Lock, LockTemp, LockTempSize, LockBitmap, LockFlag,
             UnlockCopy, UnlockTell, UnlockSync, UnlockFlag, Draws, Go, Threads, EndPcs, RefreshPcs
        <5> QED
          BY <1>3, <2>1, <5>1 DEF Turns
      <4> QED
        BY <4>1, <4>2
    <3>3. \A t \in Threads : pc'[t] \notin {"dirty", "release", "make"}
      BY <1>1, <1>2, <2>1 DEF Threads
    <3> QED
      BY <1>2, <1>3, <2>1, <3>1, <3>2, <3>3 DEF Turns, RefreshPcs
  <2>3. Buffers'
    <3>1. CASE Lock \/ LockFlag \/ UnlockCopy \/ UnlockTell \/ UnlockSync \/ UnlockFlag
      BY <1>2, <1>3, <2>1, <3>1 DEF Buffers, Lock, LockFlag, UnlockCopy, UnlockTell, UnlockSync,
             UnlockFlag, Draws, Go
    <3>2. CASE Unlock
      BY <1>2, <1>3, <2>1, <3>2 DEF Buffers, Unlock, Draws, Go
    <3>3. CASE LockTemp
      <4>1. /\ tempMem' = IF tempSz = Area(sfc) THEN tempMem ELSE Area(sfc)
            /\ pc["draw"] = "compare" /\ tempSz' = tempSz
            /\ pc'["draw"] = IF tempSz = Area(sfc) THEN "bitmap" ELSE "size"
        BY <1>0, <1>2, <3>3, GoMoves DEF LockTemp, Draws, Threads
      <4>2. tempMem = tempSz
        BY <2>1, <4>1 DEF Buffers
      <4>3. Area(sfc') = Area(sfc) /\ tempMem' = Area(sfc)
        BY <1>3, <4>1, <4>2
      <4> QED
        BY <4>1, <4>2, <4>3 DEF Buffers
    <3>4. CASE LockTempSize
      BY <1>2, <1>3, <2>1, <3>4 DEF Buffers, LockTempSize, Draws, Go
    <3>5. CASE LockBitmap
      BY <1>2, <1>3, <2>1, <3>5 DEF Buffers, LockBitmap, Draws, Go
    <3> QED
      BY <3>1, <3>2, <3>3, <3>4, <3>5
  <2>4. sfc.id \notin released
    BY <1>1, <1>2, <2>1 DEF Telling, Threads
  <2>5. ~early' => ~broken'
    <3> SUFFICES ASSUME ~early PROVE ~broken'
      BY <1>2
    <3>1. CASE Unlock
      <4>1. Area(bitmap) = tempMem
        BY <1>2, <2>1, <3>1 DEF Buffers, Area, Unlock, Draws, Go
      <4> QED
        BY <1>0, <2>1, <3>1, <4>1 DEF Unlock, Telling, TypeOK
    <3>2. CASE UnlockCopy
      <4>1. Area(sfc) = tempMem
        BY <1>2, <2>1, <3>2 DEF Buffers, UnlockCopy, Draws, Go
      <4>2. ~(Area(sfc) > tempMem)
        BY <1>0, <4>1
      <4> QED
        BY <1>0, <2>1, <2>4, <3>2, <4>2 DEF UnlockCopy, Telling, TypeOK
    <3> QED
      BY <2>1, <3>1, <3>2 DEF Lock, LockTemp, LockTempSize, LockBitmap, LockFlag, UnlockTell,
             UnlockSync, UnlockFlag, Telling
  <2>6. Telling'
    <3>1. CASE UnlockTell
      <4>1. sfc.id # 0 /\ dirty' = FALSE /\ shown' = IF dirty THEN sfc.id ELSE shown
        BY <1>0, <2>1, <3>1, GoMoves DEF UnlockTell, Draws, Turns, Threads
      <4>2. shown' = sfc.id
        BY <2>1, <4>1 DEF Telling
      <4> QED
        BY <1>1, <1>2, <1>3, <2>1, <2>4, <2>5, <4>1, <4>2 DEF Telling, Threads
    <3>2. CASE ~UnlockTell
      <4>1. dirty' = dirty /\ shown' = shown /\ to # "sync" /\ (to \in EndPcs => from \in EndPcs)
        BY <1>0, <1>2, <3>2, GoMoves DEF Threads, EndPcs, RefreshPcs, Draws, Lock, LockTemp, LockTempSize, LockBitmap, LockFlag, Unlock, UnlockCopy,
                    UnlockSync, UnlockFlag
      <4> QED
        BY <1>1, <1>2, <1>3, <2>1, <2>4, <2>5, <4>1 DEF Telling, Threads
    <3> QED
      BY <3>1, <3>2
  <2> QED
    BY <2>2, <2>3, <2>6
<1> QED
  BY <1>2, <1>4, <1>5, <1>6 DEF SurfaceInv
-----------------------------------------------------------------------------
(* The theorems.                                                           *)

\* The conjunction is inductive: types, heights, and on one thread turns,
\* buffers and what the host was told hold in every reachable state.
THEOREM SurfaceInvariant == Spec => []SurfaceInv
<1>1. SurfaceInv /\ [Next]_vars => SurfaceInv'
  <2> SUFFICES ASSUME SurfaceInv, [Next]_vars PROVE SurfaceInv'
    OBVIOUS
  <2>1. ASSUME NEW t \in Threads, t = "draw" => DrawFree, Refresh(t) PROVE SurfaceInv'
    <3>1. TypeOK' /\ Heights' /\ onMain' = onMain
      BY <2>1, RefreshTypes DEF Refresh
    <3> QED
      BY <2>1, <3>1, RefreshAlone DEF SurfaceInv
  <2>2. CASE UNCHANGED vars
    BY <2>2 DEF vars, sizeVars, sfcVars, tempVars, SurfaceInv, TypeOK, Heights, Turns, Buffers, Telling
  <2>3. "main" \in Threads /\ "draw" \in Threads
    BY DEF Threads
  <2> QED
    BY <2>1, <2>2, <2>3, SizeSteps, DrawSteps DEF Next, Main, Draw
<1> QED
  BY <1>1, InitSurface, PTL DEF Spec

\* Sizes, surfaces and the two threads keep their types; in particular the
\* unset height never reaches a surface (anp.cpp:1127-1203, classes.c:356-451).
THEOREM SurfaceTypes == Spec => []TypeOK
<1>1. SurfaceInv => TypeOK
  BY DEF SurfaceInv
<1> QED
  BY <1>1, SurfaceInvariant, PTL

\* When Flash draws on the main thread, between lock and unlock its bitmap
\* has the size of the surface and fits temp, and neither unlock nor
\* refresh_size misuses memory, unless the first surface was made while Flash
\* drew without one (anp.cpp:1127-1203, classes.c:356-451).
THEOREM LockWorks == Spec => []LockWorksOnMain
<1>1. SurfaceInv => LockWorksOnMain
  <2> SUFFICES ASSUME SurfaceInv, onMain, ~early PROVE LockedBitmapValid /\ ~broken
    BY DEF LockWorksOnMain
  <2>1. Buffers /\ Telling /\ Area(sfc) \in Nat
    BY AreaNat DEF SurfaceInv
  <2>2. ASSUME pc["draw"] = "held"
        PROVE  bitmap = [w |-> sfc.w, h |-> sfc.h] /\ Area(bitmap) <= tempMem
    <3>1. bitmap = [w |-> sfc.w, h |-> sfc.h] /\ tempMem = Area(sfc)
      BY <2>1, <2>2 DEF Buffers
    <3>2. Area(bitmap) = Area(sfc)
      BY <3>1 DEF Area
    <3> QED
      BY <2>1, <3>1, <3>2
  <2> QED
    BY <2>1, <2>2 DEF LockedBitmapValid, Telling
<1> QED
  BY <1>1, SurfaceInvariant, PTL

\* When Flash draws on the main thread, display_sync is sent only for the
\* surface that use_surface named last (anp.cpp:1178-1198).
THEOREM SyncsShown == Spec => []SyncsWhatIsShown
<1>1. SurfaceInv => SyncsWhatIsShown
  BY DEF SurfaceInv, Telling, SyncsWhatIsShown
<1> QED
  BY <1>1, SurfaceInvariant, PTL
-----------------------------------------------------------------------------
(* No size waits while both are idle.                                      *)

\* The movie's size follows the pending one while refresh_size runs; outside
\* of it a surface that was created exists and has the movie's size.
Following ==
    /\ \A t \in Threads : pc[t] = "height" => movie.w = pend.w
    /\ \A t \in Threads : pc[t] \in HeightPcs => movie = pend
    /\ (\A t \in Threads : pc[t] \notin HeightPcs \cup {"height"}) =>
          /\ created => sfc.id # 0
          /\ sfc.id # 0 => sfc.w = movie.w /\ sfc.h = movie.h

\* Flash's first drawing found no surface, and left the flag set.
Stuck == locked /\ shown = 0

\* A size may wait only between lock and the comparison in unlock, where the
\* flag is set, or while it is stuck.
Quiet ==
    /\ pc["main"] = "loop"
       /\ pc["draw"] \in {"out", "compare", "size", "bitmap", "flag", "unflag"} => Settled \/ Stuck
    /\ pc["draw"] = "out" => ~locked \/ Stuck

\* A step of refresh_size: it ends with a surface of the pending size, or
\* with a pending size that is not applied.
LEMMA RefreshFollows ==
    ASSUME SurfaceInv, onMain, Following, Quiet,
           NEW t \in Threads, t = "draw" => DrawFree, Refresh(t)
    PROVE  Following' /\ Quiet'
<1> USE DEF sizeVars, tempVars, sfcVars
<1>0. TypeOK /\ Turns /\ UNCHANGED <<locked, shown>> /\ pend' = pend
  BY DEF SurfaceInv, Refresh, RefreshCheck, RefreshWidth, RefreshHeight, RefreshCreate,
         RefreshDirty, RefreshRelease, RefreshMake
<1>1. PICK from \in RefreshPcs, to \in RefreshPcs \cup {Done(t)} : Go(t, from, to)
  BY DEF Refresh, RefreshCheck, RefreshWidth, RefreshHeight, RefreshCreate, RefreshDirty,
         RefreshRelease, RefreshMake, RefreshPcs
<1>2. pc[t] = from /\ pc'[t] = to /\ \A u \in Threads : u # t => pc'[u] = pc[u]
  BY <1>0, <1>1, GoMoves
<1>3. \A u \in Threads : u # t => pc[u] \in {"loop", "out", "held"} /\ pc'[u] \in {"loop", "out", "held"}
  BY <1>0, <1>1, <1>2 DEF Turns, DrawFree, Threads, RefreshPcs
<1>4. pc'["draw"] = "out" => pc["draw"] = "out"
  BY <1>1, <1>2 DEF Threads, Done, RefreshPcs
<1>5. movie \in Sizes /\ pend \in Sizes
  BY <1>0 DEF TypeOK
<1>6. CASE RefreshCheck(t)
  <2>1. /\ UNCHANGED <<movie, sfc, created>>
        /\ pc[t] = "refresh" /\ pc'[t] = IF Drawable(pend) THEN "width" ELSE Done(t)
    BY <1>0, <1>6, GoMoves DEF RefreshCheck
  <2>2. Following'
    BY <1>0, <1>3, <2>1 DEF Following, HeightPcs, Done
  <2>3. Quiet'
    BY <1>0, <1>3, <1>4, <2>1 DEF Quiet, Stuck, Settled, Threads, Drawable
  <2> QED
    BY <2>2, <2>3
<1>7. CASE RefreshWidth(t)
  <2>1. /\ pc[t] = "width" /\ pc'[t] = "height" /\ movie' = [movie EXCEPT !.w = pend.w]
    BY <1>0, <1>7, GoMoves DEF RefreshWidth
  <2>2. Following'
    BY <1>0, <1>3, <1>5, <2>1 DEF Following, HeightPcs, Sizes
  <2>3. Quiet'
    BY <1>0, <1>4, <2>1 DEF Quiet, Stuck, Threads
  <2> QED
    BY <2>2, <2>3
<1>8. CASE RefreshHeight(t)
  <2>1. pc[t] = "height" /\ pc'[t] = "create" /\ movie' = [movie EXCEPT !.h = pend.h]
    BY <1>0, <1>8, GoMoves DEF RefreshHeight
  <2>2. movie.w = pend.w
    BY <2>1 DEF Following
  <2>3. movie' = pend
    BY <1>5, <2>1, <2>2 DEF Sizes
  <2>4. Following'
    BY <1>0, <1>3, <2>1, <2>3 DEF Following, HeightPcs
  <2>5. Quiet'
    BY <1>0, <1>4, <2>1 DEF Quiet, Stuck, Threads
  <2> QED
    BY <2>4, <2>5
<1>9. CASE RefreshCreate(t) \/ RefreshDirty(t) \/ RefreshRelease(t)
  <2>1. pc[t] \in HeightPcs /\ pc'[t] \in HeightPcs /\ movie' = movie
    BY <1>0, <1>9, GoMoves DEF RefreshCreate, RefreshDirty, RefreshRelease, HeightPcs
  <2>2. Following'
    BY <1>0, <1>3, <2>1 DEF Following, HeightPcs
  <2>3. Quiet'
    BY <1>0, <1>4, <2>1 DEF Quiet, Stuck, Threads, HeightPcs
  <2> QED
    BY <2>2, <2>3
<1>10. CASE RefreshMake(t)
  <2>1. /\ pc[t] = "make" /\ pc'[t] = Done(t) /\ movie' = movie
        /\ sfc' = [id |-> made + 1, w |-> movie.w, h |-> movie.h]
    BY <1>0, <1>10, GoMoves DEF RefreshMake
  <2>2. movie = pend /\ sfc'.id # 0 /\ sfc'.w = movie.w /\ sfc'.h = movie.h
    BY <1>0, <2>1 DEF Following, HeightPcs, TypeOK
  <2>3. Following'
    BY <1>0, <1>3, <2>1, <2>2 DEF Following, HeightPcs, Done
  <2>4. Quiet'
    BY <1>0, <1>4, <2>1, <2>2 DEF Quiet, Stuck, Settled
  <2> QED
    BY <2>3, <2>4
<1> QED
  BY <1>6, <1>7, <1>8, <1>9, <1>10 DEF Refresh

\* set_movie_size: outside of lock and unlock a new size is followed by
\* refresh_size, and between them nothing is promised.
LEMMA SizesFollow ==
    ASSUME SurfaceInv, onMain, Following, Quiet,
           (\E w, h \in Dims : SetMovieSize(w, h)) \/ SetHeight \/ Decide
    PROVE  Following' /\ Quiet'
<1> USE DEF sizeVars, tempVars, sfcVars
<1>0. TypeOK /\ Turns
  BY DEF SurfaceInv
<1>1. UNCHANGED <<movie, locked, sfc, created, shown>>
  BY DEF SetMovieSize, SetHeight, Decide
<1>2. /\ pc["main"] \in {"loop", "seth", "decide"}
      /\ pc'["main"] \in {"loop", "seth", "decide", "refresh"}
      /\ pc'["draw"] = pc["draw"] /\ pc["draw"] \in {"out", "held"}
  <2>1. CASE \E w, h \in Dims : SetMovieSize(w, h)
    <3>1. PICK w \in Dims, h \in Dims : SetMovieSize(w, h)
      BY <2>1
    <3>2. PICK to \in {"loop", "seth"} : Go("main", "loop", to)
      BY <3>1 DEF SetMovieSize
    <3>3. pc["main"] = "loop" /\ pc'["main"] = to /\ pc'["draw"] = pc["draw"]
      BY <1>0, <3>2, GoMoves DEF Threads
    <3>4. pc["draw"] \in {"out", "held"}
      BY <3>1 DEF SetMovieSize, MainFree
    <3> QED
      BY <3>3, <3>4
  <2>2. CASE SetHeight \/ Decide
    <3>1. PICK from \in {"seth", "decide"}, to \in {"loop", "decide", "refresh"} : Go("main", from, to)
      BY <2>2 DEF SetHeight, Decide
    <3>2. pc["main"] = from /\ pc'["main"] = to /\ pc'["draw"] = pc["draw"]
      BY <1>0, <3>1, GoMoves DEF Threads
    <3> QED
      BY <1>0, <3>2 DEF Turns
  <2> QED
    BY <2>1, <2>2
<1>3. Following'
  BY <1>1, <1>2 DEF Following, Threads, HeightPcs
<1>4. Quiet'
  <2>1. CASE \E w, h \in Dims : SetMovieSize(w, h)
    <3>1. PICK w \in Dims, h \in Dims : SetMovieSize(w, h)
      BY <2>1
    <3>2. pend = [w |-> w, h |-> h] => pend' = pend
      BY <3>1 DEF SetMovieSize
    <3>3. pc["main"] = "loop" /\ (pend # [w |-> w, h |-> h] => pc'["main"] = "seth")
      BY <1>0, <3>1, GoMoves DEF SetMovieSize, Threads
    <3> QED
      BY <1>1, <1>2, <3>2, <3>3 DEF Quiet, Stuck, Settled
  <2>2. CASE SetHeight
    <3>1. pc'["main"] = "decide"
      BY <1>0, <2>2, GoMoves DEF SetHeight, Threads
    <3> QED
      BY <1>1, <1>2, <3>1 DEF Quiet, Stuck
  <2>3. CASE Decide
    <3>1. (created /\ locked) \/ pc'["main"] = "refresh"
      BY <1>0, <2>3, GoMoves DEF Decide, Threads
    <3> QED
      BY <1>1, <1>2, <3>1 DEF Quiet, Stuck
  <2> QED
    BY <2>1, <2>2, <2>3
<1> QED
  BY <1>3, <1>4

\* Flash's drawing: unlock finds a size that came between, or there is none.
LEMMA DrawFollows ==
    ASSUME SurfaceInv, onMain, Following, Quiet,
           \/ Lock \/ LockTemp \/ LockTempSize \/ LockBitmap \/ LockFlag
           \/ Unlock \/ UnlockCopy \/ UnlockTell \/ UnlockSync \/ UnlockFlag
    PROVE  Following' /\ Quiet'
<1> USE DEF tempVars
<1>0. TypeOK /\ Turns
  BY DEF SurfaceInv
<1>1. PICK from \in {"out", "compare", "size", "bitmap", "flag", "held", "copy", "tell", "sync", "unflag"},
           to \in {"out", "compare", "size", "bitmap", "flag", "held", "copy", "tell", "sync", "unflag",
                   "refresh"} : Draws(from, to)
  BY DEF Lock, LockTemp, LockTempSize, LockBitmap, LockFlag, Unlock, UnlockCopy, UnlockTell,
         UnlockSync, UnlockFlag
<1>2. /\ pc["draw"] = from /\ pc'["draw"] = to /\ pc'["main"] = pc["main"] /\ pc["main"] = "loop"
      /\ UNCHANGED <<pend, movie, created>>
  BY <1>0, <1>1, GoMoves DEF Draws, DrawFree, Threads
<1>3. sfc' = sfc
  BY DEF Lock, LockTemp, LockTempSize, LockBitmap, LockFlag, Unlock, UnlockCopy, UnlockTell,
         UnlockSync, UnlockFlag
<1>4. Following'
  BY <1>1, <1>2, <1>3 DEF Following, Threads, HeightPcs
<1>5. sfc.id # 0 => sfc.w = movie.w /\ sfc.h = movie.h
  BY <1>1, <1>2 DEF Following, Threads, HeightPcs
<1>6. pc["draw"] \in {"copy", "tell", "sync", "unflag"} => sfc.id # 0
  BY <1>0 DEF Turns, EndPcs
<1>7. Settled' = Settled
  BY <1>2, <1>3 DEF Settled, Drawable
<1>8. CASE Lock \/ LockTemp \/ LockTempSize \/ LockBitmap \/ LockFlag
  <2>1. from \in {"out", "compare", "size", "bitmap", "flag"} /\ to # "out"
    <3>1. PICK here \in {"out", "compare", "size", "bitmap", "flag"},
               there \in {"compare", "size", "bitmap", "flag", "held"} : Go("draw", here, there)
      BY <1>8 DEF Lock, LockTemp, LockTempSize, LockBitmap, LockFlag, Draws
    <3> QED
      BY <1>0, <1>2, <3>1, GoMoves DEF Threads
  <2>2. Settled \/ Stuck
    BY <1>2, <2>1 DEF Quiet
  <2>3. Stuck => Stuck'
    BY <1>8 DEF Stuck, Lock, LockTemp, LockTempSize, LockBitmap, LockFlag
  <2> QED
    BY <1>2, <1>4, <1>7, <2>1, <2>2, <2>3 DEF Quiet
<1>9. CASE Unlock \/ UnlockCopy \/ UnlockTell
  <2>1. to \in {"copy", "tell", "sync"} \/ (Unlock /\ to = "out" /\ sfc = NoSfc)
    BY <1>0, <1>2, <1>9, GoMoves DEF Unlock, UnlockCopy, UnlockTell, Draws, Threads
  <2>2. Unlock /\ to = "out" /\ sfc = NoSfc => Stuck'
    <3> SUFFICES ASSUME Unlock, sfc = NoSfc PROVE Stuck'
      OBVIOUS
    <3>1. UNCHANGED <<locked, shown>> /\ pc["draw"] = "held" /\ sfc.id = 0
      BY <1>0, GoMoves DEF Unlock, Draws, Threads, NoSfc
    <3> QED
      BY <3>1 DEF Stuck, SurfaceInv, Turns, Telling
  <2> QED
    BY <1>2, <1>4, <2>1, <2>2 DEF Quiet
<1>10. CASE UnlockSync
  <2>1. from = "sync" /\ to = IF pend # movie THEN "refresh" ELSE "unflag"
    BY <1>0, <1>2, <1>10, GoMoves DEF UnlockSync, Draws, Threads
  <2>2. to = "unflag" => Settled
    BY <1>2, <1>5, <1>6, <2>1 DEF Settled
  <2> QED
    BY <1>2, <1>4, <1>7, <2>1, <2>2 DEF Quiet, Stuck
<1>11. CASE UnlockFlag
  <2>1. from = "unflag" /\ to = "out" /\ ~locked'
    BY <1>0, <1>2, <1>11, GoMoves DEF UnlockFlag, Draws, Threads
  <2>2. shown # 0
    BY <1>2, <2>1 DEF SurfaceInv, Telling, EndPcs
  <2> QED
    BY <1>2, <1>4, <1>7, <2>1, <2>2 DEF Quiet, Stuck
<1> QED
  BY <1>8, <1>9, <1>10, <1>11

\* When Flash draws on the main thread no size is left waiting while it is
\* outside of lock and unlock and set_movie_size is not running, and the host
\* shows the current surface or will be told of it; only before the end of its
\* first drawing may the flag be left set (anp.cpp:1127-1203,
\* classes.c:356-451).
THEOREM NoSizeWaits == Spec => []SettledAtRest
<1> DEFINE Rested == onMain => Following /\ Quiet
<1>1. Init => Rested
  <2> SUFFICES ASSUME Init PROVE Rested
    OBVIOUS
  <2>1. pc["main"] = "loop" /\ pc["draw"] = "out" /\ sfc.id = 0 /\ ~created /\ ~locked
        /\ ~Drawable(pend)
    BY DEF Init, NoSfc, NoSize, Drawable
  <2> QED
    BY <2>1 DEF Following, Quiet, Stuck, Settled, Threads, HeightPcs
<1>2. SurfaceInv /\ Rested /\ [Next]_vars => Rested'
  <2> SUFFICES ASSUME SurfaceInv, Rested, [Next]_vars, onMain' PROVE Following' /\ Quiet'
    OBVIOUS
  <2>1. onMain' = onMain
    BY DEF Next, vars, SetMovieSize, Main, SetHeight, Decide, Refresh, Draw, Draws, Lock, LockTemp,
           LockTempSize, LockBitmap, LockFlag, Unlock, UnlockCopy, UnlockTell, UnlockSync, UnlockFlag
  <2>2. onMain /\ Following /\ Quiet
    BY <2>1
  <2>3. CASE UNCHANGED vars
    BY <2>2, <2>3 DEF vars, Following, Quiet, Stuck, Settled, Drawable
  <2>4. "main" \in Threads /\ "draw" \in Threads
    BY DEF Threads
  <2> HIDE DEF Rested
  <2> QED
    BY <2>2, <2>3, <2>4, SizesFollow, DrawFollows, RefreshFollows DEF Next, Main, Draw
<1>3. SurfaceInv /\ Rested => SettledAtRest
  BY DEF SurfaceInv, Telling, Quiet, Stuck, SettledAtRest
<1> HIDE DEF Rested
<1>4. Spec => [](SurfaceInv /\ Rested)
  BY <1>1, <1>2, SurfaceInvariant, PTL DEF Spec
<1> QED
  BY <1>3, <1>4, PTL
=============================================================================
