------------------------------- MODULE HotelPicture -------------------------------
(***************************************************************************)
(* The house on the page: the scene that is made when the hotel is looked  *)
(* at and given up when the player turns to another department, what it    *)
(* draws of the newest snapshot, and the one camera that the pointer, the  *)
(* controls, the room list, an alert and a person who is followed all move.*)
(*                                                                         *)
(* React runs the effects of a render after it and before the next, so what*)
(* is clicked may be of the picture before; a scene is loaded and attached *)
(* in the background, so it may be ready when nobody looks any more.  A    *)
(* place has one co-ordinate and a floor; zoom is counted in steps of the  *)
(* wheel.                                                                  *)
(***************************************************************************)
EXTENDS Integers, Sequences, FiniteSets, FiniteSetsExt

CONSTANTS
  RoomFloor,               \* [room -> floor]: rooms are numbers
  AreaKind,                \* [area of the ground floor -> "public" or "service"]
  Walkers,                 \* people there may be
  MinZoom, MaxZoom,
  TilesFrom, PeopleFrom,   \* zoom from which rooms, and people, are drawn
  ButtonZoom,              \* steps of the wheel in one press of a button
  PeopleBudget,            \* VISIBLE_AGENT_BUDGET
  AlertTargets,            \* what alerts there are may be about
  MaxScenes, MaxEvents     \* bounds: scenes made; views opened, snapshots and moves

PicturedRooms == DOMAIN RoomFloor
HouseAreas == DOMAIN AreaKind
HouseFloors == {0} \cup {RoomFloor[r] : r \in PicturedRooms}

ASSUME PictureAssumption ==
  /\ RoomFloor \in [PicturedRooms -> Nat] /\ PicturedRooms \subseteq Nat \ {0}
  /\ AreaKind \in [HouseAreas -> {"public", "service"}]
  /\ {MinZoom, MaxZoom, TilesFrom, PeopleFrom} \subseteq Nat
  /\ MinZoom < TilesFrom /\ TilesFrom < PeopleFrom /\ PeopleFrom <= MaxZoom
  /\ {ButtonZoom, PeopleBudget, MaxScenes, MaxEvents} \subseteq Nat

VARIABLES
  news,        \* the snapshot: rooms, works, walkers, load, lift, night
  camera,      \* App's one camera
  selected,    \* HotelView's selected room, or Nothing
  flagship,    \* the house looked at is the one that is simulated
  scenes,      \* scenes made so far: of which mount, how far, given up or not
  mounts, mounted,
  current,     \* scene.current: a number of scenes, or 0
  ready,       \* sceneReady
  painted,       \* what the scene last drew
  drawnFor,    \* the dependencies of the drawing effect when it last ran
  followedFor, \* and of the following effect
  moved,       \* ghost: the view was moved since it was last put somewhere
  events

pictureVars ==
  <<news, camera, selected, flagship, scenes, mounts, mounted, current, ready, painted, drawnFor,
    followedFor, moved, events>>

Nothing == <<"none", 0>>
RoomAt(r) == <<"room", r>>
AreaAt(a) == <<"area", a>>
Street == <<"outside", 0>>
Blank == [tiles |-> {}, slabs |-> {}, concerns |-> {}, marks |-> {}, shell |-> {}, areas |-> {},
          alarms |-> {}, cars |-> {}, people |-> {}, middle |-> 0, scale |-> 0]
-----------------------------------------------------------------------------
(* The camera.                                                             *)

Clamp(zoom) == Max({MinZoom, Min({MaxZoom, zoom})})
Panned(c, by) == [c EXCEPT !.x = @ + by]
Zoomed(c, zoom) == [c EXCEPT !.zoom = Clamp(zoom)]

\* Only a person is followed: looking at anything else ends it.
Focused(c, entity, kind, where) ==
  [c EXCEPT !.x = where.x, !.floor = where.floor, !.focused = entity,
            !.followed = IF kind = "person" THEN entity ELSE Nothing]

Follows(c, entity, where) ==
  IF c.followed # entity THEN c
  ELSE [c EXCEPT !.x = where.x, !.floor = where.floor, !.focused = entity]

VisibleFloor(f, c) == c.cutaway => f <= c.floor
Emphasis(kind, c) ==
  IF ~c.service THEN "normal" ELSE IF kind = "service" THEN "highlighted" ELSE "deemphasized"
-----------------------------------------------------------------------------
(* What is drawn.                                                          *)

HasPlace(entity) ==
  entity \in {RoomAt(r) : r \in PicturedRooms} \cup {AreaAt(a) : a \in HouseAreas}
PlaceIn(entity) ==
  IF entity[1] = "room" THEN [floor |-> RoomFloor[entity[2]], x |-> 10 * entity[2]]
  ELSE [floor |-> 0, x |-> 5]

Severity(state) ==
  CASE state = "OutOfOrder" -> 40 [] state = "VacantDirty" -> 20 [] state = "Occupied" -> 11
    [] OTHER -> 0

\* What is wrong with a room that nobody is rebuilding.
Concern(state) ==
  CASE state = "OutOfOrder" -> "out-of-service" [] state = "VacantDirty" -> "needs-cleaning"
    [] OTHER -> "none"

Worst(states) == CHOOSE s \in states : \A t \in states : Severity(t) <= Severity(s)

\* The middle of what is drawn of the house: the camera counts from there.
Centre(rooms) ==
  LET xs == {10 * r : r \in rooms}
  IN  IF rooms = {} THEN 0 ELSE (Min(xs) + Max(xs) + 10) \div 2

Band(load) == IF load > 100 THEN "over" ELSE IF load >= 80 THEN "busy" ELSE "quiet"

Marks(p, rooms) ==
  {<<"selection", RoomAt(r)>> : r \in {q \in rooms : p.selected = RoomAt(q)}}
    \cup {<<"focus", RoomAt(r)>> : r \in {q \in rooms : p.camera.focused = RoomAt(q)}}
    \cup {<<"focus", e>> : e \in {f \in {AreaAt(a) : a \in p.areas} :
                                    f = p.camera.focused /\ VisibleFloor(0, p.camera)}}

Concerns(p, rooms) ==
  {<<r, p.works[r]>> : r \in rooms \cap DOMAIN p.works}
    \cup {<<r, Concern(p.states[r])>> :
            r \in {q \in rooms \ DOMAIN p.works :
                     p.camera.zoom >= PeopleFrom /\ Concern(p.states[q]) # "none"}}

\* A car between two floors is as high as the upper one; positions are half floors.
Cars(p) == {position \in p.cars : VisibleFloor((position + 1) \div 2, p.camera)}

\* The first of the people by their ids, where the plan has a place for them.
PeopleDrawn(p) == {<<w, p.people[w]>> : w \in {v \in DOMAIN p.people : HasPlace(p.people[v])}}

\* The rooms the cutaway leaves, of those the plan places.
RoomsShown(p) == {r \in DOMAIN p.states : VisibleFloor(RoomFloor[r], p.camera)}

\* Occupied rooms are lit when it is dark.
Tiles(p, rooms) == {<<r, p.states[r], p.night /\ p.states[r] = "Occupied">> : r \in rooms}

\* From afar a floor is one slab, in the worst state of its rooms.
Slabs(p, rooms) ==
  {<<f, Worst({p.states[r] : r \in {q \in rooms : RoomFloor[q] = f}})>> :
     f \in {RoomFloor[r] : r \in rooms}}

Shell(p) == {f \in p.floors : VisibleFloor(f, p.camera)}
DrawnAreas(p) ==
  {<<a, Band(p.load), Emphasis(AreaKind[a], p.camera)>> :
     a \in {b \in p.areas : VisibleFloor(0, p.camera)}}

\* The alarms of what is overloaded are not cut away.
Alarms(p) == {a \in p.areas : p.load > 100}
Middle(p, rooms) == Centre(rooms) + p.camera.x

Picture(p) ==
  LET rooms == RoomsShown(p)
      close == p.camera.zoom >= TilesFrom
  IN  [tiles |-> IF close THEN Tiles(p, rooms) ELSE {},
       slabs |-> IF close THEN {} ELSE Slabs(p, rooms),
       concerns |-> IF close THEN Concerns(p, rooms) ELSE {},
       marks |-> Marks(p, rooms), shell |-> Shell(p), areas |-> DrawnAreas(p), alarms |-> Alarms(p),
       cars |-> Cars(p), people |-> PeopleDrawn(p),
       middle |-> Middle(p, rooms), scale |-> p.camera.zoom]

\* Far out the house is seen without its people, and there is a budget of them.
VisibleWalkers ==
  IF camera.zoom < PeopleFrom THEN {}
  ELSE {w \in DOMAIN news.walkers :
          Cardinality({v \in DOMAIN news.walkers : v < w}) < PeopleBudget}

\* What is passed to the scene: of a house that is not simulated nothing is known.
Now ==
  [states |-> IF flagship THEN news.states ELSE <<>>,
   works |-> IF flagship THEN news.works ELSE <<>>,
   areas |-> IF flagship THEN HouseAreas ELSE {},
   floors |-> IF flagship THEN HouseFloors ELSE {},
   people |-> IF flagship THEN [w \in VisibleWalkers |-> news.walkers[w]] ELSE <<>>,
   cars |-> IF flagship THEN {news.car} ELSE {},
   load |-> news.load, night |-> news.night, camera |-> camera, selected |-> selected,
   ready |-> ready]

Dependencies == Now
Followed == <<news, camera.followed>>

\* The effects of a render have run, as they have before there is another.
EffectsDone == (mounted => drawnFor = Dependencies) /\ followedFor = Followed
-----------------------------------------------------------------------------
(* The scene comes and goes.                                               *)

PictureInit ==
  /\ news = [states |-> [r \in PicturedRooms |-> "VacantClean"], works |-> <<>>,
             walkers |-> [w \in Walkers |-> RoomAt(CHOOSE r \in PicturedRooms : TRUE)], load |-> 0, car |-> 0, night |-> FALSE]
  /\ camera = [x |-> 0, zoom |-> TilesFrom, floor |-> 0, cutaway |-> FALSE, focused |-> Nothing,
               service |-> FALSE, followed |-> Nothing]
  /\ selected = Nothing /\ flagship = TRUE
  /\ scenes = <<>> /\ mounts = 0 /\ mounted = FALSE /\ current = 0 /\ ready = FALSE
  /\ painted = Blank /\ drawnFor = <<>> /\ followedFor = <<>>
  /\ moved = FALSE /\ events = 0

NewScene(mount, cancelled) == [mount |-> mount, at |-> "importing", cancelled |-> cancelled]

\* In development React mounts twice: the first scene is given up before it is there.
OpenView ==
  /\ EffectsDone /\ ~mounted
  /\ mounts' = mounts + 1 /\ mounted' = TRUE
  /\ \E twice \in BOOLEAN :
       scenes' = scenes \o (IF twice THEN <<NewScene(mounts + 1, TRUE)>> ELSE <<>>)
                        \o <<NewScene(mounts + 1, FALSE)>>
  /\ Len(scenes') <= MaxScenes
  /\ events' = events + Len(scenes') - Len(scenes) /\ events' <= MaxEvents
  /\ selected' = Nothing /\ ready' = FALSE /\ drawnFor' = <<>>
  /\ UNCHANGED <<news, camera, flagship, current, painted, followedFor, moved>>

\* Another department is opened, or the worker has failed: the effect is cleaned up.
CloseView ==
  /\ EffectsDone /\ mounted /\ mounted' = FALSE
  /\ scenes' = [i \in DOMAIN scenes |->
                  IF scenes[i].mount # mounts THEN scenes[i]
                  ELSE [scenes[i] EXCEPT !.cancelled = TRUE,
                                         !.at = IF i = current THEN "gone" ELSE @]]
  /\ current' = 0 /\ ready' = FALSE /\ painted' = Blank
  /\ UNCHANGED <<news, camera, selected, flagship, mounts, drawnFor, followedFor, moved,
                 events>>

\* With no host left to attach to, attaching throws after the renderer is made: nobody
\* destroys it.
Imported(i) ==
  /\ scenes[i].at = "importing"
  /\ scenes' = [scenes EXCEPT ![i].at =
                  IF mounted /\ scenes[i].mount = mounts THEN "attaching" ELSE "orphaned"]
  /\ UNCHANGED <<news, camera, selected, flagship, mounts, mounted, current, ready, painted,
                 drawnFor, followedFor, moved, events>>

\* Slip: a scene that was given up meanwhile is taken all the same.
AttachedAnyway(i) ==
  /\ scenes[i].at = "attaching"
  /\ scenes' = [scenes EXCEPT ![i].at = "live"]
  /\ current' = i /\ ready' = TRUE
  /\ UNCHANGED <<news, camera, selected, flagship, mounts, mounted, painted, drawnFor,
                 followedFor, moved, events>>

Attached(i) ==
  /\ scenes[i].at = "attaching"
  /\ scenes' = [scenes EXCEPT ![i].at = IF scenes[i].cancelled THEN "gone" ELSE "live"]
  /\ IF scenes[i].cancelled THEN UNCHANGED <<current, ready>> ELSE current' = i /\ ready' = TRUE
  /\ UNCHANGED <<news, camera, selected, flagship, mounts, mounted, painted, drawnFor,
                 followedFor, moved, events>>

\* There is no renderer: the lists do without.
NotAttached(i) ==
  /\ scenes[i].at = "attaching"
  /\ scenes' = [scenes EXCEPT ![i].at = "failed"]
  /\ UNCHANGED <<news, camera, selected, flagship, mounts, mounted, current, ready, painted,
                 drawnFor, followedFor, moved, events>>

\* The follower's effect looks the person up in the snapshot: one who has left, or is
\* outside, leaves the camera where it is.
Following ==
  IF camera.followed = Nothing \/ camera.followed[2] \notin DOMAIN news.walkers THEN camera
  ELSE LET at == news.walkers[camera.followed[2]]
       IN  IF HasPlace(at) THEN Follows(camera, camera.followed, PlaceIn(at)) ELSE camera

\* The effects of a render, the drawing first.
RunEffects ==
  /\ (mounted /\ drawnFor # Dependencies) \/ followedFor # Followed
  /\ drawnFor' = IF mounted THEN Dependencies ELSE drawnFor
  /\ painted' = IF mounted /\ ready /\ current # 0 /\ drawnFor # Dependencies THEN Picture(Now) ELSE painted
  /\ followedFor' = Followed
  /\ IF followedFor = Followed THEN UNCHANGED <<camera, moved>>
     ELSE /\ camera' = Following
          /\ moved' = (moved /\ camera.followed = Nothing)
  /\ UNCHANGED <<news, selected, flagship, scenes, mounts, mounted, current, ready, events>>
-----------------------------------------------------------------------------
(* Snapshots, and what the player does.                                    *)

Published(snapshot) ==
  /\ EffectsDone /\ events < MaxEvents /\ events' = events + 1
  /\ snapshot # news /\ news' = snapshot
  /\ UNCHANGED <<camera, selected, flagship, scenes, mounts, mounted, current, ready, painted,
                 drawnFor, followedFor, moved>>

RoomBecomes(r) ==
  Published([news EXCEPT !.states[r] = CASE @ = "VacantClean" -> "Occupied"
                                         [] @ = "Occupied" -> "VacantDirty"
                                         [] OTHER -> "VacantClean"])
WorksReach(r, phase) ==
  Published([news EXCEPT !.works = [q \in {r} |-> phase], !.states[r] = "OutOfOrder"])
WalkerIsAt(w, at) ==
  Published([news EXCEPT !.walkers = [v \in DOMAIN @ \cup {w} |-> IF v = w THEN at ELSE @[v]]])
WalkerLeaves(w) ==
  Published([news EXCEPT !.walkers = [v \in DOMAIN @ \ {w} |-> @[v]]])
HouseIs(load, car, night) ==
  Published([news EXCEPT !.load = load, !.car = car, !.night = night])

Moves(view, away) ==
  /\ events < MaxEvents /\ events' = events + 1
  /\ camera' = view /\ moved' = away
  /\ UNCHANGED <<news, flagship, scenes, mounts, mounted, current, ready, painted, drawnFor,
                 followedFor>>

\* A wheel notch, a press of a zoom button, a drag or a press of an arrow.
Wheel(up) ==
  /\ EffectsDone /\ mounted /\ Moves(Zoomed(camera, camera.zoom + IF up THEN 1 ELSE -1), moved)
  /\ UNCHANGED selected
PressZoom(up) ==
  /\ EffectsDone /\ mounted /\ IF up THEN camera.zoom < MaxZoom ELSE camera.zoom > MinZoom
  /\ Moves(Zoomed(camera, camera.zoom + IF up THEN ButtonZoom ELSE -ButtonZoom), moved)
  /\ UNCHANGED selected
Pan(by) ==
  EffectsDone /\ mounted /\ Moves(Panned(camera, by), TRUE) /\ UNCHANGED selected
ShowFloor(f) ==
  EffectsDone /\ mounted /\ Moves([camera EXCEPT !.floor = f], TRUE) /\ UNCHANGED selected
ToggleCutaway ==
  EffectsDone /\ mounted /\ Moves([camera EXCEPT !.cutaway = ~@], moved) /\ UNCHANGED selected
ToggleService ==
  EffectsDone /\ mounted /\ Moves([camera EXCEPT !.service = ~@], moved) /\ UNCHANGED selected

\* A tile is of the picture that is drawn, an entry of the list of the newest snapshot.
ChooseRoom(r) ==
  /\ mounted
  /\ r \in {tile[1] : tile \in painted.tiles} \/ (flagship /\ r \in DOMAIN news.states)
  /\ selected' = RoomAt(r)
  /\ Moves(Focused(camera, RoomAt(r), "room", PlaceIn(RoomAt(r))), FALSE)

\* Who has left the house, or is outside, is not followed, whatever is still drawn.
FollowPerson(w) ==
  /\ mounted
  /\ w \in {mark[1] : mark \in painted.people} \/ (flagship /\ w \in VisibleWalkers)
  /\ w \in DOMAIN news.walkers /\ HasPlace(news.walkers[w])
  /\ Moves(Focused(camera, <<"person", w>>, "person", PlaceIn(news.walkers[w])), FALSE)
  /\ UNCHANGED selected

\* From the list of problems beside the view, or from a notification anywhere.
GoToProblem(entity) ==
  /\ HasPlace(entity)
  /\ Moves(Focused(camera, entity, "problem", PlaceIn(entity)), FALSE)
  /\ UNCHANGED selected

LookAtHouse ==
  /\ EffectsDone /\ events < MaxEvents /\ events' = events + 1
  /\ flagship' = ~flagship
  /\ UNCHANGED <<news, camera, selected, scenes, mounts, mounted, current, ready, painted,
                 drawnFor, followedFor, moved>>

PictureNext ==
  \/ OpenView \/ CloseView \/ RunEffects
  \/ \E i \in DOMAIN scenes : Imported(i) \/ Attached(i) \/ NotAttached(i)
  \/ \E r \in PicturedRooms : RoomBecomes(r)
  \/ \E r \in PicturedRooms : WorksReach(r, "construction")
  \/ \E w \in Walkers : \/ WalkerLeaves(w) \/ WalkerIsAt(w, Street)
                        \/ \E r \in PicturedRooms : WalkerIsAt(w, RoomAt(r))
  \/ HouseIs(110, 3, TRUE)
  \/ \E up \in BOOLEAN : Wheel(up) \/ PressZoom(up)
  \/ Pan(1)
  \/ \E f \in HouseFloors : ShowFloor(f)
  \/ ToggleCutaway \/ ToggleService \/ LookAtHouse
  \/ \E r \in PicturedRooms : ChooseRoom(r)
  \/ \E w \in Walkers : FollowPerson(w)
  \/ \E e \in AlertTargets : GoToProblem(e)

PictureSpec == PictureInit /\ [][PictureNext]_pictureVars
-----------------------------------------------------------------------------
(* Properties.                                                             *)

Shown == mounted /\ current # 0

\* One scene draws, for the view that is open: one that comes too late never does.
OneSceneDraws ==
  /\ {i \in DOMAIN scenes : scenes[i].at = "live"} = {current} \ {0}
  /\ current # 0 => mounted /\ scenes[current].mount = mounts /\ ready

\* When the effects have run, the picture is of the newest snapshot, camera and choice,
\* however the scene, the snapshots and the player's moves came one after another.
PictureIsNewest == EffectsDone /\ Shown => painted = Picture(Now)

\* A person who is followed is what is focused, and is where the camera is once the effects
\* have run, unless the player has moved it away since.
FollowedIsInView ==
  /\ camera.followed # Nothing => camera.focused = camera.followed
  /\ LET w == camera.followed[2]
     IN  EffectsDone /\ ~moved /\ camera.followed # Nothing
           /\ w \in DOMAIN news.walkers /\ HasPlace(news.walkers[w])
         => [floor |-> camera.floor, x |-> camera.x] = PlaceIn(news.walkers[w])

\* What the player went to is marked in the picture, cut away or not, at every zoom.
FocusIsMarked ==
  EffectsDone /\ Shown /\ flagship /\ ~moved /\ HasPlace(camera.focused)
    => <<"focus", camera.focused>> \in painted.marks

\* What is cut away is not drawn, of the building and its lift; close by, every room that
\* is drawn and has something wrong with it says so.
PictureIsCut ==
  Shown /\ EffectsDone =>
    LET hidden == {f \in HouseFloors : camera.cutaway /\ f > camera.floor}
    IN  /\ \A tile \in painted.tiles : RoomFloor[tile[1]] \notin hidden
        /\ \A slab \in painted.slabs : slab[1] \notin hidden
        /\ \A mark \in painted.marks : PlaceIn(mark[2]).floor \notin hidden
        /\ \A car \in painted.cars : camera.cutaway => car <= 2 * camera.floor
        /\ camera.zoom >= PeopleFrom =>
             \A tile \in painted.tiles : Severity(tile[2]) >= 20 =>
               \E concern \in painted.concerns : concern[1] = tile[1]

PictureHolds ==
  OneSceneDraws /\ PictureIsNewest /\ FollowedIsInView /\ FocusIsMarked /\ PictureIsCut

\* People are cut away with their floor: they are drawn wherever they are.
PeopleAreCut ==
  Shown /\ EffectsDone /\ camera.cutaway =>
    \A mark \in painted.people : PlaceIn(mark[2]).floor <= camera.floor

\* Every renderer that was made is destroyed with its view: not one whose module arrived
\* when the view was closed.
NoRendererIsLeft == \A i \in DOMAIN scenes : scenes[i].at # "orphaned"

\* What is focused is in the middle: the middle of the house is added to where it is.
FocusIsInTheMiddle ==
  Shown /\ EffectsDone /\ ~moved /\ HasPlace(camera.focused) =>
    painted.middle = PlaceIn(camera.focused).x
=============================================================================
