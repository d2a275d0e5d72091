---------------------------- MODULE RevealProofs ----------------------------
(***************************************************************************)
(* Proofs about Reveal.  A view state is at rest when MenuRested and       *)
(* FrontRested hold of it; the invariant says that the views will be at    *)
(* rest once the animation in flight, if there is one, is completed.       *)
(***************************************************************************)
EXTENDS Reveal, SequenceTheorems, TLAPS

USE DEF LeftSideMostRemoved, LeftSideMost, LeftSide, Left, Right, RightMost,
        RightMostRemoved, None, RemovedPositions

(* A view state whose controllers are on their own sides. *)
Sound(v) ==
    /\ v \in Views
    /\ \A s \in Sides : v.controller[s] \in VCs[s] \cup {NoVC}

Rested(v) == MenuRested(v) /\ FrontRested(v)

(* The sides that a move to p reveals and hides. *)
Coming(v, p, sides) == {s \in sides : Appears(v, s, p)}
Going(v, p, sides) == {s \in sides : Disappears(v, s, p)}

(* The view state after a move without animation. *)
Moved(v, p, sides, by) == Completed(Deployed(v, p, sides), Deployment(v, p, sides, by))

-----------------------------------------------------------------------------
(* Controllers of different sides are different. *)
LEMMA SidesDiffer ==
    ASSUME NEW s \in Sides, NEW t \in Sides, s # t
    PROVE  /\ VCs[s] \cap VCs[t] = {}
           /\ VCs[s] \subseteq AllVCs
           /\ NoVC \notin VCs[s]
BY RevealAssumption DEF Sides, VCs, AllVCs

LEMMA VCsOfSide ==
    ASSUME NEW s \in Sides
    PROVE  VCs[s] \subseteq AllVCs /\ NoVC \notin VCs[s]
BY RevealAssumption DEF Sides, VCs, AllVCs

(* Of the controllers on some sides, one side has its own. *)
LEMMA SomeOfSide ==
    ASSUME NEW v, Sound(v), NEW sides \in SUBSET Sides, NEW s \in Sides
    PROVE  Some(v, sides) \cap VCs[s] = IF s \in sides THEN Some(v, {s}) ELSE {}
<1>1. ASSUME NEW t \in Sides, v.controller[t] \in VCs[s] PROVE t = s
  BY <1>1, SidesDiffer DEF Sound
<1>2. Some(v, sides) \cap VCs[s]
        = {v.controller[t] : t \in sides \cap {s}} \ {NoVC}
  BY <1>1, VCsOfSide DEF Some, Sound
<1>3. QED BY <1>2 DEF Some

(* Containers dropped take the views of their own sides only. *)
LEMMA DroppedOfSide ==
    ASSUME NEW drop \in SUBSET Sides, NEW s \in Sides
    PROVE  (UNION {VCs[t] : t \in drop}) \cap VCs[s]
             = IF s \in drop THEN VCs[s] ELSE {}
BY SidesDiffer

LEMMA SomeTyped ==
    ASSUME NEW v, Sound(v), NEW sides \in SUBSET Sides
    PROVE  Some(v, sides) \subseteq AllVCs
BY VCsOfSide DEF Some, Sound

LEMMA EffectiveTyped ==
    ASSUME NEW v, NEW s, NEW p \in Positions
    PROVE  Effective(v, s, p) \in Positions
BY DEF Effective, Positions

-----------------------------------------------------------------------------
(* What a deployment for p, completed, leaves. *)
LEMMA MoveFields ==
    ASSUME NEW v, Sound(v), NEW p \in Positions, NEW sides \in SUBSET Sides,
           NEW by \in {"block", "gesture"}
    PROVE  /\ Sound(Deployed(v, p, sides))
           /\ Deployed(v, p, sides).controller = v.controller
           /\ Deployed(v, p, sides).position = Moved(v, p, sides, by).position
           /\ Deployment(v, p, sides, by) \in Completions
           /\ Sound(Moved(v, p, sides, by))
           /\ Moved(v, p, sides, by).controller = v.controller
           /\ Moved(v, p, sides, by).position
                = [s \in Sides |-> IF s \in sides THEN Effective(v, s, p)
                                                  ELSE v.position[s]]
           /\ Moved(v, p, sides, by).container
                = (v.container \cup Coming(v, p, sides))
                    \ (Going(v, p, sides) \ {"front"})
           /\ Moved(v, p, sides, by).shown
                = (v.shown \cup Some(v, Coming(v, p, sides)))
                    \ (Some(v, Going(v, p, sides))
                          \cup UNION {VCs[s] : s \in Going(v, p, sides) \ {"front"}})
           /\ Moved(v, p, sides, by).children = v.children
<1> DEFINE a == Coming(v, p, sides)
           d == Going(v, p, sides)
           w == Deployed(v, p, sides)
           c == Deployment(v, p, sides, by)
<1>1. v \in Views BY DEF Sound
<1>2. /\ w.controller = v.controller
      /\ w.position = [s \in Sides |-> IF s \in sides THEN Effective(v, s, p)
                                                     ELSE v.position[s]]
      /\ w.container = v.container \cup a
      /\ w.shown = v.shown \cup Some(v, a)
      /\ w.children = v.children
      /\ w = [controller |-> w.controller, position |-> w.position,
              container |-> w.container, shown |-> w.shown, children |-> w.children]
  <2>1. w = [v EXCEPT !.position  = [s \in Sides |-> IF s \in sides
                                                     THEN Effective(v, s, p)
                                                     ELSE v.position[s]],
                      !.container = v.container \cup a,
                      !.shown     = v.shown \cup Some(v, a)]
    BY DEF Deployed, Coming
  <2> HIDE DEF w
  <2>2. QED BY <1>1, <2>1 DEF Views
<1>3. a \in SUBSET Sides /\ d \in SUBSET Sides BY DEF Coming, Going
<1>4. Some(v, a) \subseteq AllVCs /\ Some(v, d) \subseteq AllVCs
  BY <1>3, SomeTyped
<1>5. w.position \in [Sides -> Positions \cup {None}]
  BY <1>1, <1>2, EffectiveTyped DEF Views
<1>6. w \in Views
  BY <1>1, <1>2, <1>3, <1>4, <1>5 DEF Views
<1>7. /\ c.out = Some(v, d) /\ c.drop = d \ {"front"} /\ c.leave = {}
      /\ c = [out |-> Some(v, d), drop |-> d \ {"front"}, leave |-> {}, by |-> by]
  BY DEF Deployment, Going
<1>8. c \in Completions
  <2> HIDE DEF c
  <2>1. d \ {"front"} \subseteq {"rear", "right"} BY <1>3 DEF Sides
  <2>2. QED BY <1>4, <1>7, <2>1 DEF Completions
<1> HIDE DEF w, c
<1>9. LET z == Completed(w, c)
      IN /\ z \in Views
         /\ z.controller = w.controller /\ z.position = w.position
         /\ z.container = w.container \ c.drop
         /\ z.shown = w.shown \ (c.out \cup UNION {VCs[s] : s \in c.drop})
         /\ z.children = w.children \ c.leave
  BY <1>6 DEF Completed, Views
<1>10. Moved(v, p, sides, by) = Completed(w, c) BY DEF Moved, w, c
<1> DEFINE z == Moved(v, p, sides, by)
<1> HIDE DEF z
<1>11. z \in Views /\ z.controller = v.controller /\ z.position = w.position
       /\ z.children = v.children
  BY <1>2, <1>7, <1>9, <1>10 DEF z
<1>12. /\ z.container = (v.container \cup a) \ (d \ {"front"})
       /\ z.shown = (v.shown \cup Some(v, a))
                      \ (Some(v, d) \cup UNION {VCs[s] : s \in d \ {"front"}})
  BY <1>2, <1>7, <1>9, <1>10 DEF z
<1>13. Sound(w) /\ Sound(z) BY <1>2, <1>6, <1>11 DEF Sound
<1>14. QED
  BY <1>2, <1>8, <1>11, <1>12, <1>13, Zenon DEF w, c, z

(* A completed deployment leaves the views at rest. *)
LEMMA MoveRests ==
    ASSUME NEW v, Sound(v), Rested(v), NEW p \in Positions,
           NEW sides \in SUBSET Sides, NEW by \in {"block", "gesture"}
    PROVE  Rested(Moved(v, p, sides, by))
<1> DEFINE a == Coming(v, p, sides)
           d == Going(v, p, sides)
           z == Moved(v, p, sides, by)
<1>1. /\ Sound(z)
      /\ z.controller = v.controller
      /\ z.position = [s \in Sides |-> IF s \in sides THEN Effective(v, s, p)
                                                       ELSE v.position[s]]
      /\ z.container = (v.container \cup a) \ (d \ {"front"})
      /\ z.shown = (v.shown \cup Some(v, a))
                     \ (Some(v, d) \cup UNION {VCs[s] : s \in d \ {"front"}})
  BY MoveFields
<1>0. a \in SUBSET Sides /\ d \in SUBSET Sides BY DEF Coming, Going
<1> HIDE DEF a, d, z
<1>2. ASSUME NEW s \in Sides
      PROVE  /\ Some(v, a) \cap VCs[s] = IF s \in a THEN Some(v, {s}) ELSE {}
             /\ Some(v, d) \cap VCs[s] = IF s \in d THEN Some(v, {s}) ELSE {}
             /\ (UNION {VCs[t] : t \in d \ {"front"}}) \cap VCs[s]
                  = IF s \in d \ {"front"} THEN VCs[s] ELSE {}
             /\ Some(z, {s}) = Some(v, {s})
  <2>1. Some(v, a) \cap VCs[s] = IF s \in a THEN Some(v, {s}) ELSE {}
    BY <1>0, SomeOfSide
  <2>2. Some(v, d) \cap VCs[s] = IF s \in d THEN Some(v, {s}) ELSE {}
    BY <1>0, SomeOfSide
  <2>3. d \ {"front"} \in SUBSET Sides BY <1>0
  <2>4. (UNION {VCs[t] : t \in d \ {"front"}}) \cap VCs[s]
          = IF s \in d \ {"front"} THEN VCs[s] ELSE {}
    BY <2>3, DroppedOfSide
  <2>5. QED BY <1>1, <2>1, <2>2, <2>4 DEF Some
<1>3. ASSUME NEW s \in Sides
      PROVE  /\ s \in a <=> s \in sides /\ ~InSight(s, v.position[s])
                              /\ InSight(s, z.position[s])
             /\ s \in d <=> s \in sides /\ InSight(s, v.position[s])
                              /\ ~InSight(s, z.position[s])
             /\ s \notin sides => z.position[s] = v.position[s]
  BY <1>1 DEF Appears, Disappears, Coming, Going, a, d
<1>4. ASSUME NEW s \in {"rear", "right"}
      PROVE  IF InSight(s, z.position[s])
             THEN s \in z.container /\ z.shown \cap VCs[s] = Some(z, {s})
             ELSE s \notin z.container /\ z.shown \cap VCs[s] = {}
  <2>1. s \in Sides /\ s # "front" BY DEF Sides
  <2>2. IF InSight(s, v.position[s])
        THEN s \in v.container /\ v.shown \cap VCs[s] = Some(v, {s})
        ELSE s \notin v.container /\ v.shown \cap VCs[s] = {}
    BY DEF Rested, MenuRested
  <2>3. z.shown \cap VCs[s]
          = ((v.shown \cap VCs[s]) \cup (Some(v, a) \cap VCs[s]))
              \ ((Some(v, d) \cap VCs[s])
                   \cup ((UNION {VCs[t] : t \in d \ {"front"}}) \cap VCs[s]))
    BY <1>1
  <2>4. /\ Some(v, a) \cap VCs[s] = IF s \in a THEN Some(v, {s}) ELSE {}
        /\ Some(v, d) \cap VCs[s] = IF s \in d THEN Some(v, {s}) ELSE {}
        /\ (UNION {VCs[t] : t \in d \ {"front"}}) \cap VCs[s]
             = IF s \in d \ {"front"} THEN VCs[s] ELSE {}
        /\ Some(z, {s}) = Some(v, {s})
    BY <1>2, <2>1
  <2>5. /\ s \in a <=> s \in sides /\ ~InSight(s, v.position[s])
                        /\ InSight(s, z.position[s])
        /\ s \in d <=> s \in sides /\ InSight(s, v.position[s])
                        /\ ~InSight(s, z.position[s])
        /\ s \notin sides => z.position[s] = v.position[s]
    BY <1>3, <2>1
  <2>6. s \in z.container <=> (s \in v.container \/ s \in a) /\ s \notin d
    BY <1>1, <2>1
  <2>7. CASE s \in a
    <3>1. s \notin d /\ InSight(s, z.position[s]) BY <2>7, <2>5
    <3>2. v.shown \cap VCs[s] = {} BY <2>7, <2>5, <2>2
    <3>3. z.shown \cap VCs[s] = Some(z, {s}) BY <2>3, <2>4, <2>7, <3>1, <3>2
    <3>4. QED BY <2>7, <2>6, <3>1, <3>3
  <2>8. CASE s \in d
    <3>1. s \notin a /\ ~InSight(s, z.position[s]) BY <2>8, <2>5
    <3>2. z.shown \cap VCs[s] = {}
      BY <2>3, <2>4, <2>1, <2>8, <3>1
    <3>3. QED BY <2>8, <2>6, <3>1, <3>2
  <2>9. CASE s \notin a /\ s \notin d
    <3>1. InSight(s, z.position[s]) <=> InSight(s, v.position[s])
      BY <2>9, <2>5
    <3>2. z.shown \cap VCs[s] = v.shown \cap VCs[s]
      BY <2>3, <2>4, <2>1, <2>9
    <3>3. QED BY <2>2, <2>4, <2>6, <2>9, <3>1, <3>2
  <2>10. QED BY <2>7, <2>8, <2>9
<1>5. FrontRested(z)
  <2>1. "front" \in Sides /\ VCs["front"] = FrontVCs BY DEF Sides, VCs
  <2>2. z.shown \cap FrontVCs
          = ((v.shown \cap FrontVCs) \cup (Some(v, a) \cap FrontVCs))
              \ (Some(v, d) \cap FrontVCs)
    BY <1>1, <1>2, <2>1
  <2>3. "front" \in z.container BY <1>1 DEF Rested, FrontRested
  <2>4. /\ Some(v, a) \cap FrontVCs = IF "front" \in a THEN Some(v, {"front"}) ELSE {}
        /\ Some(v, d) \cap FrontVCs = IF "front" \in d THEN Some(v, {"front"}) ELSE {}
        /\ Some(z, {"front"}) = Some(v, {"front"})
    BY <1>2, <2>1
  <2>5. /\ "front" \in a <=> "front" \in sides /\ ~InSight("front", v.position["front"])
                              /\ InSight("front", z.position["front"])
        /\ "front" \in d <=> "front" \in sides /\ InSight("front", v.position["front"])
                              /\ ~InSight("front", z.position["front"])
        /\ "front" \notin sides => z.position["front"] = v.position["front"]
    BY <1>3, <2>1
  <2>6. QED BY <2>2, <2>3, <2>4, <2>5 DEF Rested, FrontRested
<1>6. Rested(z) BY <1>4, <1>5 DEF Rested, MenuRested
<1>7. QED BY <1>6 DEF z

-----------------------------------------------------------------------------
(* The view state after a replacement without animation. *)
Exchanged(v, s, vc) == Completed(Replaced(v, s, vc), Replacement(v, s, vc))

LEMMA ReplaceFields ==
    ASSUME NEW v, Sound(v), NEW s \in Sides, NEW vc \in VCs[s] \cup {NoVC},
           vc # v.controller[s]
    PROVE  /\ Sound(Replaced(v, s, vc))
           /\ Replaced(v, s, vc).position = v.position
           /\ Replacement(v, s, vc) \in Completions
           /\ Sound(Exchanged(v, s, vc))
           /\ Exchanged(v, s, vc).controller = [v.controller EXCEPT ![s] = vc]
           /\ Exchanged(v, s, vc).position = v.position
           /\ Exchanged(v, s, vc).container = v.container
           /\ Exchanged(v, s, vc).shown
                = (v.shown \cup (IF s \in v.container THEN {vc} \ {NoVC} ELSE {}))
                    \ ({v.controller[s]} \ {NoVC})
           /\ Exchanged(v, s, vc).children
                = (v.children \cup ({vc} \ {NoVC})) \ ({v.controller[s]} \ {NoVC})
<1> DEFINE w == Replaced(v, s, vc)
           c == Replacement(v, s, vc)
           old == {v.controller[s]} \ {NoVC}
<1>1. v \in Views BY DEF Sound
<1>2. {vc} \ {NoVC} \subseteq AllVCs /\ old \subseteq AllVCs
  BY VCsOfSide DEF Sound
<1>3. vc \in AllVCs \cup {NoVC} BY VCsOfSide
<1>4. /\ w \in Views
      /\ w.controller = [v.controller EXCEPT ![s] = vc]
      /\ w.position = v.position
      /\ w.container = v.container
      /\ w.shown = v.shown \cup (IF s \in v.container THEN {vc} \ {NoVC} ELSE {})
      /\ w.children = v.children \cup ({vc} \ {NoVC})
  BY <1>1, <1>2, <1>3 DEF Replaced, Views
<1>5. c = [out |-> old, drop |-> {}, leave |-> old, by |-> "block"]
  BY DEF Replacement
<1>6. c \in Completions BY <1>2, <1>5 DEF Completions
<1>7. c.out = old /\ c.drop = {} /\ c.leave = old BY <1>5
<1>8. Sound(w) BY <1>1, <1>4 DEF Sound, Views
<1> HIDE DEF w, c, old
<1>9. LET z == Completed(w, c)
      IN /\ z \in Views
         /\ z.controller = w.controller /\ z.position = w.position
         /\ z.container = w.container \ c.drop
         /\ z.shown = w.shown \ (c.out \cup UNION {VCs[t] : t \in c.drop})
         /\ z.children = w.children \ c.leave
  BY <1>4 DEF Completed, Views
<1>10. UNION {VCs[t] : t \in c.drop} = {} BY <1>7
<1>11. Exchanged(v, s, vc) = Completed(w, c) BY DEF Exchanged, w, c
<1>12. /\ Sound(Completed(w, c))
       /\ Completed(w, c).container = w.container
       /\ Completed(w, c).shown = w.shown \ old
       /\ Completed(w, c).children = w.children \ old
  BY <1>7, <1>8, <1>9, <1>10 DEF Sound
<1>13. QED
  BY <1>4, <1>6, <1>8, <1>9, <1>11, <1>12 DEF w, c, old

(* A controller replaced by itself stays. *)
LEMMA ReplaceSame ==
    ASSUME NEW v, Sound(v), NEW s \in Sides
    PROVE  /\ Replaced(v, s, v.controller[s]) = v
           /\ Replacement(v, s, v.controller[s]) \in Completions
           /\ Exchanged(v, s, v.controller[s]) = v
<1>1. Replaced(v, s, v.controller[s]) = v BY DEF Replaced
<1>2. Replacement(v, s, v.controller[s])
        = [out |-> {}, drop |-> {}, leave |-> {}, by |-> "block"]
  BY DEF Replacement
<1>3. Completed(v, [out |-> {}, drop |-> {}, leave |-> {}, by |-> "block"]) = v
  <2> DEFINE c == [out |-> {}, drop |-> {}, leave |-> {}, by |-> "block"]
  <2>1. v \in Views BY DEF Sound
  <2>2. /\ v.shown \ (c.out \cup UNION {VCs[t] : t \in c.drop}) = v.shown
        /\ v.container \ c.drop = v.container
        /\ v.children \ c.leave = v.children
    OBVIOUS
  <2> HIDE DEF c
  <2>3. Completed(v, c) = [v EXCEPT !.shown = v.shown, !.container = v.container,
                                    !.children = v.children]
    BY <2>2 DEF Completed
  <2>4. Completed(v, c) = v BY <2>1, <2>3 DEF Views
  <2>5. QED BY <2>4 DEF c
<1>4. QED BY <1>1, <1>2, <1>3 DEF Exchanged, Completions

(* A completed replacement leaves the views at rest, ... *)
LEMMA ReplaceRests ==
    ASSUME NEW v, Sound(v), Rested(v), NEW s \in Sides,
           NEW vc \in VCs[s] \cup {NoVC}
    PROVE  Rested(Exchanged(v, s, vc))
<1>1. CASE vc = v.controller[s] BY <1>1, ReplaceSame
<1>2. CASE vc # v.controller[s]
  <2> DEFINE z == Exchanged(v, s, vc)
             new == IF s \in v.container THEN {vc} \ {NoVC} ELSE {}
             old == {v.controller[s]} \ {NoVC}
  <2>1. /\ z.controller = [v.controller EXCEPT ![s] = vc]
        /\ z.position = v.position
        /\ z.container = v.container
        /\ z.shown = (v.shown \cup new) \ old
    BY <1>2, ReplaceFields
  <2>2. v.controller \in [Sides -> AllVCs \cup {NoVC}]
        /\ v.controller[s] \in VCs[s] \cup {NoVC}
    BY DEF Sound, Views
  <2> HIDE DEF z
  <2>3. ASSUME NEW t \in Sides, t # s
        PROVE  Some(z, {t}) = Some(v, {t}) /\ z.shown \cap VCs[t] = v.shown \cap VCs[t]
    <3>1. new \cap VCs[t] = {} /\ old \cap VCs[t] = {}
      BY <2>2, <2>3, SidesDiffer
    <3>2. z.controller[t] = v.controller[t] BY <2>1, <2>2, <2>3
    <3>3. QED BY <2>1, <3>1, <3>2 DEF Some
  <2>4. z.controller[s] = vc BY <2>1, <2>2
  <2>5. Some(z, {s}) = {vc} \ {NoVC} /\ Some(v, {s}) = old BY <2>4 DEF Some
  <2>6. z.shown \cap VCs[s] = ((v.shown \cap VCs[s]) \cup new) \ old
    BY <2>1, VCsOfSide
  <2> HIDE DEF old
  <2>7. (new \cap old) = {} BY <1>2 DEF old
  <2>8. ASSUME NEW t \in {"rear", "right"}
        PROVE  IF InSight(t, z.position[t])
               THEN t \in z.container /\ z.shown \cap VCs[t] = Some(z, {t})
               ELSE t \notin z.container /\ z.shown \cap VCs[t] = {}
    <3>1. t \in Sides BY DEF Sides
    <3>2. IF InSight(t, v.position[t])
          THEN t \in v.container /\ v.shown \cap VCs[t] = Some(v, {t})
          ELSE t \notin v.container /\ v.shown \cap VCs[t] = {}
      BY DEF Rested, MenuRested
    <3>3. CASE t = s BY <2>1, <2>5, <2>6, <2>7, <3>2, <3>3
    <3>4. CASE t # s BY <2>1, <2>3, <3>1, <3>2, <3>4
    <3>5. QED BY <3>3, <3>4
  <2>9. FrontRested(z)
    <3>1. "front" \in Sides /\ VCs["front"] = FrontVCs BY DEF Sides, VCs
    <3>2. FrontRested(v) BY DEF Rested
    <3>3. CASE s = "front"
      BY <2>1, <2>5, <2>6, <2>7, <3>1, <3>2, <3>3 DEF FrontRested
    <3>4. CASE s # "front"
      BY <2>1, <2>3, <3>1, <3>2, <3>4 DEF FrontRested
    <3>5. QED BY <3>3, <3>4
  <2>10. Rested(z) BY <2>8, <2>9 DEF Rested, MenuRested
  <2>11. QED BY <2>10 DEF z
<1>3. QED BY <1>1, <1>2

(* ... and the children are the controllers of the three sides. *)
LEMMA ReplaceChildren ==
    ASSUME NEW v, Sound(v), ChildrenRested(v), NEW s \in Sides,
           NEW vc \in VCs[s] \cup {NoVC}
    PROVE  ChildrenRested(Exchanged(v, s, vc))
<1>1. CASE vc = v.controller[s] BY <1>1, ReplaceSame
<1>2. CASE vc # v.controller[s]
  <2> DEFINE z == Exchanged(v, s, vc)
             old == {v.controller[s]} \ {NoVC}
             others == {v.controller[t] : t \in Sides \ {s}} \ {NoVC}
  <2>1. /\ z.controller = [v.controller EXCEPT ![s] = vc]
        /\ z.children = (v.children \cup ({vc} \ {NoVC})) \ old
    BY <1>2, ReplaceFields
  <2>2. v.controller \in [Sides -> AllVCs \cup {NoVC}]
        /\ \A t \in Sides : v.controller[t] \in VCs[t] \cup {NoVC}
    BY DEF Sound, Views
  <2> HIDE DEF z
  <2>3. others \cap old = {} BY <2>2, SidesDiffer
  <2>4. v.children = others \cup old BY DEF ChildrenRested, Some
  <2>5. Some(z, Sides) = others \cup ({vc} \ {NoVC})
    BY <2>1, <2>2 DEF Some
  <2>6. ({vc} \ {NoVC}) \cap old = {} BY <1>2
  <2> HIDE DEF old, others
  <2>7. z.children = Some(z, Sides) BY <2>1, <2>3, <2>4, <2>5, <2>6
  <2>8. QED BY <2>7 DEF ChildrenRested, z
<1>3. QED BY <1>1, <1>2

LEMMA MoveChildren ==
    ASSUME NEW v, Sound(v), ChildrenRested(v), NEW p \in Positions,
           NEW sides \in SUBSET Sides, NEW by \in {"block", "gesture"}
    PROVE  ChildrenRested(Moved(v, p, sides, by))
<1> DEFINE a == Coming(v, p, sides)
           d == Going(v, p, sides)
           z == Moved(v, p, sides, by)
<1>1. /\ Sound(z)
      /\ z.controller = v.controller
      /\ z.position = [s \in Sides |-> IF s \in sides THEN Effective(v, s, p)
                                                       ELSE v.position[s]]
      /\ z.container = (v.container \cup a) \ (d \ {"front"})
      /\ z.shown = (v.shown \cup Some(v, a))
                     \ (Some(v, d) \cup UNION {VCs[s] : s \in d \ {"front"}})
      /\ z.children = v.children
  BY MoveFields
<1> HIDE DEF a, d, z
<1>2. QED BY <1>1 DEF ChildrenRested, Some, z

(* The three sides agree on a move's position. *)
LEMMA EffectiveAgrees ==
    ASSUME NEW v, NEW p \in Positions, NEW s \in {"rear", "right"}
    PROVE  InSight(s, Effective(v, s, p)) <=> InSight(s, Effective(v, "front", p))
<1>1. CASE s = "rear" BY <1>1 DEF InSight, Effective, Positions
<1>2. CASE s = "right" BY <1>2 DEF InSight, Effective, Positions
<1>3. QED BY <1>1, <1>2

-----------------------------------------------------------------------------
(* Places *)

LEMMA FrontLocationBounded ==
    ASSUME NEW p \in Positions
    PROVE  /\ FrontLocation(p) \in Int
           /\ Abs(FrontLocation(p)) <= RevealWidth + RevealOverdraw
BY GeometryAssumption
   DEF Positions, FrontLocation, Symmetry, AdjustedPosition, Abs

LEMMA AdjustedDragBounded ==
    ASSUME NEW t \in Int, NEW p
    PROVE  /\ AdjustedDrag(t, p) \in Int
           /\ Abs(AdjustedDrag(t, p)) <= RevealWidth + RevealOverdraw
BY GeometryAssumption DEF AdjustedDrag, SideOf, Abs

LEMMA PanTargetTyped ==
    ASSUME NEW t \in Int, NEW velocity \in Int
    PROVE  PanTarget(t, velocity) \in Positions
<1>1. \A d, outwards : FlickTarget(d, outwards) \in {Left, Right, RightMost}
  BY DEF FlickTarget
<1>2. \A d \in Int : DropTarget(d) \in {Left, Right, RightMost}
  BY GeometryAssumption DEF DropTarget
<1>3. Abs(t) \in Int /\ SideOf(t) \in {-1, 1} BY DEF Abs, SideOf
<1>4. QED
  BY <1>1, <1>2, <1>3 DEF PanTarget, AdjustedPosition, Positions

LEMMA CallTargetsTyped ==
    ASSUME NEW p \in Positions
    PROVE  /\ ToggleTarget(p) \in Positions
           /\ RightToggleTarget(p) \in Positions
           /\ PushTarget(p) \in Positions
BY DEF ToggleTarget, RightToggleTarget, PushTarget, Positions

-----------------------------------------------------------------------------
(* Blocks *)

LEMMA BlockTypes ==
    ASSUME NEW b \in Blocks
    PROVE  /\ b.op = "move" => b.to \in Positions /\ b.animated \in BOOLEAN
           /\ b.op = "replace" => /\ b.side \in Sides
                                 /\ b.new \in VCs[b.side] \cup {NoVC}
                                 /\ b.animated \in BOOLEAN
<1>1. CASE b \in Moves BY <1>1 DEF Moves
<1>2. CASE b \in Replaces BY <1>2 DEF Replaces
<1>3. CASE b = Hold BY <1>3 DEF Hold
<1>4. QED BY <1>1, <1>2, <1>3 DEF Blocks

LEMMA MoveTyped ==
    ASSUME NEW p \in Positions, NEW animated \in BOOLEAN
    PROVE  Move(p, animated) \in Blocks
<1>1. Move(p, animated) \in Moves BY DEF Move, Moves
<1>2. QED BY <1>1 DEF Blocks

LEMMA ReplaceTyped ==
    ASSUME NEW s \in Sides, NEW vc \in VCs[s] \cup {NoVC}, NEW animated \in BOOLEAN
    PROVE  Replace(s, vc, animated) \in Blocks
<1>1. Replace(s, vc, animated) \in Replaces
  BY VCsOfSide DEF Replace, Replaces
<1>2. QED BY <1>1 DEF Blocks

LEMMA HoldTyped == Hold \in Blocks
BY DEF Blocks

-----------------------------------------------------------------------------
(* The invariant. *)

(* The view state once the animation in flight is completed *)
Future == IF animations = <<>> THEN view ELSE Completed(view, animations[1])

(* At most one thing is in progress; what is in progress is the oldest     *)
(* block's, but for a tap's animation.                                     *)
Serial ==
    /\ Len(animations) <= 1
    /\ animations # <<>> => ~Panning /\ ~due /\ (queue # <<>> \/ Taps)
    /\ Panning => ~due
    /\ Panning \/ due => queue # <<>>
    /\ queue # <<>> => Panning \/ due \/ animations # <<>>
    /\ InteractionRestored

(* Before the view is loaded nothing is in progress or in the window. *)
Unloaded ==
    ~loaded => /\ queue = <<>> /\ animations = <<>>
               /\ view.container = {} /\ view.shown = {}

Positioned == view.position \in [Sides -> Positions]

Settling ==
    /\ loaded => Rested(Future)
    /\ ChildrenRested(Future)

RevealInv ==
    /\ TypeOK
    /\ Serial
    /\ Unloaded
    /\ Positioned
    /\ Settling

(* Who taps has no callers but buttons. *)
Orderly == Taps => Buttons

LEMMA ViewSound == TypeOK => Sound(view)
BY DEF TypeOK, Sound

LEMMA QueueShrinks ==
    ASSUME TypeOK, Dequeue
    PROVE  /\ queue' \in Seq(Blocks) /\ due' \in BOOLEAN
           /\ due' <=> queue' # <<>>
           /\ queue = <<>> => queue' = <<>>
           /\ queue # <<>> => queue' = Tail(queue)
<1>1. queue \in Seq(Blocks) BY DEF TypeOK
<1>2. /\ queue' = IF queue = <<>> THEN <<>> ELSE Tail(queue)
      /\ due' = (Len(queue) > 1)
  BY DEF Dequeue
<1>3. queue' \in Seq(Blocks) BY <1>1, <1>2, EmptySeq, HeadTailProperties
<1>4. queue' # <<>> <=> Len(queue) > 1
  <2>1. CASE queue = <<>> BY <1>2, <2>1
  <2>2. CASE queue # <<>>
    <3>1. /\ queue' \in Seq(Blocks) /\ Len(queue') = Len(queue) - 1
          /\ Len(queue) \in Nat
      BY <1>1, <1>2, <2>2, HeadTailProperties, LenProperties
    <3>2. queue' # <<>> <=> Len(queue') # 0 BY <3>1, EmptySeq
    <3>3. QED BY <3>1, <3>2, <1>1, <2>2, EmptySeq
  <2>3. QED BY <2>1, <2>2
<1>5. due' \in BOOLEAN
  <2>1. (Len(queue) > 1) \in BOOLEAN OBVIOUS
  <2>2. QED BY <1>2, <2>1, Zenon
<1>6. due' <=> queue' # <<>> BY <1>2, <1>4, Zenon
<1>7. QED BY <1>2, <1>3, <1>5, <1>6

(* Going on to another view state with nothing in flight *)
LEMMA PerformFacts ==
    ASSUME TypeOK, animations = <<>>, NEW w, NEW c \in Completions,
           NEW animated \in BOOLEAN, Sound(w), Sound(Completed(w, c)),
           Perform(w, c, animated)
    PROVE  /\ Sound(view')
           /\ queue' \in Seq(Blocks) /\ due' \in BOOLEAN
           /\ animations' \in Seq(Completions) /\ Len(animations') <= 1
           /\ Future' = Completed(w, c)
           /\ view' \in {w, Completed(w, c)}
           /\ animated => animations' # <<>> /\ ~due' /\ queue' = queue
           /\ ~animated => /\ animations' = <<>>
                           /\ due' <=> queue' # <<>>
                           /\ queue = <<>> => queue' = <<>>
                           /\ queue # <<>> => queue' = Tail(queue)
<1>1. CASE animated
  <2>1. view' = w /\ animations' = <<c>> /\ due' = FALSE /\ queue' = queue
    BY <1>1 DEF Perform
  <2>2. animations' \in Seq(Completions) /\ Len(animations') = 1
        /\ animations' # <<>> /\ animations'[1] = c
    BY <2>1
  <2>3. Future' = Completed(w, c) BY <2>1, <2>2 DEF Future
  <2>4. due' \in BOOLEAN /\ ~due' BY <2>1, Zenon
  <2>5. queue' \in Seq(Blocks) BY <2>1 DEF TypeOK
  <2>6. Len(animations') <= 1 BY <2>2
  <2>7. Sound(view') /\ view' \in {w, Completed(w, c)} BY <2>1
  <2>8. QED
    BY <1>1, <2>1, <2>2, <2>3, <2>4, <2>5, <2>6, <2>7
<1>2. CASE ~animated
  <2>1. view' = Completed(w, c) /\ animations' = <<>> /\ Dequeue
    BY <1>2 DEF Perform
  <2>2. QED BY <1>2, <2>1, QueueShrinks DEF Future
<1>3. QED BY <1>1, <1>2

-----------------------------------------------------------------------------
(* The steps *)

LEMMA CompletedFields ==
    ASSUME NEW v, Sound(v), NEW c \in Completions
    PROVE  /\ Sound(Completed(v, c))
           /\ Completed(v, c).controller = v.controller
           /\ Completed(v, c).position = v.position
<1>1. v \in Views BY DEF Sound
<1>2. /\ Completed(v, c) \in Views
      /\ Completed(v, c).controller = v.controller
      /\ Completed(v, c).position = v.position
  BY <1>1 DEF Completed, Views
<1>3. QED BY <1>2 DEF Sound

(* Layout leaves the front view in a place. *)
LEMMA LayoutTyped ==
    ASSUME LayoutSubviews, x \in Int, view'.position \in [Sides -> Positions]
    PROVE  x' \in Int
<1>1. view'.position["front"] \in Positions BY DEF Sides
<1>2. FrontLocation(view'.position["front"]) \in Int
  BY <1>1, FrontLocationBounded
<1>3. QED BY <1>2 DEF LayoutSubviews

(* Every step that goes on to another view state with nothing in flight *)
LEMMA PerformInv ==
    ASSUME RevealInv, animations = <<>>,
           NEW w, NEW c \in Completions, NEW animated \in BOOLEAN,
           Perform(w, c, animated),
           Sound(w), w.position \in [Sides -> Positions],
           loaded' \in BOOLEAN, x' \in Int, pan' = None, interaction' = TRUE,
           animated => queue # <<>> \/ Taps,
           loaded' => Rested(Completed(w, c)),
           ChildrenRested(Completed(w, c)),
           ~loaded' => /\ queue = <<>> /\ ~animated
                       /\ Completed(w, c).container = {}
                       /\ Completed(w, c).shown = {}
    PROVE  RevealInv'
<1> DEFINE z == Completed(w, c)
<1>1. Sound(z) /\ z.position = w.position BY CompletedFields
<1>2. TypeOK BY DEF RevealInv
<1>3. /\ Sound(view') /\ queue' \in Seq(Blocks) /\ due' \in BOOLEAN
      /\ animations' \in Seq(Completions) /\ Len(animations') <= 1
      /\ Future' = z /\ view' \in {w, z}
      /\ animated => animations' # <<>> /\ ~due' /\ queue' = queue
      /\ ~animated => /\ animations' = <<>>
                      /\ due' <=> queue' # <<>>
                      /\ queue = <<>> => queue' = <<>>
                      /\ queue # <<>> => queue' = Tail(queue)
  BY <1>1, <1>2, PerformFacts
<1>4. TypeOK'
  <2>1. /\ view' \in Views
        /\ \A s \in Sides : view'.controller[s] \in VCs[s] \cup {NoVC}
    BY <1>3 DEF Sound
  <2>2. QED BY <1>3, <2>1 DEF TypeOK
<1> HIDE DEF z
<1>5. Serial' BY <1>3 DEF Serial, InteractionRestored, Panning
<1>6. Unloaded'
  <2>1. ASSUME ~loaded' PROVE view' = z /\ animations' = <<>> /\ queue' = <<>>
    <3>1. ~animated /\ queue = <<>> BY <2>1
    <3>2. animations' = <<>> /\ queue' = <<>> BY <1>3, <3>1
    <3>3. QED BY <1>3, <3>2 DEF Future
  <2>2. QED BY <2>1 DEF Unloaded, z
<1>7. Positioned' BY <1>1, <1>3 DEF Positioned
<1>8. Settling' BY <1>3 DEF Settling, z
<1>9. QED BY <1>4, <1>5, <1>6, <1>7, <1>8 DEF RevealInv

(* Every move *)
LEMMA SetFrontInv ==
    ASSUME RevealInv, loaded, animations = <<>>,
           NEW p \in Positions, NEW animated \in BOOLEAN,
           NEW by \in {"block", "gesture"}, SetFront(p, animated, by),
           loaded' = loaded, pan' = None, interaction' = TRUE,
           animated => queue # <<>> \/ Taps
    PROVE  RevealInv'
<1> DEFINE w == Deployed(view, p, Sides)
           c == Deployment(view, p, Sides, by)
<1>1. TypeOK /\ Sound(view) BY ViewSound DEF RevealInv
<1>2. /\ Sound(w) /\ c \in Completions
      /\ w.position = Completed(w, c).position
      /\ Completed(w, c).position = [s \in Sides |-> Effective(view, s, p)]
  BY <1>1, MoveFields DEF Moved
<1>3. w.position \in [Sides -> Positions] BY <1>2, EffectiveTyped
<1>4. Rested(view) /\ ChildrenRested(view)
  BY DEF RevealInv, Settling, Future
<1>5. Rested(Completed(w, c)) BY <1>1, <1>4, MoveRests DEF Moved
<1>6. ChildrenRested(Completed(w, c)) BY <1>1, <1>4, MoveChildren DEF Moved
<1>7. Perform(w, c, animated) /\ LayoutSubviews BY DEF SetFront
<1> HIDE DEF w, c
<1>8. view'.position \in [Sides -> Positions]
  BY <1>2, <1>3, <1>7 DEF Perform
<1>9. x' \in Int BY <1>1, <1>7, <1>8, LayoutTyped DEF TypeOK
<1>10. loaded' \in BOOLEAN BY <1>1 DEF TypeOK
<1>11. QED
  BY <1>2, <1>3, <1>5, <1>6, <1>7, <1>9, <1>10, PerformInv

(* A replacement, whatever it replaces *)
LEMMA ReplaceFacts ==
    ASSUME NEW v, Sound(v), NEW s \in Sides, NEW vc \in VCs[s] \cup {NoVC}
    PROVE  LET w == Replaced(v, s, vc)
               c == Replacement(v, s, vc)
           IN /\ Sound(w) /\ c \in Completions /\ w.position = v.position
              /\ v.container = {} /\ v.shown = {}
                    => Completed(w, c).container = {} /\ Completed(w, c).shown = {}
<1> DEFINE w == Replaced(v, s, vc)
           c == Replacement(v, s, vc)
<1>1. CASE vc = v.controller[s]
  <2>1. w = v /\ c \in Completions /\ Completed(w, c) = v
    BY <1>1, ReplaceSame DEF Exchanged
  <2>2. QED BY <2>1
<1>2. CASE vc # v.controller[s]
  <2>1. /\ Sound(Replaced(v, s, vc)) /\ Replacement(v, s, vc) \in Completions
        /\ Replaced(v, s, vc).position = v.position
        /\ Exchanged(v, s, vc).controller = [v.controller EXCEPT ![s] = vc]
        /\ Exchanged(v, s, vc).position = v.position
        /\ Exchanged(v, s, vc).container = v.container
        /\ Exchanged(v, s, vc).shown
             = (v.shown \cup (IF s \in v.container THEN {vc} \ {NoVC} ELSE {}))
                  \ ({v.controller[s]} \ {NoVC})
    BY <1>2, ReplaceFields
  <2>2. Exchanged(v, s, vc) = Completed(w, c) BY DEF Exchanged
  <2> HIDE DEF w, c
  <2>3. Completed(w, c).container = v.container BY <2>1, <2>2
  <2>4. ASSUME v.container = {}, v.shown = {} PROVE Completed(w, c).shown = {}
    BY <2>1, <2>2, <2>4
  <2>5. QED BY <2>1, <2>2, <2>3, <2>4 DEF w, c
<1>3. QED BY <1>1, <1>2

(* Every replacement *)
LEMMA PerformTransitionInv ==
    ASSUME RevealInv, animations = <<>>, pan = None, interaction = TRUE,
           NEW s \in Sides, NEW vc \in VCs[s] \cup {NoVC},
           NEW animated \in BOOLEAN, PerformTransition(s, vc, animated),
           UNCHANGED <<loaded, pan, interaction>>,
           animated => queue # <<>>, ~loaded => ~animated
    PROVE  RevealInv'
<1> DEFINE w == Replaced(view, s, vc)
           c == Replacement(view, s, vc)
<1>1. TypeOK /\ Sound(view) BY ViewSound DEF RevealInv
<1>2. /\ Sound(w) /\ c \in Completions /\ w.position = view.position
      /\ ~loaded => Completed(w, c).container = {} /\ Completed(w, c).shown = {}
  <2>1. /\ Sound(w) /\ c \in Completions /\ w.position = view.position
        /\ view.container = {} /\ view.shown = {}
              => Completed(w, c).container = {} /\ Completed(w, c).shown = {}
    BY <1>1, ReplaceFacts
  <2>2. QED BY <2>1 DEF RevealInv, Unloaded
<1>3. w.position \in [Sides -> Positions]
  BY <1>2 DEF RevealInv, Positioned
<1>4. (loaded => Rested(view)) /\ ChildrenRested(view)
  BY DEF RevealInv, Settling, Future
<1>5. loaded => Rested(Completed(w, c)) BY <1>1, <1>4, ReplaceRests DEF Exchanged
<1>6. ChildrenRested(Completed(w, c)) BY <1>1, <1>4, ReplaceChildren DEF Exchanged
<1>7. Perform(w, c, animated) /\ x' = x BY DEF PerformTransition
<1>8. x' \in Int /\ loaded' \in BOOLEAN BY <1>1, <1>7 DEF TypeOK
<1>9. ~loaded => queue = <<>> BY DEF RevealInv, Unloaded
<1> HIDE DEF w, c
<1>10. QED
  BY <1>2, <1>3, <1>5, <1>6, <1>7, <1>8, <1>9, PerformInv
LEMMA EnqueueInv ==
    ASSUME RevealInv, loaded, MayCall, Orderly,
           NEW blocks \in Seq(Blocks), blocks # <<>>, Enqueue(blocks)
    PROVE  RevealInv'
<1>1. TypeOK /\ Serial BY DEF RevealInv
<1>2. queue \in Seq(Blocks) BY <1>1 DEF TypeOK
<1>3. queue' = queue \o blocks /\ UNCHANGED <<loaded, view, x, animations, pan, interaction>>
  BY DEF Enqueue
<1>4. queue' \in Seq(Blocks) /\ queue' # <<>>
  <2>1. Len(queue) \in Nat /\ Len(blocks) \in Nat /\ Len(blocks) # 0
    BY <1>2, EmptySeq, LenProperties
  <2>2. queue' \in Seq(Blocks) /\ Len(queue') = Len(queue) + Len(blocks)
    BY <1>2, <1>3, ConcatProperties
  <2>3. QED BY <2>1, <2>2, EmptySeq
<1>5. due' \in BOOLEAN /\ (due' <=> queue = <<>>)
  <2>1. due' = (queue = <<>>) BY DEF Enqueue
  <2>2. QED BY <2>1, Zenon
<1>6. queue = <<>> => animations = <<>> /\ ~Panning
  <2>1. Taps => animations = <<>> BY DEF Orderly, MayCall, Touchable
  <2>2. QED BY <1>1, <2>1 DEF Serial
<1>7. TypeOK' BY <1>1, <1>3, <1>4, <1>5 DEF TypeOK
<1>8. Serial'
  <2>1. ~due BY DEF MayCall
  <2>2. QED
    BY <1>1, <1>3, <1>4, <1>5, <1>6, <2>1
       DEF Serial, InteractionRestored, Panning
<1>9. Unloaded' /\ Positioned' /\ Settling'
  BY <1>3 DEF RevealInv, Unloaded, Positioned, Settling, Future
<1>10. QED BY <1>7, <1>8, <1>9 DEF RevealInv

(* The oldest block is done, and nothing is in progress any more. *)
LEMMA DequeueInv ==
    ASSUME RevealInv, loaded, Dequeue, animations' = <<>>,
           pan' = None, interaction' = TRUE,
           view' = Future, UNCHANGED <<loaded, x>>
    PROVE  RevealInv'
<1>1. TypeOK /\ Serial /\ Sound(view) BY ViewSound DEF RevealInv
<1>2. /\ queue' \in Seq(Blocks) /\ due' \in BOOLEAN
      /\ due' <=> queue' # <<>>
  BY <1>1, QueueShrinks
<1>3. Sound(view') /\ view'.position = view.position
  <2>1. CASE animations = <<>> BY <1>1, <2>1 DEF Future
  <2>2. CASE animations # <<>>
    <3>1. animations \in Seq(Completions) BY <1>1 DEF TypeOK
    <3>2. animations[1] \in Completions BY <2>2, <3>1, ElementOfSeq, LenProperties, EmptySeq
    <3>3. view' = Completed(view, animations[1]) BY <2>2 DEF Future
    <3>4. QED BY <1>1, <3>2, <3>3, CompletedFields
  <2>3. QED BY <2>1, <2>2
<1>4. animations' \in Seq(Completions) /\ Len(animations') = 0 OBVIOUS
<1>5. TypeOK' BY <1>1, <1>2, <1>3, <1>4 DEF TypeOK, Sound
<1>6. Serial' BY <1>2, <1>4 DEF Serial, InteractionRestored, Panning
<1>7. Future' = Future BY DEF Future
<1>8. Unloaded' /\ Positioned' /\ Settling'
  BY <1>3, <1>7 DEF RevealInv, Unloaded, Positioned, Settling
<1>9. QED BY <1>5, <1>6, <1>8 DEF RevealInv

(* The one animation in flight is the one that ends. *)
LEMMA OneAnimation ==
    ASSUME TypeOK, Serial, NEW i \in DOMAIN animations, AnimationDone(i)
    PROVE  i = 1 /\ animations # <<>> /\ animations' = <<>>
<1>1. animations \in Seq(Completions) BY DEF TypeOK
<1>2. Len(animations) \in Nat /\ DOMAIN animations = 1 .. Len(animations)
  BY <1>1, LenProperties
<1>3. Len(animations) = 1 /\ i = 1 BY <1>2 DEF Serial
<1>4. animations' = SubSeq(animations, 1, 0) \o SubSeq(animations, 2, 1)
  BY <1>3 DEF AnimationDone
<1>5. SubSeq(animations, 1, 0) = <<>> /\ SubSeq(animations, 2, 1) = <<>>
  BY <1>1, SubSeqEmpty
<1>6. QED BY <1>3, <1>4, <1>5

LEMMA AnimationDoneInv ==
    ASSUME RevealInv, NEW i \in DOMAIN animations, AnimationDone(i)
    PROVE  RevealInv'
<1>1. TypeOK /\ Serial /\ Unloaded BY DEF RevealInv
<1>2. i = 1 /\ animations # <<>> /\ animations' = <<>> BY <1>1, OneAnimation
<1>3. loaded /\ ~Panning BY <1>1, <1>2 DEF Unloaded, Serial
<1>4. interaction = TRUE BY <1>1, <1>3 DEF Serial, InteractionRestored, TypeOK
<1>5. view' = Future BY <1>2 DEF AnimationDone, Future
<1>6. Dequeue /\ UNCHANGED <<loaded, x, pan, interaction>> BY DEF AnimationDone
<1>7. QED BY <1>2, <1>3, <1>4, <1>5, <1>6, DequeueInv DEF Panning

LEMMA PanCancelledInv ==
    ASSUME RevealInv, PanCancelled
    PROVE  RevealInv'
<1>1. Serial /\ Unloaded BY DEF RevealInv
<1>2. loaded /\ animations = <<>>
  BY <1>1 DEF PanCancelled, Serial, Unloaded, Panning
<1>3. QED BY <1>2, DequeueInv DEF PanCancelled, Future

LEMMA RunBlockInv ==
    ASSUME RevealInv, RunBlock
    PROVE  RevealInv'
<1>1. TypeOK /\ Serial /\ Unloaded BY DEF RevealInv
<1>2. due /\ queue # <<>> BY <1>1 DEF RunBlock, Serial
<1>3. loaded /\ animations = <<>> /\ pan = None
  BY <1>1, <1>2 DEF Serial, Unloaded, Panning
<1>4. interaction = TRUE
  BY <1>1, <1>3 DEF Serial, InteractionRestored, Panning, TypeOK
<1>5. Head(queue) \in Blocks
  BY <1>1, <1>2, HeadTailProperties DEF TypeOK
<1>6. CASE Head(queue).op = "move"
           /\ SetFront(Head(queue).to, Head(queue).animated, "block")
  <2>1. Head(queue).to \in Positions /\ Head(queue).animated \in BOOLEAN
    BY <1>5, <1>6, BlockTypes
  <2>2. QED BY <1>2, <1>3, <1>4, <1>6, <2>1, SetFrontInv DEF RunBlock
<1>7. CASE Head(queue).op = "replace"
           /\ PerformTransition(Head(queue).side, Head(queue).new, Head(queue).animated)
  <2>1. /\ Head(queue).side \in Sides
        /\ Head(queue).new \in VCs[Head(queue).side] \cup {NoVC}
        /\ Head(queue).animated \in BOOLEAN
    BY <1>5, <1>7, BlockTypes
  <2>2. QED BY <1>2, <1>3, <1>4, <1>7, <2>1, PerformTransitionInv DEF RunBlock
<1>8. QED BY <1>6, <1>7 DEF RunBlock

LEMMA TapInv ==
    ASSUME RevealInv, Tap
    PROVE  RevealInv'
<1>1. TypeOK /\ Serial BY DEF RevealInv
<1>2. loaded /\ queue = <<>> /\ animations = <<>> /\ Taps /\ interaction
  BY DEF Tap, ShouldBegin, Touchable
<1>3. pan = None /\ interaction = TRUE
  BY <1>1, <1>2 DEF Serial, Panning, InteractionRestored, TypeOK
<1>4. Left \in Positions BY DEF Positions
<1>5. SetFront(Left, TRUE, "gesture") BY DEF Tap
<1>6. UNCHANGED <<loaded, pan, interaction>> BY DEF Tap
<1> HIDE DEF Left
<1>7. QED BY <1>2, <1>3, <1>4, <1>5, <1>6, SetFrontInv
LEMMA PanBeganInv ==
    ASSUME RevealInv, NEW t \in Drags, PanBegan(t)
    PROVE  RevealInv'
<1>1. TypeOK /\ Serial /\ Positioned BY DEF RevealInv
<1>2. loaded /\ ~due /\ queue = <<>> /\ animations = <<>>
  BY DEF PanBegan, ShouldBegin, Touchable
<1>3. /\ queue' = <<Hold>> /\ pan' = view.position["front"] /\ interaction' = FALSE
      /\ UNCHANGED <<loaded, view, x, due, animations>>
  BY DEF PanBegan
<1>4. queue' \in Seq(Blocks) /\ queue' # <<>> BY <1>3, HoldTyped
<1>5. pan' \in Positions /\ pan' # None
  BY <1>1, <1>3 DEF Positioned, Sides, Positions
<1>6. TypeOK' BY <1>1, <1>3, <1>4, <1>5 DEF TypeOK
<1>7. Serial' BY <1>1, <1>2, <1>3, <1>4, <1>5 DEF Serial, InteractionRestored, Panning
<1>8. Unloaded' /\ Positioned' /\ Settling'
  BY <1>2, <1>3 DEF RevealInv, Unloaded, Positioned, Settling, Future
<1>9. QED BY <1>6, <1>7, <1>8 DEF RevealInv

LEMMA PanChangedInv ==
    ASSUME RevealInv, NEW t \in Drags, PanChanged(t)
    PROVE  RevealInv'
<1> DEFINE sides == {"rear", "right"}
<1>1. TypeOK /\ Serial /\ Unloaded /\ Positioned /\ Sound(view)
  BY ViewSound DEF RevealInv
<1>2. Panning /\ UNCHANGED <<loaded, queue, due, animations, pan, interaction>>
  BY DEF PanChanged
<1>3. loaded /\ animations = <<>>
  BY <1>1, <1>2 DEF Serial, Unloaded
<1>4. pan \in Positions BY <1>1, <1>2 DEF TypeOK, Panning
<1>5. t \in Int BY RevealAssumption
<1>6. x' \in Int
  <2> DEFINE to == FrontLocation(pan) + t
  <2>1. to \in Int BY <1>4, <1>5, FrontLocationBounded
  <2>2. PICK to2 \in {0, to} : x' = AdjustedDrag(to2, view.position["front"])
    BY DEF PanChanged
  <2>3. QED BY <2>1, <2>2, AdjustedDragBounded
<1>7. Rested(view) /\ ChildrenRested(view)
  BY <1>3 DEF RevealInv, Settling, Future
<1>8. view' \in {view, Moved(view, LeftSide, sides, "gesture"),
                 Moved(view, Right, sides, "gesture")}
  BY DEF PanChanged, Swept, Moved
<1>9. ASSUME NEW p \in {LeftSide, Right}
      PROVE  LET w == Moved(view, p, sides, "gesture")
             IN Sound(w) /\ w.position \in [Sides -> Positions]
                  /\ Rested(w) /\ ChildrenRested(w)
  <2>1. p \in Positions /\ sides \in SUBSET Sides BY DEF Positions, Sides
  <2> HIDE DEF LeftSide, Right, sides
  <2>2. /\ Sound(Moved(view, p, sides, "gesture"))
        /\ Moved(view, p, sides, "gesture").position
              = [s \in Sides |-> IF s \in sides THEN Effective(view, s, p)
                                                 ELSE view.position[s]]
    BY <1>1, <2>1, MoveFields
  <2>3. Moved(view, p, sides, "gesture").position \in [Sides -> Positions]
    BY <1>1, <2>1, <2>2, EffectiveTyped DEF Positioned
  <2>4. Rested(Moved(view, p, sides, "gesture")) BY <1>1, <1>7, <2>1, MoveRests
  <2>5. ChildrenRested(Moved(view, p, sides, "gesture"))
    BY <1>1, <1>7, <2>1, MoveChildren
  <2>6. QED BY <2>2, <2>3, <2>4, <2>5
<1>10. /\ Sound(view') /\ view'.position \in [Sides -> Positions]
       /\ Rested(view') /\ ChildrenRested(view')
  <2>1. CASE view' = view BY <1>1, <1>7, <2>1 DEF Positioned
  <2>2. CASE view' # view
    <3>1. PICK p \in {LeftSide, Right} : view' = Moved(view, p, sides, "gesture")
      BY <1>8, <2>2
    <3> HIDE DEF LeftSide, Right, sides
    <3>2. QED BY <1>9, <3>1
  <2>3. QED BY <2>1, <2>2
<1>11. TypeOK' BY <1>1, <1>2, <1>6, <1>10 DEF TypeOK, Sound
<1>12. Serial' BY <1>1, <1>2 DEF Serial, InteractionRestored, Panning
<1>13. Unloaded' /\ Positioned' BY <1>2, <1>3, <1>10 DEF Unloaded, Positioned
<1>14. Settling' BY <1>2, <1>3, <1>10 DEF Settling, Future
<1>15. QED BY <1>11, <1>12, <1>13, <1>14 DEF RevealInv

LEMMA PanEndedInv ==
    ASSUME RevealInv, NEW velocity \in Velocities, PanEnded(velocity)
    PROVE  RevealInv'
<1> DEFINE p == PanTarget(x, velocity)
           animated == PanAnimated(x, velocity)
<1>1. TypeOK /\ Serial /\ Unloaded BY DEF RevealInv
<1>2. Panning BY DEF PanEnded
<1>3. loaded /\ animations = <<>> /\ queue # <<>>
  BY <1>1, <1>2 DEF Serial, Unloaded
<1>4. x \in Int /\ velocity \in Int BY <1>1, RevealAssumption DEF TypeOK
<1>5. p \in Positions BY <1>4, PanTargetTyped
<1>6. animated \in BOOLEAN BY DEF PanAnimated
<1>7. /\ SetFront(p, animated, "gesture")
      /\ loaded' = loaded /\ pan' = None /\ interaction' = TRUE
  BY DEF PanEnded
<1> HIDE DEF p, animated
<1>8. QED BY <1>3, <1>5, <1>6, <1>7, SetFrontInv

LEMMA LayoutPassInv ==
    ASSUME RevealInv, LayoutPass
    PROVE  RevealInv'
<1>1. TypeOK /\ Serial /\ Unloaded /\ Positioned /\ Settling BY DEF RevealInv
<1>2. UNCHANGED <<loaded, view, queue, due, animations, pan, interaction>>
  BY DEF LayoutPass
<1>3. x' \in Int BY <1>1, <1>2, LayoutTyped DEF LayoutPass, TypeOK, Positioned
<1>4. TypeOK' BY <1>1, <1>2, <1>3 DEF TypeOK
<1>5. Serial' BY <1>1, <1>2 DEF Serial, InteractionRestored, Panning
<1>6. Unloaded' /\ Positioned' /\ Settling'
  BY <1>1, <1>2 DEF Unloaded, Positioned, Settling, Future
<1>7. QED BY <1>4, <1>5, <1>6 DEF RevealInv
(* The view state in which loadView starts to deploy *)
LEMMA LoadedSound ==
    ASSUME RevealInv
    PROVE  /\ Sound(Unrevealed)
           /\ Unrevealed.controller = Segued /\ Unrevealed.container = {"front"}
           /\ Unrevealed.shown = view.shown
           /\ Unrevealed.children = {Segued[s] : s \in Sides} \ {NoVC}
           /\ Unrevealed.position = [s \in Sides |-> None]
<1> DEFINE w == Unrevealed
<1>1. view \in Views /\ \A s \in Sides : view.controller[s] \in VCs[s] \cup {NoVC}
  BY DEF RevealInv, TypeOK
<1>2. /\ Segued \in [Sides -> AllVCs \cup {NoVC}]
      /\ \A s \in Sides : Segued[s] \in VCs[s] \cup {NoVC}
  <2>1. view.controller \in [Sides -> AllVCs \cup {NoVC}] BY <1>1 DEF Views
  <2>2. /\ Storyboard \in [Sides -> AllVCs \cup {NoVC}]
        /\ \A s \in Sides : Storyboard[s] \in VCs[s] \cup {NoVC}
    BY RevealAssumption
  <2>3. QED BY <1>1, <2>1, <2>2 DEF Segued
<1>3. /\ w \in Views
      /\ w.controller = Segued /\ w.container = {"front"}
      /\ w.shown = view.shown
      /\ w.children = {Segued[s] : s \in Sides} \ {NoVC}
      /\ w.position = [s \in Sides |-> None]
  <2>1. {Segued[s] : s \in Sides} \ {NoVC} \in SUBSET AllVCs BY <1>2
  <2>2. [s \in Sides |-> None] \in [Sides -> Positions \cup {None}] OBVIOUS
  <2>3. {"front"} \in SUBSET Sides BY DEF Sides
  <2>4. QED BY <1>1, <1>2, <2>1, <2>2, <2>3 DEF Views, Unrevealed
<1> HIDE DEF w
<1>4. Sound(w) BY <1>2, <1>3 DEF Sound
<1>5. QED BY <1>3, <1>4 DEF w

LEMMA LoadViewInv ==
    ASSUME RevealInv, LoadView
    PROVE  RevealInv'
<1> DEFINE p == view.position["front"]
           d == Deployed(Unrevealed, p, Sides)
           c == Deployment(Unrevealed, p, Sides, "block")
<1>1. TypeOK /\ Serial /\ Unloaded /\ Positioned BY DEF RevealInv
<1>2. ~loaded BY DEF LoadView
<1>3. /\ queue = <<>> /\ animations = <<>> /\ view.shown = {}
      /\ pan = None /\ interaction = TRUE
  BY <1>1, <1>2 DEF Unloaded, Serial, Panning, InteractionRestored, TypeOK
<1>5. /\ Sound(Unrevealed)
      /\ Unrevealed.controller = Segued /\ Unrevealed.container = {"front"} /\ Unrevealed.shown = {}
      /\ Unrevealed.children = {Segued[s] : s \in Sides} \ {NoVC}
      /\ Unrevealed.position = [s \in Sides |-> None]
  BY <1>3, LoadedSound
<1>6. Sound(Unrevealed) BY <1>5
<1>7. Rested(Unrevealed)
  <2>1. ASSUME NEW s \in Sides PROVE ~InSight(s, Unrevealed.position[s])
    BY <1>5, <2>1 DEF InSight
  <2>2. MenuRested(Unrevealed) BY <1>5, <2>1 DEF MenuRested, Sides
  <2>3. FrontRested(Unrevealed) BY <1>5, <2>1 DEF FrontRested, Sides
  <2>4. QED BY <2>2, <2>3 DEF Rested
<1>8. ChildrenRested(Unrevealed) BY <1>5 DEF ChildrenRested, Some
<1>9. p \in Positions BY <1>1 DEF Positioned, Sides
<1>10. /\ Sound(d) /\ c \in Completions
       /\ d.position = Completed(d, c).position
       /\ Completed(d, c).position = [s \in Sides |-> Effective(Unrevealed, s, p)]
  BY <1>6, <1>9, MoveFields DEF Moved
<1>11. d.position \in [Sides -> Positions] BY <1>9, <1>10, EffectiveTyped
<1>12. Rested(Completed(d, c)) BY <1>6, <1>7, <1>9, MoveRests DEF Moved
<1>13. ChildrenRested(Completed(d, c)) BY <1>6, <1>8, <1>9, MoveChildren DEF Moved
<1>14. /\ Perform(d, c, FALSE) /\ LayoutSubviews /\ loaded' = TRUE
       /\ UNCHANGED <<pan, interaction>>
  BY DEF LoadView
<1> HIDE DEF d, c
<1>15. view'.position \in [Sides -> Positions]
  BY <1>10, <1>11, <1>14 DEF Perform
<1>16. x' \in Int BY <1>1, <1>14, <1>15, LayoutTyped DEF TypeOK
<1>17. QED
  BY <1>3, <1>10, <1>11, <1>12, <1>13, <1>14, <1>16, PerformInv

LEMMA SetFrontViewPositionInv ==
    ASSUME RevealInv, Orderly, NEW p \in Positions, NEW animated \in BOOLEAN,
           SetFrontViewPosition(p, animated)
    PROVE  RevealInv'
<1>1. CASE loaded /\ Enqueue(<<Move(p, animated)>>)
  <2>1. <<Move(p, animated)>> \in Seq(Blocks) BY MoveTyped
  <2>2. <<Move(p, animated)>> # <<>> OBVIOUS
  <2>3. QED BY <1>1, <2>1, <2>2, EnqueueInv DEF SetFrontViewPosition
<1>2. CASE /\ ~loaded
           /\ view' = [view EXCEPT !.position = [s \in Sides |-> p]]
           /\ UNCHANGED <<loaded, x, queue, due, animations, pan, interaction>>
  <2>1. TypeOK /\ Serial /\ Unloaded /\ Positioned /\ Settling BY DEF RevealInv
  <2>2. /\ view' \in Views /\ view'.controller = view.controller
        /\ view'.container = view.container /\ view'.shown = view.shown
        /\ view'.children = view.children
        /\ view'.position = [s \in Sides |-> p]
    BY <1>2, <2>1 DEF TypeOK, Views
  <2>3. TypeOK' BY <1>2, <2>1, <2>2 DEF TypeOK
  <2>4. Serial' BY <1>2, <2>1 DEF Serial, InteractionRestored, Panning
  <2>5. Unloaded' /\ Positioned' BY <1>2, <2>1, <2>2 DEF Unloaded, Positioned
  <2>6. Settling'
    <3>1. animations = <<>> BY <1>2, <2>1 DEF Unloaded
    <3>2. ChildrenRested(view) BY <2>1, <3>1 DEF Settling, Future
    <3>3. ChildrenRested(view') BY <2>2, <3>2 DEF ChildrenRested, Some
    <3>4. QED BY <1>2, <3>1, <3>3 DEF Settling, Future
  <2>7. QED BY <2>3, <2>4, <2>5, <2>6 DEF RevealInv
<1>3. QED BY <1>1, <1>2 DEF SetFrontViewPosition

LEMMA SetBeforeLoadInv ==
    ASSUME RevealInv, NEW s \in Sides, NEW vc \in VCs[s] \cup {NoVC},
           SetBeforeLoad(s, vc)
    PROVE  RevealInv'
<1>1. TypeOK /\ Serial /\ Unloaded BY DEF RevealInv
<1>2. /\ animations = <<>> /\ pan = None /\ interaction = TRUE
  BY <1>1 DEF SetBeforeLoad, Unloaded, Serial, Panning, InteractionRestored, TypeOK
<1>3. /\ PerformTransition(s, vc, FALSE)
      /\ UNCHANGED <<loaded, pan, interaction>>
  BY DEF SetBeforeLoad
<1>4. QED BY <1>2, <1>3, PerformTransitionInv

LEMMA SetViewControllerInv ==
    ASSUME RevealInv, Orderly, NEW s \in Sides, NEW vc \in Settable(s),
           NEW animated \in BOOLEAN, SetViewController(s, vc, animated)
    PROVE  RevealInv'
<1>1. vc \in VCs[s] \cup {NoVC} BY DEF Settable
<1>2. CASE loaded /\ Enqueue(<<Replace(s, vc, animated)>>)
  <2>1. <<Replace(s, vc, animated)>> \in Seq(Blocks) BY <1>1, ReplaceTyped
  <2>2. <<Replace(s, vc, animated)>> # <<>> OBVIOUS
  <2>3. QED BY <1>2, <2>1, <2>2, EnqueueInv DEF SetViewController
<1>3. CASE SetBeforeLoad(s, vc) BY <1>1, <1>3, SetBeforeLoadInv
<1>4. QED BY <1>2, <1>3 DEF SetViewController

(* What a push enqueues *)
LEMMA PushBlocks ==
    ASSUME Positioned, NEW vc \in FrontVCs, NEW animated \in BOOLEAN,
           PushFrontViewController(vc, animated)
    PROVE  \/ SetBeforeLoad("front", vc)
           \/ \E blocks \in Seq(Blocks) : loaded /\ blocks # <<>> /\ Enqueue(blocks)
<1> DEFINE front == view.position["front"]
           aside == PushTarget(front)
           steps == <<Move(aside, aside # front), Replace("front", vc, FALSE),
                      Move(Left, TRUE)>>
           step == <<Replace("front", vc, FALSE)>>
<1>1. "front" \in Sides /\ vc \in VCs["front"] \cup {NoVC} BY DEF Sides, VCs
<1>2. front \in Positions /\ aside \in Positions /\ Left \in Positions
  BY CallTargetsTyped DEF Positioned, Sides, Positions
<1>3. /\ Move(aside, aside # front) \in Blocks
      /\ Replace("front", vc, FALSE) \in Blocks
      /\ Move(Left, TRUE) \in Blocks
  BY <1>1, <1>2, MoveTyped, ReplaceTyped
<1>4. /\ steps \in Seq(Blocks) /\ steps # <<>>
      /\ step \in Seq(Blocks) /\ step # <<>>
  <2>1. ASSUME NEW a \in Blocks, NEW b \in Blocks, NEW c \in Blocks
        PROVE  /\ <<a, b, c>> \in Seq(Blocks) /\ <<a, b, c>> # <<>>
               /\ <<b>> \in Seq(Blocks) /\ <<b>> # <<>>
    OBVIOUS
  <2>2. QED BY <1>3, <2>1, Zenon
<1>5. \/ SetBeforeLoad("front", vc)
      \/ loaded /\ (Enqueue(steps) \/ Enqueue(step))
  BY DEF PushFrontViewController
<1> HIDE DEF steps, step
<1>6. QED BY <1>4, <1>5

LEMMA PushFrontViewControllerInv ==
    ASSUME RevealInv, Orderly, NEW vc \in FrontVCs, NEW animated \in BOOLEAN,
           PushFrontViewController(vc, animated)
    PROVE  RevealInv'
<1>1. "front" \in Sides /\ vc \in VCs["front"] \cup {NoVC} BY DEF Sides, VCs
<1>2. MayCall BY DEF PushFrontViewController
<1>3. CASE SetBeforeLoad("front", vc) BY <1>1, <1>3, SetBeforeLoadInv
<1>4. ASSUME NEW blocks \in Seq(Blocks), loaded, blocks # <<>>, Enqueue(blocks)
      PROVE  RevealInv'
  BY <1>2, <1>4, EnqueueInv
<1>5. QED BY <1>3, <1>4, PushBlocks DEF RevealInv

-----------------------------------------------------------------------------
(* The invariant holds. *)

LEMMA InitInv == Init => RevealInv
<1> SUFFICES ASSUME Init PROVE RevealInv OBVIOUS
<1> USE DEF Init
<1>1. /\ view.controller = [s \in Sides |-> NoVC]
      /\ view.position = [s \in Sides |-> Left]
      /\ view.container = {} /\ view.shown = {} /\ view.children = {}
  OBVIOUS
<1>2. Left \in Positions BY DEF Positions
<1>3. TypeOK
  <2>1. view \in Views BY <1>2 DEF Views
  <2>2. \A s \in Sides : view.controller[s] \in VCs[s] \cup {NoVC} BY <1>1
  <2>3. queue \in Seq(Blocks) /\ animations \in Seq(Completions) OBVIOUS
  <2>4. /\ loaded \in BOOLEAN /\ due \in BOOLEAN /\ interaction \in BOOLEAN
        /\ pan \in Positions \cup {None}
    BY Zenon
  <2>5. x \in Int OBVIOUS
  <2>6. QED BY <2>1, <2>2, <2>3, <2>4, <2>5, Zenon DEF TypeOK
<1>4. Serial BY DEF Serial, InteractionRestored, Panning
<1>5. Unloaded /\ Positioned BY <1>1, <1>2 DEF Unloaded, Positioned
<1>6. Settling
  <2>1. Some(view, Sides) = {} BY <1>1 DEF Some
  <2>2. QED BY <1>1, <2>1 DEF Settling, Future, ChildrenRested
<1>7. QED BY <1>3, <1>4, <1>5, <1>6 DEF RevealInv

LEMMA NextInv ==
    ASSUME RevealInv, Orderly, [Next]_vars
    PROVE  RevealInv'
<1>1. CASE LoadView BY <1>1, LoadViewInv
<1>2. CASE Call
  <2>1. view.position["front"] \in Positions
    BY DEF RevealInv, Positioned, Sides
  <2>2. ASSUME NEW animated \in BOOLEAN, NEW p \in Targets,
               SetFrontViewPosition(p, animated)
        PROVE  RevealInv'
    BY <2>2, RevealAssumption, SetFrontViewPositionInv
  <2>3. ASSUME NEW animated \in BOOLEAN, RevealToggle(animated)
        PROVE  RevealInv'
    BY <2>1, <2>3, CallTargetsTyped, SetFrontViewPositionInv DEF RevealToggle
  <2>4. ASSUME NEW animated \in BOOLEAN, RightRevealToggle(animated)
        PROVE  RevealInv'
    BY <2>1, <2>4, CallTargetsTyped, SetFrontViewPositionInv DEF RightRevealToggle
  <2>5. ASSUME NEW animated \in BOOLEAN, NEW s \in Sides, NEW vc \in Settable(s),
               SetViewController(s, vc, animated)
        PROVE  RevealInv'
    BY <2>5, SetViewControllerInv
  <2>6. ASSUME NEW animated \in BOOLEAN, NEW vc \in FrontVCs,
               PushFrontViewController(vc, animated)
        PROVE  RevealInv'
    BY <2>6, PushFrontViewControllerInv
  <2>7. QED BY <1>2, <2>2, <2>3, <2>4, <2>5, <2>6 DEF Call
<1>3. CASE Tap BY <1>3, TapInv
<1>4. ASSUME NEW t \in Drags, PanBegan(t) PROVE RevealInv'
  BY <1>4, PanBeganInv
<1>5. ASSUME NEW t \in Drags, PanChanged(t) PROVE RevealInv'
  BY <1>5, PanChangedInv
<1>6. CASE FingerLeaves BY <1>6, PanEndedInv, PanCancelledInv DEF FingerLeaves
<1>7. CASE RunBlock BY <1>7, RunBlockInv
<1>8. CASE AnimationEnds BY <1>8, AnimationDoneInv DEF AnimationEnds
<1>9. CASE LayoutPass BY <1>9, LayoutPassInv
<1>10. CASE UNCHANGED vars
  BY <1>10 DEF vars, RevealInv, TypeOK, Serial, InteractionRestored, Panning,
               Unloaded, Positioned, Settling, Future
<1>11. QED
  BY <1>1, <1>2, <1>3, <1>4, <1>5, <1>6, <1>7, <1>8, <1>9, <1>10 DEF Next
-----------------------------------------------------------------------------
(* The results. *)

(* RevealInv holds in every behaviour in which whoever taps has no callers *)
(* but buttons.                                                            *)
THEOREM RevealInvariant ==
    ASSUME Orderly
    PROVE  Spec => []RevealInv
<1>1. RevealInv /\ [Next]_vars => RevealInv' BY NextInv
<1>2. QED BY InitInv, <1>1, PTL DEF Spec

(* Positions, controllers, views, blocks and completions are what TypeOK   *)
(* says that they are.                                                     *)
THEOREM RevealTyped ==
    ASSUME Orderly
    PROVE  Spec => []TypeOK
<1>1. RevealInv => TypeOK BY DEF RevealInv
<1>2. QED BY RevealInvariant, <1>1, PTL

(* At rest the menu and the right view are in the window exactly when they *)
(* are revealed, the front view shows its controller and no other, and the *)
(* children are the controllers on the three sides.                        *)
THEOREM ViewsInPlace ==
    ASSUME Orderly
    PROVE  Spec => [](MenuInPlace /\ ControllersInPlace)
<1>1. RevealInv => MenuInPlace /\ ControllersInPlace
  BY DEF RevealInv, Settling, Rested, Future, AtRest,
         MenuInPlace, ControllersInPlace
<1>2. QED BY RevealInvariant, <1>1, PTL

(* Where nobody taps, each block in the queue is paired with what performs *)
(* it.                                                                     *)
THEOREM QueuePaired ==
    ASSUME ~Taps
    PROVE  Spec => []Paired
<1>1. Orderly BY DEF Orderly
<1>2. RevealInv => Paired
  <2> SUFFICES ASSUME RevealInv PROVE Paired OBVIOUS
  <2>2. TypeOK /\ Serial BY DEF RevealInv
  <2>3. animations \in Seq(Completions) /\ Len(animations) \in Nat
        /\ (animations = <<>> <=> Len(animations) = 0)
    BY <2>2, LenProperties, EmptySeq DEF TypeOK
  <2>4. CASE queue = <<>>
    <3>1. animations = <<>> /\ ~Panning /\ ~due BY <2>2, <2>4 DEF Serial
    <3>2. QED BY <2>3, <2>4, <3>1 DEF Paired
  <2>5. CASE queue # <<>>
    <3>1. CASE animations # <<>>
      <4>1. Len(animations) = 1
        <5>1. Len(animations) <= 1 BY <2>2 DEF Serial
        <5>2. QED BY <2>3, <3>1, <5>1
      <4>2. ~Panning /\ ~due BY <2>2, <3>1 DEF Serial
      <4>3. QED BY <2>5, <4>1, <4>2 DEF Paired
    <3>2. CASE Panning
      <4>1. Len(animations) = 0 /\ ~due BY <2>2, <2>3, <3>2 DEF Serial
      <4>2. QED BY <2>5, <3>2, <4>1 DEF Paired
    <3>3. CASE due
      <4>1. Len(animations) = 0 /\ ~Panning BY <2>2, <2>3, <3>3 DEF Serial
      <4>2. QED BY <2>5, <3>3, <4>1 DEF Paired
    <3>4. QED BY <2>2, <2>5, <3>1, <3>2, <3>3 DEF Serial
  <2>6. QED BY <2>4, <2>5
<1>3. QED BY <1>1, RevealInvariant, <1>2, PTL

(* The views take touches unless a pan is in progress. *)
THEOREM TouchesRestored ==
    ASSUME Orderly
    PROVE  Spec => []InteractionRestored
<1>1. RevealInv => InteractionRestored BY DEF RevealInv, Serial
<1>2. QED BY RevealInvariant, <1>1, PTL
-----------------------------------------------------------------------------
(* The queue keeps the order.  The abstract specification's state is the   *)
(* queue, and whether its oldest block is in progress.                     *)
Performing == Panning \/ animations # <<>>

LEMMA PromiseInit == Init => Promise!Init
BY DEF Init, Promise!Init, Panning

(* What each way of changing the queue is to the abstract specification *)
LEMMA AskStep ==
    ASSUME TypeOK, NEW blocks \in Seq(Blocks), blocks # <<>>, Enqueue(blocks)
    PROVE  Promise!Ask
<1>1. queue \in Seq(Blocks) BY DEF TypeOK
<1>2. queue' = queue \o blocks /\ UNCHANGED <<animations, pan>> BY DEF Enqueue
<1>3. Len(queue) \in Nat /\ Len(blocks) \in Nat /\ Len(blocks) # 0
  BY <1>1, EmptySeq, LenProperties
<1>4. Len(queue') = Len(queue) + Len(blocks) BY <1>1, <1>2, ConcatProperties
<1>5. SubSeq(queue', 1, Len(queue)) = queue
  BY <1>1, <1>2, SubSeqOfConcat1, SubSeqFull
<1>6. QED BY <1>2, <1>3, <1>4, <1>5 DEF Promise!Ask, Panning

LEMMA EndStep ==
    ASSUME TypeOK, Dequeue, queue # <<>>, pan' = None, animations' = <<>>
    PROVE  Promise!End
<1>1. queue' = Tail(queue) BY QueueShrinks
<1>2. QED BY <1>1 DEF Promise!End, Panning

(* A block or a gesture goes on to another view state. *)
LEMMA PerformStep ==
    ASSUME TypeOK, animations = <<>>, queue # <<>>, pan' = None,
           NEW w, NEW c, NEW animated \in BOOLEAN, Perform(w, c, animated)
    PROVE  \/ ~animated /\ Promise!End
           \/ animated /\ animations' # <<>> /\ queue' = queue
<1>1. CASE animated
  <2>1. queue' = queue /\ animations' = <<c>> BY <1>1 DEF Perform
  <2>2. QED BY <1>1, <2>1
<1>2. CASE ~animated
  <2>1. Dequeue /\ animations' = <<>> BY <1>2 DEF Perform
  <2>2. QED BY <1>2, <2>1, EndStep
<1>3. QED BY <1>1, <1>2
(* With nothing to dequeue, going on without animation changes nothing. *)
LEMMA PerformNothing ==
    ASSUME TypeOK, animations = <<>>, queue = <<>>, UNCHANGED pan,
           NEW w, NEW c, Perform(w, c, FALSE)
    PROVE  UNCHANGED <<queue, Performing>>
BY QueueShrinks DEF Perform, Performing, Panning

Kept == [Promise!Next]_<<queue, Performing>>

LEMMA RunBlockKept ==
    ASSUME ~Taps, RevealInv, RunBlock
    PROVE  Kept
<1>1. TypeOK /\ Serial BY DEF RevealInv
<1>2. queue # <<>> /\ animations = <<>> /\ pan = None /\ pan' = None
  BY <1>1 DEF RunBlock, Serial, Panning
<1>3. PICK w, c, animated : animated \in BOOLEAN /\ Perform(w, c, animated)
  <2>1. Head(queue) \in Blocks BY <1>1, <1>2, HeadTailProperties DEF TypeOK
  <2>2. (Head(queue).op = "move" \/ Head(queue).op = "replace")
             => Head(queue).animated \in BOOLEAN
    BY <2>1, BlockTypes
  <2>3. CASE /\ Head(queue).op = "move"
             /\ SetFront(Head(queue).to, Head(queue).animated, "block")
    <3>1. Perform(Deployed(view, Head(queue).to, Sides),
                  Deployment(view, Head(queue).to, Sides, "block"),
                  Head(queue).animated)
      BY <2>3 DEF SetFront
    <3>2. QED BY <2>2, <2>3, <3>1
  <2>4. CASE /\ Head(queue).op = "replace"
             /\ PerformTransition(Head(queue).side, Head(queue).new,
                                  Head(queue).animated)
    <3>1. Perform(Replaced(view, Head(queue).side, Head(queue).new),
                  Replacement(view, Head(queue).side, Head(queue).new),
                  Head(queue).animated)
      BY <2>4 DEF PerformTransition
    <3>2. QED BY <2>2, <2>4, <3>1
  <2>5. QED BY <2>3, <2>4 DEF RunBlock
<1>4. CASE Promise!End BY <1>4 DEF Kept, Promise!Next
<1>5. CASE animations' # <<>> /\ queue' = queue
  <2>1. Promise!Begin BY <1>2, <1>5 DEF Promise!Begin, Panning
  <2>2. QED BY <2>1 DEF Kept, Promise!Next
<1>6. QED BY <1>1, <1>2, <1>3, <1>4, <1>5, PerformStep

LEMMA PanEndedKept ==
    ASSUME RevealInv, NEW velocity, PanEnded(velocity)
    PROVE  Kept
<1>1. TypeOK /\ Serial BY DEF RevealInv
<1>2. Panning /\ queue # <<>> /\ animations = <<>> /\ pan' = None
  BY <1>1 DEF PanEnded, Serial
<1>3. PICK w, c, animated : animated \in BOOLEAN /\ Perform(w, c, animated)
  <2>1. PanAnimated(x, velocity) \in BOOLEAN BY DEF PanAnimated
  <2>2. Perform(Deployed(view, PanTarget(x, velocity), Sides),
                Deployment(view, PanTarget(x, velocity), Sides, "gesture"),
                PanAnimated(x, velocity))
    BY DEF PanEnded, SetFront
  <2>3. QED BY <2>1, <2>2
<1>4. CASE Promise!End BY <1>4 DEF Kept, Promise!Next
<1>5. CASE animations' # <<>> /\ queue' = queue
  <2>1. Performing /\ Performing' BY <1>2, <1>5 DEF Performing
  <2>2. Performing' = Performing BY <2>1 DEF Performing
  <2>3. QED BY <1>5, <2>2 DEF Kept
<1>6. QED BY <1>1, <1>2, <1>3, <1>4, <1>5, PerformStep

LEMMA EnqueueKept ==
    ASSUME RevealInv, NEW blocks \in Seq(Blocks), blocks # <<>>, Enqueue(blocks)
    PROVE  Kept
BY AskStep DEF RevealInv, Kept, Promise!Next

LEMMA SetBeforeLoadKept ==
    ASSUME RevealInv, NEW s, NEW vc, SetBeforeLoad(s, vc)
    PROVE  Kept
<1>1. TypeOK /\ queue = <<>> /\ animations = <<>>
  BY DEF RevealInv, Unloaded, SetBeforeLoad
<1>2. QED
  BY <1>1, PerformNothing DEF SetBeforeLoad, PerformTransition, Kept

LEMMA CallKept ==
    ASSUME RevealInv, Call
    PROVE  Kept
<1>1. ASSUME NEW p \in Positions, NEW animated \in BOOLEAN,
             SetFrontViewPosition(p, animated)
      PROVE  Kept
  <2>1. CASE ~loaded /\ UNCHANGED <<queue, animations, pan>>
    BY <2>1 DEF Kept, Performing, Panning
  <2>2. CASE Enqueue(<<Move(p, animated)>>)
    <3>1. <<Move(p, animated)>> \in Seq(Blocks) BY MoveTyped
    <3>2. <<Move(p, animated)>> # <<>> OBVIOUS
    <3>3. QED BY <2>2, <3>1, <3>2, EnqueueKept
  <2>3. QED BY <1>1, <2>1, <2>2 DEF SetFrontViewPosition
<1>2. ASSUME NEW s \in Sides, NEW vc \in Settable(s), NEW animated \in BOOLEAN,
             SetViewController(s, vc, animated)
      PROVE  Kept
  <2>1. CASE SetBeforeLoad(s, vc) BY <2>1, SetBeforeLoadKept
  <2>2. CASE Enqueue(<<Replace(s, vc, animated)>>)
    <3>1. vc \in VCs[s] \cup {NoVC} BY DEF Settable
    <3>2. <<Replace(s, vc, animated)>> \in Seq(Blocks) BY <3>1, ReplaceTyped
    <3>3. <<Replace(s, vc, animated)>> # <<>> OBVIOUS
    <3>4. QED BY <2>2, <3>2, <3>3, EnqueueKept
  <2>3. QED BY <1>2, <2>1, <2>2 DEF SetViewController
<1>3. ASSUME NEW vc \in FrontVCs, NEW animated \in BOOLEAN,
             PushFrontViewController(vc, animated)
      PROVE  Kept
  <2>1. CASE SetBeforeLoad("front", vc) BY <2>1, SetBeforeLoadKept
  <2>2. ASSUME NEW blocks \in Seq(Blocks), blocks # <<>>, Enqueue(blocks)
        PROVE  Kept
    BY <2>2, EnqueueKept
  <2>3. QED BY <1>3, <2>1, <2>2, PushBlocks DEF RevealInv
<1>4. view.position["front"] \in Positions
  BY DEF RevealInv, Positioned, Sides
<1>5. QED
  BY <1>1, <1>2, <1>3, <1>4, CallTargetsTyped, RevealAssumption
     DEF Call, RevealToggle, RightRevealToggle
LEMMA NextKept ==
    ASSUME ~Taps, RevealInv, [Next]_vars
    PROVE  Kept
<1>1. TypeOK /\ Serial /\ Unloaded BY DEF RevealInv
<1>2. ASSUME UNCHANGED <<queue, animations, pan>> PROVE Kept
  BY <1>2 DEF Kept, Performing, Panning
<1>3. CASE LoadView
  <2>1. queue = <<>> /\ animations = <<>> BY <1>1, <1>3 DEF LoadView, Unloaded
  <2>2. QED BY <1>1, <1>3, <2>1, PerformNothing DEF LoadView, Kept
<1>4. CASE Call BY <1>4, CallKept
<1>5. CASE Tap BY <1>5 DEF Tap
<1>6. ASSUME NEW t \in Drags, PanBegan(t) PROVE Kept
  <2>1. /\ queue = <<>> /\ queue' = <<Hold>> /\ pan' = view.position["front"]
    BY <1>6 DEF PanBegan, ShouldBegin
  <2>2. pan' # None BY <2>1 DEF RevealInv, Positioned, Sides, Positions
  <2>3. Promise!Gesture BY <2>1, <2>2 DEF Promise!Gesture, Panning
  <2>4. QED BY <2>3 DEF Kept, Promise!Next
<1>7. ASSUME NEW t \in Drags, PanChanged(t) PROVE Kept
  BY <1>2, <1>7 DEF PanChanged
<1>8. ASSUME NEW velocity \in Velocities, PanEnded(velocity) PROVE Kept
  BY <1>8, PanEndedKept
<1>9. CASE PanCancelled
  <2>1. queue # <<>> /\ animations = <<>> BY <1>1, <1>9 DEF PanCancelled, Serial
  <2>2. Promise!End BY <1>1, <1>9, <2>1, EndStep DEF PanCancelled
  <2>3. QED BY <2>2 DEF Kept, Promise!Next
<1>10. CASE RunBlock BY <1>10, RunBlockKept
<1>11. ASSUME NEW i \in DOMAIN animations, AnimationDone(i) PROVE Kept
  <2>1. animations # <<>> BY <1>11
  <2>2. queue # <<>> /\ pan = None BY <1>1, <2>1 DEF Serial, Panning
  <2>3. pan' = None /\ animations' = <<>> /\ Dequeue
    BY <1>1, <1>11, <2>2, OneAnimation DEF AnimationDone
  <2>4. Promise!End BY <1>1, <2>2, <2>3, EndStep
  <2>5. QED BY <2>4 DEF Kept, Promise!Next
<1>12. CASE LayoutPass BY <1>2, <1>12 DEF LayoutPass
<1>13. CASE UNCHANGED vars BY <1>2, <1>13 DEF vars
<1>14. QED
  BY <1>3, <1>4, <1>5, <1>6, <1>7, <1>8, <1>9, <1>10, <1>11, <1>12, <1>13
     DEF Next, FingerLeaves, AnimationEnds

(* Where nobody taps, blocks are performed in the order of the calls, each *)
(* when the one before it is done: the queue implements InOrder.           *)
THEOREM QueueKeepsOrder ==
    ASSUME ~Taps
    PROVE  Spec => KeepsOrder
<1>1. Orderly BY DEF Orderly
<1>2. RevealInv /\ [Next]_vars
        => [Promise!Next]_<<queue, Panning \/ animations # <<>>>>
  BY NextKept DEF Kept, Performing
<1>3. QED
  BY <1>1, <1>2, PromiseInit, RevealInvariant, PTL
     DEF Spec, KeepsOrder, Promise!Spec
-----------------------------------------------------------------------------
(* Places and positions.  A step keeps the positions, makes a move, drags  *)
(* the front view, or comes before the view is loaded.                     *)
PlaceOfPosition == FrontLocation(view.position["front"])

KeepsPositions ==
    /\ loaded' = loaded /\ view'.position = view.position
    /\ x' \in {x, PlaceOfPosition'}
    /\ Panning /\ ~Panning' => Cancels

MakesMove ==
    /\ x' = PlaceOfPosition'
    /\ \E v : \E p \in Positions :
          view'.position = [s \in Sides |-> Effective(v, s, p)]

DragsFront == Panning' /\ DragBounded'

BeforeLoad == ~loaded' /\ x' = x

Placed == KeepsPositions \/ MakesMove \/ DragsFront \/ BeforeLoad

(* Going on to w, now or with an animation, takes on its positions. *)
LEMMA PerformPosition ==
    ASSUME NEW w, Sound(w), NEW c \in Completions, NEW animated, Perform(w, c, animated)
    PROVE  view'.position = w.position
<1>1. Completed(w, c).position = w.position BY CompletedFields
<1>2. view' = w \/ view' = Completed(w, c) BY DEF Perform
<1>3. QED BY <1>1, <1>2

LEMMA SetFrontPlaced ==
    ASSUME RevealInv, NEW p \in Positions, NEW animated,
           NEW by \in {"block", "gesture"},
           SetFront(p, animated, by), interaction' = TRUE
    PROVE  MakesMove
<1> DEFINE w == Deployed(view, p, Sides)
           c == Deployment(view, p, Sides, by)
<1>1. Sound(view) BY ViewSound DEF RevealInv
<1>2. /\ Sound(w) /\ c \in Completions
      /\ w.position = Moved(view, p, Sides, by).position
      /\ Moved(view, p, Sides, by).position = [s \in Sides |-> Effective(view, s, p)]
  BY <1>1, MoveFields
<1>3. Perform(w, c, animated) /\ LayoutSubviews BY DEF SetFront
<1> HIDE DEF w, c
<1>4. view'.position = [s \in Sides |-> Effective(view, s, p)]
  BY <1>2, <1>3, PerformPosition
<1>5. x' = PlaceOfPosition' BY <1>3 DEF LayoutSubviews, PlaceOfPosition
<1>6. QED BY <1>4, <1>5 DEF MakesMove

LEMMA PerformTransitionPosition ==
    ASSUME RevealInv, NEW s \in Sides, NEW vc \in VCs[s] \cup {NoVC}, NEW animated,
           PerformTransition(s, vc, animated)
    PROVE  view'.position = view.position
<1> DEFINE w == Replaced(view, s, vc)
           c == Replacement(view, s, vc)
<1>1. Sound(view) BY ViewSound DEF RevealInv
<1>2. Sound(w) /\ c \in Completions /\ w.position = view.position
  <2>1. /\ Sound(w) /\ c \in Completions /\ w.position = view.position
        /\ view.container = {} /\ view.shown = {}
              => Completed(w, c).container = {} /\ Completed(w, c).shown = {}
    BY <1>1, ReplaceFacts
  <2>2. QED BY <2>1
<1>3. Perform(w, c, animated) BY DEF PerformTransition
<1> HIDE DEF w, c
<1>4. QED BY <1>2, <1>3, PerformPosition

LEMMA EnqueuePlaced ==
    ASSUME NEW blocks, Enqueue(blocks)
    PROVE  Placed
BY DEF Enqueue, Placed, KeepsPositions, Panning

LEMMA LoadViewPosition ==
    ASSUME RevealInv, LoadView
    PROVE  view'.position
             = [s \in Sides |-> Effective(Unrevealed, s, view.position["front"])]
<1> DEFINE p == view.position["front"]
           d == Deployed(Unrevealed, p, Sides)
           c == Deployment(Unrevealed, p, Sides, "block")
<1>1. Sound(Unrevealed) BY LoadedSound
<1>2. p \in Positions BY DEF RevealInv, Positioned, Sides
<1>3. Perform(d, c, FALSE) BY DEF LoadView
<1> HIDE DEF p
<1>4. /\ Sound(d) /\ c \in Completions
      /\ d.position = Moved(Unrevealed, p, Sides, "block").position
      /\ Moved(Unrevealed, p, Sides, "block").position
           = [s \in Sides |-> Effective(Unrevealed, s, p)]
  BY <1>1, <1>2, MoveFields
<1> HIDE DEF d, c
<1>5. view'.position = [s \in Sides |-> Effective(Unrevealed, s, p)]
  BY <1>3, <1>4, PerformPosition
<1>6. QED BY <1>5 DEF p

LEMMA NextPlaced ==
    ASSUME RevealInv, RevealInv', [Next]_vars
    PROVE  Placed
<1>1. TypeOK /\ Serial /\ Unloaded /\ Positioned BY DEF RevealInv
<1>2. ASSUME UNCHANGED <<loaded, view, x>>, Panning => Panning' PROVE Placed
  BY <1>2 DEF Placed, KeepsPositions
<1>3. CASE LoadView
  <2> DEFINE p == view.position["front"]
  <2>1. view'.position = [s \in Sides |-> Effective(Unrevealed, s, p)]
    BY <1>3, LoadViewPosition
  <2>2. p \in Positions BY <1>1 DEF Positioned, Sides
  <2>3. interaction' = TRUE
    BY <1>1, <1>3 DEF LoadView, Unloaded, Serial, InteractionRestored, TypeOK
  <2>4. x' = PlaceOfPosition' BY <1>3, <2>3 DEF LoadView, LayoutSubviews, PlaceOfPosition
  <2>5. QED BY <2>1, <2>2, <2>4 DEF Placed, MakesMove
<1>4. CASE Call
  <2>1. ASSUME NEW s \in Sides, NEW vc, SetBeforeLoad(s, vc) PROVE Placed
    BY <2>1 DEF SetBeforeLoad, PerformTransition, Placed, BeforeLoad
  <2>2. ASSUME NEW p, NEW animated, SetFrontViewPosition(p, animated) PROVE Placed
    BY <2>2, EnqueuePlaced DEF SetFrontViewPosition, Placed, BeforeLoad
  <2>3. ASSUME NEW s \in Sides, NEW vc, NEW animated, SetViewController(s, vc, animated)
        PROVE  Placed
    BY <2>1, <2>3, EnqueuePlaced DEF SetViewController
  <2>4. ASSUME NEW vc, NEW animated, PushFrontViewController(vc, animated)
        PROVE  Placed
    <3>1. "front" \in Sides BY DEF Sides
    <3>2. QED BY <2>1, <2>4, <3>1, EnqueuePlaced DEF PushFrontViewController
  <2>5. QED
    BY <1>4, <2>2, <2>3, <2>4 DEF Call, RevealToggle, RightRevealToggle
<1>5. CASE Tap
  <2>1. interaction' = TRUE /\ SetFront(Left, TRUE, "gesture")
    BY <1>1, <1>5 DEF Tap, ShouldBegin, Touchable, TypeOK
  <2>2. Left \in Positions BY DEF Positions
  <2> HIDE DEF Left
  <2>3. QED BY <2>1, <2>2, SetFrontPlaced DEF Placed
<1>6. ASSUME NEW t \in Drags, PanBegan(t) PROVE Placed
  <2>1. UNCHANGED <<loaded, view, x>> /\ pan' = view.position["front"]
    BY <1>6 DEF PanBegan
  <2>2. Panning' BY <1>1, <2>1 DEF Panning, Positioned, Sides, Positions
  <2>3. QED BY <1>2, <2>1, <2>2
<1>7. ASSUME NEW t \in Drags, PanChanged(t) PROVE Placed
  <2> DEFINE to == FrontLocation(pan) + t
  <2>1. Panning /\ pan' = pan BY <1>7 DEF PanChanged
  <2>2. pan \in Positions BY <1>1, <2>1 DEF TypeOK, Panning
  <2>3. to \in Int BY <2>2, FrontLocationBounded, RevealAssumption
  <2>4. PICK to2 \in {0, to} : x' = AdjustedDrag(to2, view.position["front"])
    BY <1>7 DEF PanChanged
  <2>5. Abs(x') <= RevealWidth + RevealOverdraw
    BY <2>3, <2>4, AdjustedDragBounded
  <2>6. QED BY <2>1, <2>5 DEF Placed, DragsFront, DragBounded, Panning
<1>8. ASSUME NEW velocity \in Velocities, PanEnded(velocity) PROVE Placed
  <2>1. x \in Int /\ velocity \in Int BY <1>1, RevealAssumption DEF TypeOK
  <2>2. PanTarget(x, velocity) \in Positions BY <2>1, PanTargetTyped
  <2>3. interaction' = TRUE
        /\ SetFront(PanTarget(x, velocity), PanAnimated(x, velocity), "gesture")
    BY <1>8 DEF PanEnded
  <2>4. QED BY <2>2, <2>3, SetFrontPlaced DEF Placed
<1>9. CASE PanCancelled BY <1>9 DEF PanCancelled, Placed, KeepsPositions
<1>10. CASE RunBlock
  <2>1. queue # <<>> /\ interaction' = TRUE
    BY <1>1, <1>10 DEF RunBlock, Serial, InteractionRestored, TypeOK
  <2>2. Head(queue) \in Blocks BY <1>1, <2>1, HeadTailProperties DEF TypeOK
  <2>3. CASE /\ Head(queue).op = "move"
             /\ SetFront(Head(queue).to, Head(queue).animated, "block")
    BY <2>1, <2>2, <2>3, BlockTypes, SetFrontPlaced DEF Placed
  <2>4. CASE /\ Head(queue).op = "replace"
             /\ PerformTransition(Head(queue).side, Head(queue).new,
                                  Head(queue).animated)
    <3>1. Head(queue).side \in Sides
          /\ Head(queue).new \in VCs[Head(queue).side] \cup {NoVC}
      BY <2>2, <2>4, BlockTypes
    <3>2. view'.position = view.position
      BY <2>4, <3>1, PerformTransitionPosition
    <3>3. x' = x BY <2>4 DEF PerformTransition
    <3>4. QED BY <1>10, <3>2, <3>3 DEF RunBlock, Placed, KeepsPositions, Panning
  <2>5. QED BY <1>10, <2>3, <2>4 DEF RunBlock
<1>11. ASSUME NEW i \in DOMAIN animations, AnimationDone(i) PROVE Placed
  <2>1. i = 1 /\ animations # <<>> BY <1>1, <1>11, OneAnimation
  <2>2. animations[1] \in Completions
    BY <1>1, <2>1, ElementOfSeq, LenProperties, EmptySeq DEF TypeOK
  <2>3. view'.position = view.position
    BY <1>1, <1>11, <2>1, <2>2, ViewSound, CompletedFields DEF AnimationDone
  <2>4. QED BY <1>11, <2>3 DEF AnimationDone, Placed, KeepsPositions, Panning
<1>12. CASE LayoutPass
  BY <1>12 DEF LayoutPass, LayoutSubviews, PlaceOfPosition, Placed, KeepsPositions,
               Panning
<1>13. CASE UNCHANGED vars BY <1>2, <1>13 DEF vars, Panning
<1>14. QED
  BY <1>3, <1>4, <1>5, <1>6, <1>7, <1>8, <1>9, <1>10, <1>11, <1>12, <1>13
     DEF Next, FingerLeaves, AnimationEnds

(* The front view is never dragged or moved beyond the overdraw.           *)
THEOREM NeverBeyond ==
    ASSUME Orderly
    PROVE  Spec => []DragBounded
<1>1. Init => DragBounded BY GeometryAssumption DEF Init, DragBounded, Abs
<1>2. RevealInv /\ RevealInv' /\ DragBounded /\ [Next]_vars => DragBounded'
  <2> SUFFICES ASSUME RevealInv, RevealInv', DragBounded, [Next]_vars
               PROVE  DragBounded'
    OBVIOUS
  <2>1. Placed BY NextPlaced
  <2>2. view'.position["front"] \in Positions
    BY DEF RevealInv, Positioned, Sides
  <2>3. ASSUME x' = PlaceOfPosition' PROVE DragBounded'
    BY <2>2, <2>3, FrontLocationBounded DEF DragBounded, PlaceOfPosition
  <2>4. ASSUME x' = x PROVE DragBounded' BY <2>4 DEF DragBounded
  <2>5. QED
    BY <2>1, <2>3, <2>4
       DEF Placed, KeepsPositions, MakesMove, DragsFront, BeforeLoad
<1>3. QED BY <1>1, <1>2, RevealInvariant, PTL DEF Spec

(* Where no pan is cancelled, the three positions agree and the front view *)
(* is where they say.                                                      *)
THEOREM PositionsKept ==
    ASSUME Orderly, ~Cancels
    PROVE  Spec => [](PositionsAgree /\ InItsPlace)
<1> DEFINE Agreed == PositionsAgree /\ InItsPlace
<1>1. Init => Agreed BY DEF Init, PositionsAgree, InItsPlace
<1>2. RevealInv /\ RevealInv' /\ Agreed /\ [Next]_vars => Agreed'
  <2> SUFFICES ASSUME RevealInv, RevealInv', Agreed, [Next]_vars
               PROVE  Agreed'
    OBVIOUS
  <2>1. Placed BY NextPlaced
  <2>2. CASE KeepsPositions
    BY <2>2 DEF KeepsPositions, PositionsAgree, InItsPlace, PlaceOfPosition
  <2>3. CASE MakesMove
    <3>1. PICK v, p : p \in Positions
                      /\ view'.position = [s \in Sides |-> Effective(v, s, p)]
      BY <2>3 DEF MakesMove
    <3>2. view'.position["front"] = Effective(v, "front", p) BY <3>1 DEF Sides
    <3>3. ASSUME NEW s \in {"rear", "right"}
          PROVE  view'.position[s] = Effective(v, s, p)
      BY <3>1 DEF Sides
    <3>4. PositionsAgree'
      BY <3>1, <3>2, <3>3, EffectiveAgrees DEF PositionsAgree
    <3>5. InItsPlace' BY <2>3 DEF MakesMove, InItsPlace, PlaceOfPosition
    <3>6. QED BY <3>4, <3>5
  <2>4. CASE DragsFront
    BY <2>4 DEF DragsFront, PositionsAgree, InItsPlace, Panning
  <2>5. CASE BeforeLoad
    BY <2>5 DEF BeforeLoad, PositionsAgree, InItsPlace
  <2>6. QED BY <2>1, <2>2, <2>3, <2>4, <2>5 DEF Placed
<1>3. QED BY <1>1, <1>2, RevealInvariant, PTL DEF Spec

(* Where the front view's places are: each position stands for one of five *)
(* points.                                                                 *)
LEMMA FrontLocations ==
    /\ FrontLocation(Left) = 0
    /\ FrontLocation(Right) = RevealWidth
    /\ FrontLocation(LeftSide) = -RevealWidth
    /\ FrontLocation(RightMost) = RevealWidth + RevealOverdraw
    /\ FrontLocation(LeftSideMost) = -(RevealWidth + RevealOverdraw)
    /\ \A p \in Positions :
          FrontLocation(p) \in {0, RevealWidth, -RevealWidth,
                                RevealWidth + RevealOverdraw,
                                -(RevealWidth + RevealOverdraw)}
BY GeometryAssumption
   DEF Positions, FrontLocation, Symmetry, AdjustedPosition, Left, Right,
       LeftSide, RightMost, LeftSideMost, LeftSideMostRemoved, RightMostRemoved

(* A finger that leaves without velocity does not flick. *)
LEMMA SlowTarget ==
    ASSUME NEW t \in Int
    PROVE  PanTarget(t, 0) = AdjustedPosition(DropTarget(Abs(t)), SideOf(t))
<1>1. ~Flicked(0) BY GeometryAssumption DEF Flicked, Abs
<1>2. QED BY <1>1 DEF PanTarget

(* Wherever the front view is let go, the target's place is the nearest:   *)
(* half the width, and the middle of the overdraw, separate the targets.   *)
LEMMA NearestTarget ==
    ASSUME ~BounceBack, StableDrag, NEW t \in Int, NEW p \in Positions
    PROVE  Abs(t - FrontLocation(PanTarget(t, 0))) <= Abs(t - FrontLocation(p))
<1> DEFINE W == RevealWidth
           O == RevealOverdraw
           d == Abs(t)
           q == FrontLocation(PanTarget(t, 0))
           r == FrontLocation(p)
<1>1. W \in Nat /\ O \in Nat /\ W > 0 /\ O > 0 BY GeometryAssumption
<1>2. r \in {0, W, -W, W + O, -(W + O)} BY FrontLocations
<1>3. d \in Nat /\ (t < 0 => d = -t) /\ (t >= 0 => d = t) BY DEF Abs
<1>4. /\ 2 * d <= W => q = 0
      /\ 2 * d > W /\ 2 * d <= 2 * W + O => q = IF t < 0 THEN -W ELSE W
      /\ 2 * d > 2 * W + O => q = IF t < 0 THEN -(W + O) ELSE W + O
  <2>1. /\ 2 * d <= W => DropTarget(d) = Left
        /\ 2 * d > W /\ 2 * d <= 2 * W + O => DropTarget(d) = Right
        /\ 2 * d > 2 * W + O => DropTarget(d) = RightMost
    BY <1>1, <1>3 DEF DropTarget
  <2>2. /\ AdjustedPosition(Left, SideOf(t)) = Left
        /\ AdjustedPosition(Right, SideOf(t)) = IF t < 0 THEN LeftSide ELSE Right
        /\ AdjustedPosition(RightMost, SideOf(t))
              = IF t < 0 THEN LeftSideMost ELSE RightMost
    BY DEF AdjustedPosition, SideOf, Left, Right, RightMost, LeftSide, LeftSideMost
  <2>3. 2 * d <= W \/ (2 * d > W /\ 2 * d <= 2 * W + O) \/ 2 * d > 2 * W + O
    BY <1>1, <1>3
  <2>4. CASE 2 * d <= W
    <3>1. q = 0 BY <2>1, <2>2, <2>4, SlowTarget, FrontLocations
    <3> HIDE DEF q, d, W, O
    <3>2. QED BY <3>1, <2>4, <1>1, <1>3
  <2>5. CASE 2 * d > W /\ 2 * d <= 2 * W + O
    <3>1. q = IF t < 0 THEN -W ELSE W
      BY <2>1, <2>2, <2>5, SlowTarget, FrontLocations
    <3> HIDE DEF q, d, W, O
    <3>2. QED BY <3>1, <2>5, <1>1, <1>3
  <2>6. CASE 2 * d > 2 * W + O
    <3>1. q = IF t < 0 THEN -(W + O) ELSE W + O
      BY <2>1, <2>2, <2>6, SlowTarget, FrontLocations
    <3> HIDE DEF q, d, W, O
    <3>2. QED BY <3>1, <2>6, <1>1, <1>3
  <2>7. QED BY <2>3, <2>4, <2>5, <2>6
<1> HIDE DEF q, r, d, W, O
<1>5. q \in Int /\ r \in Int BY <1>1, <1>2, <1>3, <1>4
<1>6. Abs(t - q) <= Abs(t - r)
  <2>1. CASE t < 0 BY <2>1, <1>1, <1>2, <1>3, <1>4, <1>5 DEF Abs
  <2>2. CASE t >= 0 BY <2>2, <1>1, <1>2, <1>3, <1>4, <1>5 DEF Abs
  <2>3. QED BY <2>1, <2>2
<1>7. QED BY <1>6 DEF q, r

(* With the app's switches (a drag may stay in the overdraw and does not   *)
(* bounce back) a slow drop ends in the position nearest to it, whatever   *)
(* the widths and however far the finger went.                             *)
THEOREM DropsNearest ==
    ASSUME Orderly, ~BounceBack, StableDrag
    PROVE  Spec => []DropsAtNearest
<1>1. RevealInv => DropsAtNearest
  BY NearestTarget DEF RevealInv, TypeOK, DropsAtNearest
<1>2. QED BY <1>1, RevealInvariant, PTL
=============================================================================
