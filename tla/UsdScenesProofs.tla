-------------------------- MODULE UsdScenesProofs --------------------------
(***************************************************************************)
(* Proofs about module UsdScenes, for any scenes, files, prims and number  *)
(* of calls: saved transform operations are not overwritten, and the       *)
(* scene context agrees with itself.                                       *)
(***************************************************************************)
EXTENDS UsdScenes, SetFacts, TLAPS

(* The inductive invariants, part by part.                                 *)

\* Stages are open on the layers in memory.
Stages(stg, ed, lay, dsk) ==
  /\ DOMAIN stg \subseteq Labels /\ DOMAIN ed = DOMAIN stg
  /\ \A l \in DOMAIN stg : stg[l] \in Files \cup {l, None}
  /\ lay \in [Files \cup Labels -> Layer \cup {None}]
  /\ dsk \in [Files -> Layer \cup {None}]
  /\ \A l \in DOMAIN stg : ed[l] \in BOOLEAN
  /\ \A l \in DOMAIN stg : stg[l] # None => lay[stg[l]] # None
  /\ \A k \in Files \cup Labels : lay[k] # None => \E l \in DOMAIN stg : stg[l] = k

\* Two scenes have no layer in common that is not known to be shared.
Apart(stg, lay) ==
  \A l, m \in DOMAIN stg :
    l # m /\ stg[l] = stg[m] /\ stg[l] # None => lay[stg[l]].shared

\* An operation that may still be overwritten was edited by a scene that has its layer.
Edits(stg, ed, lay) ==
  \A k \in Files \cup Labels : (lay[k] # None /\ ~lay[k].shared) =>
    \A o \in lay[k].ops :
      \/ o[2] < lay[k].count
      \/ o[2] = lay[k].count /\ \E l \in DOMAIN stg : stg[l] = k /\ ed[l]

\* What a file or a layer holds is not overwritten.
Safe(x) == (x # None /\ ~x.shared) => \A o \in x.ops : o[2] < x.count

Good(stg, ed, lay, dsk) ==
  /\ Stages(stg, ed, lay, dsk)
  /\ Apart(stg, lay)
  /\ Edits(stg, ed, lay)
  /\ \A f \in Files : Safe(dsk[f])

ScenesInv == Good(stage, edited, layer, disk)

\* Entries and primitives are labelled.
TablesInv ==
  /\ \A l \in DOMAIN entries : l \in Labels /\ entries[l] \in Files
  /\ DOMAIN prims \subseteq Labels
  /\ calls \in 0 .. MaxCalls

\* The first primitive that is of a scene sets the pace.
ContextInv ==
  /\ DOMAIN timeline = {"start", "end", "cur", "tcps"}
  /\ order \in Seq(DOMAIN prims)
  /\ \A l \in DOMAIN prims : prims[l].tcps \in Nat \cup {None}
  /\ timeline.tcps = NaN => \A l \in DOMAIN prims : prims[l].tcps = None
  /\ ContextAgrees

-----------------------------------------------------------------------------
(* Layers.                                                                 *)

LEMMA EmptyIsLayer == Empty \in Layer
  BY DEF Empty, Layer

\* None is no layer, nor a key of one.
LEMMA NoneIsNone ==
  ASSUME UsdScenesAssumption
  PROVE  None \notin Layer /\ None \notin Files /\ None \notin Labels /\ Files \cap Labels = {}
  BY DEF UsdScenesAssumption

\* What is edited in a layer.
LEMMA LayerFields ==
  ASSUME NEW x \in Layer
  PROVE  /\ x.count \in Nat /\ x.tcps \in Nat /\ x.shared \in BOOLEAN
         /\ x.ops \subseteq Paths \X Nat
  BY DEF Layer

LEMMA LayerShared ==
  ASSUME NEW x \in Layer, NEW s \in BOOLEAN
  PROVE  LET y == [x EXCEPT !.shared = s]
         IN y \in Layer /\ y.shared = s /\ y.ops = x.ops /\ y.count = x.count
  BY DEF Layer

LEMMA LayerSealed ==
  ASSUME NEW x \in Layer
  PROVE  LET y == [x EXCEPT !.count = @ + 1]
         IN y \in Layer /\ y.shared = x.shared /\ y.ops = x.ops /\ y.count = x.count + 1
  <1> DEFINE y == [x EXCEPT !.count = @ + 1]
  <1>1. x.count + 1 \in Nat
    BY DEF Layer
  <1>2. y \in Layer
    BY <1>1 DEF Layer
  <1>3. y.shared = x.shared /\ y.ops = x.ops /\ y.count = x.count + 1
    BY Zenon DEF Layer
  <1> QED  BY <1>2, <1>3

LEMMA LayerCreated ==
  ASSUME NEW x \in Layer, NEW p \in Paths
  PROVE  LET y == [x EXCEPT !.prims = @ \cup {p}]
         IN y \in Layer /\ y.shared = x.shared /\ y.ops = x.ops /\ y.count = x.count
  BY DEF Layer

LEMMA LayerRemoved ==
  ASSUME NEW x \in Layer, NEW p \in Paths, NEW ops \in SUBSET x.ops
  PROVE  LET y == [x EXCEPT !.prims = @ \ {p}, !.ops = ops]
         IN y \in Layer /\ y.shared = x.shared /\ y.ops = ops /\ y.count = x.count
  <1> DEFINE y == [x EXCEPT !.prims = @ \ {p}, !.ops = ops]
  <1>1. ops \in SUBSET (Paths \X Nat)
    BY DEF Layer
  <1>2. y \in Layer
    BY <1>1 DEF Layer
  <1>3. y.shared = x.shared /\ y.ops = ops /\ y.count = x.count
    BY Zenon DEF Layer
  <1> QED  BY <1>2, <1>3

LEMMA LayerMoved ==
  ASSUME NEW x \in Layer, NEW p \in Paths
  PROVE  LET y == [x EXCEPT !.ops = @ \cup {<<p, x.count>>}]
         IN /\ y \in Layer /\ y.shared = x.shared /\ y.count = x.count
            /\ y.ops = x.ops \cup {<<p, x.count>>}
  <1> DEFINE ops == x.ops \cup {<<p, x.count>>}
             y == [x EXCEPT !.ops = ops]
  <1>1. ops \in SUBSET (Paths \X Nat)
    BY DEF Layer
  <1> HIDE DEF ops
  <1>2. y \in Layer
    BY <1>1 DEF Layer
  <1>3. y.shared = x.shared /\ y.count = x.count /\ y.ops = ops
    BY Zenon DEF Layer
  <1> QED  BY <1>2, <1>3 DEF ops

-----------------------------------------------------------------------------
(* What is done to the stages.                                             *)

LEMMA GoodCreated ==
  ASSUME UsdScenesAssumption, NEW stg, NEW ed, NEW lay, NEW dsk, Good(stg, ed, lay, dsk),
         NEW l \in Labels \ DOMAIN stg
  PROVE  Good(With(stg, l, None), With(ed, l, FALSE), lay, dsk)
  <1> DEFINE stg1 == With(stg, l, None)
             ed1  == With(ed, l, FALSE)
  <1>1. /\ DOMAIN stg1 = DOMAIN stg \cup {l} /\ stg1[l] = None
        /\ \A m \in DOMAIN stg : m # l /\ stg1[m] = stg[m]
    BY DEF With
  <1>2. /\ DOMAIN ed1 = DOMAIN ed \cup {l} /\ ed1[l] = FALSE
        /\ \A m \in DOMAIN stg : ed1[m] = ed[m]
    <2>1. DOMAIN ed = DOMAIN stg /\ l \notin DOMAIN stg
      BY DEF Good, Stages
    <2> QED  BY <2>1 DEF With
  <1> HIDE DEF stg1, ed1
  <1>3. Stages(stg1, ed1, lay, dsk)
    <2>1. \A m \in DOMAIN stg1 : ed1[m] \in BOOLEAN
      BY <1>1, <1>2 DEF Good, Stages
    <2>2. \A k \in Files \cup Labels : lay[k] # None => \E m \in DOMAIN stg1 : stg1[m] = k
      BY <1>1 DEF Good, Stages
    <2> QED  BY <1>1, <1>2, <2>1, <2>2 DEF Good, Stages
  <1>4. Apart(stg1, lay)
    BY <1>1 DEF Good, Apart
  <1>5. Edits(stg1, ed1, lay)
    BY <1>1, <1>2 DEF Good, Edits
  <1> QED  BY <1>3, <1>4, <1>5 DEF Good, stg1, ed1

LEMMA GoodRemoved ==
  ASSUME UsdScenesAssumption, NEW stg, NEW ed, NEW lay, NEW dsk, Good(stg, ed, lay, dsk), NEW ls
  PROVE  Good(Without(stg, ls), Without(ed, ls), Held(Without(stg, ls), lay), dsk)
  <1> DEFINE stg1 == Without(stg, ls)
             ed1  == Without(ed, ls)
             lay1 == Held(stg1, lay)
  <1>1. /\ DOMAIN stg1 = DOMAIN stg \ ls
        /\ \A m \in DOMAIN stg1 : m \in DOMAIN stg /\ stg1[m] = stg[m]
    BY DEF Without
  <1>2. DOMAIN ed1 = DOMAIN stg1 /\ \A m \in DOMAIN stg1 : ed1[m] = ed[m]
    BY DEF Without, Good, Stages
  <1>3. /\ lay1 \in [Files \cup Labels -> Layer \cup {None}]
        /\ \A k \in Files \cup Labels : (\E m \in DOMAIN stg1 : stg1[m] = k) => lay1[k] = lay[k]
        /\ \A k \in Files \cup Labels : lay1[k] # None =>
             lay1[k] = lay[k] /\ \E m \in DOMAIN stg1 : stg1[m] = k
    BY DEF Held, Good, Stages
  <1> HIDE DEF stg1, ed1, lay1
  <1>4. \A m \in DOMAIN stg1 : stg1[m] # None => stg1[m] \in Files \cup Labels
    BY <1>1 DEF Good, Stages
  <1>5. Stages(stg1, ed1, lay1, dsk)
    BY <1>1, <1>2, <1>3, <1>4 DEF Good, Stages
  <1>6. Apart(stg1, lay1)
    BY <1>1, <1>3, <1>4 DEF Good, Apart
  <1>7. Edits(stg1, ed1, lay1)
    <2> SUFFICES ASSUME NEW k \in Files \cup Labels, lay1[k] # None, ~lay1[k].shared,
                        NEW o \in lay1[k].ops, ~(o[2] < lay1[k].count)
                 PROVE  o[2] = lay1[k].count /\ \E m \in DOMAIN stg1 : stg1[m] = k /\ ed1[m]
      BY DEF Edits
    <2>1. lay1[k] = lay[k]
      BY <1>3
    <2>2. PICK n \in DOMAIN stg1 : stg1[n] = k
      BY <1>3
    <2>3. o[2] = lay[k].count /\ \E m \in DOMAIN stg : stg[m] = k /\ ed[m]
      BY <2>1 DEF Good, Edits
    <2>4. PICK m \in DOMAIN stg : stg[m] = k /\ ed[m]
      BY <2>3
    <2>5. k # None
      BY NoneIsNone
    <2>6. m = n
      BY <1>1, <2>1, <2>2, <2>4, <2>5 DEF Good, Apart
    <2> QED  BY <1>2, <2>1, <2>2, <2>3, <2>4, <2>6
  <1> QED  BY <1>5, <1>6, <1>7 DEF Good, stg1, ed1, lay1

\* Unless it is shared, nobody else has it and its editor is the scene that opens it.
Joined(stg, ed, l, f, new) ==
  ~new.shared =>
    /\ \A m \in DOMAIN stg : m # l => stg[m] # f
    /\ \A o \in new.ops : \/ o[2] < new.count
                          \/ o[2] = new.count /\ stg[l] = f /\ ed[l]

LEMMA OpenedIsJoined ==
  ASSUME UsdScenesAssumption, NEW stg, NEW ed, Good(stg, ed, layer, disk),
         NEW l \in DOMAIN stg, NEW f \in Files, disk[f] # None
  PROVE  LayerOpened(l, f, stg) \in Layer /\ Joined(stg, ed, l, f, LayerOpened(l, f, stg))
  <1> DEFINE new == LayerOpened(l, f, stg)
             others == \E m \in DOMAIN stg \ {l} : stg[m] = f
  <1> SUFFICES new \in Layer /\ Joined(stg, ed, l, f, new)
    OBVIOUS
  <1>1. CASE layer[f] = None
    <2>1. new \in Layer /\ new = disk[f]
      BY <1>1 DEF Good, Stages, LayerOpened
    <2>2. \A m \in DOMAIN stg : stg[m] # f
      BY <1>1, NoneIsNone DEF Good, Stages
    <2>3. Safe(new)
      BY <2>1 DEF Good
    <2> HIDE DEF new
    <2> QED  BY <2>1, <2>2, <2>3, NoneIsNone DEF Safe, Joined
  <1>2. CASE layer[f] # None
    <2> DEFINE s == layer[f].shared \/ others
    <2>1. layer[f] \in Layer /\ s \in BOOLEAN
      BY <1>2 DEF Good, Stages
    <2>2. new = [layer[f] EXCEPT !.shared = s]
      BY <1>2 DEF LayerOpened
    <2> HIDE DEF s, new
    <2>3. /\ new \in Layer /\ new.shared = s
          /\ new.ops = layer[f].ops /\ new.count = layer[f].count
      BY <2>1, <2>2, LayerShared
    <2>4. ~new.shared => ~layer[f].shared /\ ~others
      BY <2>3, Zenon DEF s
    <2>5. ~layer[f].shared => \A o \in layer[f].ops :
            \/ o[2] < layer[f].count
            \/ o[2] = layer[f].count /\ \E m \in DOMAIN stg : stg[m] = f /\ ed[m]
      BY <1>2 DEF Good, Edits
    <2> QED  BY <2>3, <2>4, <2>5 DEF Joined
  <1> QED  BY <1>1, <1>2

\* The layer that the stage had before may be gone.
LEMMA GoodOpened ==
  ASSUME UsdScenesAssumption, NEW stg, NEW ed, NEW lay, NEW dsk, Good(stg, ed, lay, dsk),
         NEW l \in DOMAIN stg, NEW f \in Files, NEW new \in Layer, Joined(stg, ed, l, f, new)
  PROVE  Good([stg EXCEPT ![l] = f], ed,
              Held([stg EXCEPT ![l] = f], [lay EXCEPT ![f] = new]), dsk)
  <1> DEFINE stg1 == [stg EXCEPT ![l] = f]
             lay0 == [lay EXCEPT ![f] = new]
             lay1 == Held(stg1, lay0)
  <1>1. /\ DOMAIN stg1 = DOMAIN stg /\ stg1[l] = f
        /\ \A m \in DOMAIN stg : m # l => stg1[m] = stg[m]
    OBVIOUS
  <1>2. /\ ~new.shared => \A m \in DOMAIN stg : m # l => stg[m] # f
        /\ ~new.shared => \A o \in new.ops : \/ o[2] < new.count
                                             \/ o[2] = new.count /\ stg[l] = f /\ ed[l]
    BY DEF Joined
  <1>3. /\ lay0 \in [Files \cup Labels -> Layer \cup {None}]
        /\ lay0[f] = new
        /\ \A k \in Files \cup Labels : k # f => lay0[k] = lay[k]
    BY <1>2 DEF Good, Stages
  <1> HIDE DEF lay0, stg1
  <1>4. /\ lay1 \in [Files \cup Labels -> Layer \cup {None}]
        /\ \A k \in Files \cup Labels : (\E m \in DOMAIN stg1 : stg1[m] = k) => lay1[k] = lay0[k]
        /\ \A k \in Files \cup Labels : lay1[k] # None =>
             lay1[k] = lay0[k] /\ \E m \in DOMAIN stg1 : stg1[m] = k
    BY <1>3 DEF Held
  <1> HIDE DEF lay1
  <1>5. \A m \in DOMAIN stg1 : stg1[m] # None =>
          stg1[m] \in Files \cup Labels /\ lay1[stg1[m]] = lay0[stg1[m]]
    BY <1>1, <1>4 DEF Good, Stages
  <1>6. Stages(stg1, ed, lay1, dsk)
    BY <1>1, <1>2, <1>3, <1>4, <1>5, NoneIsNone DEF Good, Stages
  <1>7. Apart(stg1, lay1)
    <2> SUFFICES ASSUME NEW m \in DOMAIN stg, NEW n \in DOMAIN stg, m # n, stg1[m] = stg1[n],
                        stg1[m] # None
                 PROVE  lay1[stg1[m]].shared
      BY <1>1 DEF Apart
    <2>1. CASE stg1[m] = f
      <3>1. \E x \in DOMAIN stg : x # l /\ stg[x] = f
        BY <1>1, <2>1
      <3> QED  BY <1>1, <1>2, <1>3, <1>5, <2>1, <3>1
    <2>2. CASE stg1[m] # f
      <3>1. m # l /\ n # l
        BY <1>1, <2>2
      <3> QED  BY <1>1, <1>3, <1>5, <2>2, <3>1 DEF Good, Apart
    <2> QED  BY <2>1, <2>2
  <1>8. Edits(stg1, ed, lay1)
    <2> SUFFICES ASSUME NEW k \in Files \cup Labels, lay1[k] # None, ~lay1[k].shared,
                        NEW o \in lay1[k].ops, ~(o[2] < lay1[k].count)
                 PROVE  o[2] = lay1[k].count /\ \E m \in DOMAIN stg1 : stg1[m] = k /\ ed[m]
      BY DEF Edits
    <2>1. CASE k = f
      BY <1>1, <1>2, <1>3, <1>4, <2>1
    <2>2. CASE k # f
      <3>1. lay1[k] = lay[k] /\ k # None
        BY <1>3, <1>4, <2>2, NoneIsNone
      <3>2. PICK n \in DOMAIN stg1 : stg1[n] = k
        BY <1>4
      <3>3. PICK m \in DOMAIN stg : o[2] = lay[k].count /\ stg[m] = k /\ ed[m]
        BY <3>1 DEF Good, Edits
      <3>4. n # l /\ stg[n] = k
        BY <1>1, <2>2, <3>2
      <3>5. m = n
        BY <1>1, <3>1, <3>3, <3>4 DEF Good, Apart
      <3> QED  BY <1>1, <3>1, <3>3, <3>4, <3>5
    <2> QED  BY <2>1, <2>2
  <1> QED  BY <1>6, <1>7, <1>8 DEF Good, stg1, lay1, lay0

\* The edits of a layer that is not shared are those of the scene that has it.
LEMMA OwnEdits ==
  ASSUME UsdScenesAssumption, NEW stg, NEW ed, NEW lay, NEW dsk, Good(stg, ed, lay, dsk),
         NEW l \in DOMAIN stg, stg[l] # None, ~lay[stg[l]].shared
  PROVE  \A o \in lay[stg[l]].ops : \/ o[2] < lay[stg[l]].count
                                    \/ o[2] = lay[stg[l]].count /\ ed[l]
  <1> DEFINE k == stg[l]
  <1>1. k \in Files \cup Labels /\ lay[k] # None
    BY DEF Good, Stages
  <1>2. \A m \in DOMAIN stg : stg[m] = k => m = l
    BY DEF Good, Apart
  <1>3. \A o \in lay[k].ops : \/ o[2] < lay[k].count
                              \/ o[2] = lay[k].count /\ \E m \in DOMAIN stg : stg[m] = k /\ ed[m]
    BY <1>1 DEF Good, Edits
  <1> HIDE DEF k
  <1>4. \A o \in lay[k].ops : o[2] < lay[k].count \/ (o[2] = lay[k].count /\ ed[l])
    BY <1>2, <1>3
  <1> QED  BY <1>4 DEF k

\* A layer is written by a scene that has it, or has none yet.
LEMMA GoodAuthored ==
  ASSUME UsdScenesAssumption, NEW stg, NEW ed, NEW lay, NEW dsk, Good(stg, ed, lay, dsk),
         NEW l \in DOMAIN stg, NEW k, k = IF stg[l] = None THEN l ELSE stg[l],
         NEW new \in Layer, stg[l] # None => new.shared = lay[k].shared,
         NEW ed1, DOMAIN ed1 = DOMAIN ed, ed1[l] \in BOOLEAN,
         \A m \in DOMAIN ed : m # l => ed1[m] = ed[m],
         ~new.shared => \A o \in new.ops : o[2] < new.count \/ (o[2] = new.count /\ ed1[l])
  PROVE  Good([stg EXCEPT ![l] = k], ed1, [lay EXCEPT ![k] = new], dsk)
  <1> DEFINE stg1 == [stg EXCEPT ![l] = k]
             lay1 == [lay EXCEPT ![k] = new]
  <1>1. k \in Files \cup {l} /\ k \in Files \cup Labels /\ k # None /\ l \in Labels
    BY NoneIsNone DEF Good, Stages
  <1>2. /\ DOMAIN stg1 = DOMAIN stg /\ stg1[l] = k
        /\ \A m \in DOMAIN stg : m # l => stg1[m] = stg[m]
    OBVIOUS
  <1>3. /\ lay1 \in [Files \cup Labels -> Layer \cup {None}]
        /\ lay1[k] = new
        /\ \A f \in Files \cup Labels : f # k => lay1[f] = lay[f]
    BY <1>1 DEF Good, Stages
  <1> HIDE DEF stg1, lay1
  <1>4. \A m \in DOMAIN stg : m # l /\ stg[m] = k => stg[l] = k
    BY <1>1, NoneIsNone DEF Good, Stages
  <1>5. Stages(stg1, ed1, lay1, dsk)
    <2>1. \A m \in DOMAIN stg1 : stg1[m] # None => lay1[stg1[m]] # None
      BY <1>1, <1>2, <1>3, NoneIsNone DEF Good, Stages
    <2>2. \A m \in DOMAIN stg1 : ed1[m] \in BOOLEAN
      BY <1>2 DEF Good, Stages
    <2>3. ASSUME NEW f \in Files \cup Labels, lay1[f] # None
          PROVE  \E m \in DOMAIN stg1 : stg1[m] = f
      <3>1. CASE f = k
        BY <1>2, <3>1
      <3>2. CASE f # k
        <4>1. PICK m \in DOMAIN stg : stg[m] = f
          BY <1>3, <2>3, <3>2 DEF Good, Stages
        <4>2. m # l
          BY <3>2, <4>1, NoneIsNone
        <4> QED  BY <1>2, <4>1, <4>2
      <3> QED  BY <3>1, <3>2
    <2> QED  BY <1>1, <1>2, <1>3, <2>1, <2>2, <2>3 DEF Good, Stages
  <1>6. Apart(stg1, lay1)
    <2> SUFFICES ASSUME NEW m \in DOMAIN stg, NEW n \in DOMAIN stg, m # n, stg1[m] = stg1[n],
                        stg1[m] # None
                 PROVE  lay1[stg1[m]].shared
      BY <1>2 DEF Apart
    <2>1. CASE stg1[m] = k
      <3>1. stg[m] = stg[n] /\ stg[m] = k
        BY <1>2, <1>4, <2>1
      <3>2. lay[k].shared /\ stg[l] # None
        BY <1>1, <1>2, <1>4, <3>1 DEF Good, Apart
      <3> QED  BY <1>3, <2>1, <3>2
    <2>2. CASE stg1[m] # k
      <3>1. m # l /\ n # l /\ stg[m] = stg[n]
        BY <1>2, <2>2
      <3>2. stg[m] \in Files \cup Labels /\ lay[stg[m]].shared
        BY <1>2, <3>1 DEF Good, Stages, Apart
      <3> QED  BY <1>2, <1>3, <2>2, <3>1, <3>2
    <2> QED  BY <2>1, <2>2
  <1>7. Edits(stg1, ed1, lay1)
    <2> SUFFICES ASSUME NEW f \in Files \cup Labels, lay1[f] # None, ~lay1[f].shared,
                        NEW o \in lay1[f].ops, ~(o[2] < lay1[f].count)
                 PROVE  o[2] = lay1[f].count /\ \E m \in DOMAIN stg1 : stg1[m] = f /\ ed1[m]
      BY DEF Edits
    <2>1. CASE f = k
      <3>1. o[2] = new.count /\ ed1[l]
        BY <1>3, <2>1
      <3> QED  BY <1>2, <1>3, <2>1, <3>1
    <2>2. CASE f # k
      <3>1. lay1[f] = lay[f]
        BY <1>3, <2>2
      <3>2. PICK m \in DOMAIN stg : o[2] = lay[f].count /\ stg[m] = f /\ ed[m]
        BY <3>1 DEF Good, Edits
      <3>3. m # l
        BY <2>2, <3>2, NoneIsNone
      <3> QED  BY <1>2, <3>1, <3>2, <3>3 DEF Good, Stages
    <2> QED  BY <2>1, <2>2
  <1> QED  BY <1>5, <1>6, <1>7 DEF Good, stg1, lay1

-----------------------------------------------------------------------------
(* The actions.                                                            *)

LEMMA LayerOfScene ==
  ASSUME UsdScenesAssumption, ScenesInv, NEW l \in Scenes
  PROVE  /\ LayerOf(l) \in Layer
         /\ stage[l] = None => LayerOf(l) = Empty /\ Empty.ops = {}
         /\ stage[l] # None => LayerOf(l) = layer[stage[l]]
  <1>1. CASE stage[l] = None
    BY <1>1, EmptyIsLayer DEF LayerOf, Empty
  <1>2. CASE stage[l] # None
    BY <1>2 DEF LayerOf, ScenesInv, Good, Stages, Scenes
  <1> QED  BY <1>1, <1>2

\* A scene writes its layer: as GoodAuthored, of the variables.
LEMMA AuthorStep ==
  ASSUME UsdScenesAssumption, ScenesInv, NEW l \in Scenes, NEW new \in Layer, Author(l, new),
         new.shared = LayerOf(l).shared,
         DOMAIN edited' = DOMAIN edited, edited'[l] \in BOOLEAN,
         \A m \in DOMAIN edited : m # l => edited'[m] = edited[m],
         ~new.shared => \A o \in new.ops : o[2] < new.count \/ (o[2] = new.count /\ edited'[l])
  PROVE  Good(stage', edited', layer', disk)
  <1>1. stage[l] # None => new.shared = layer[StageOf(l)].shared
    BY LayerOfScene DEF StageOf
  <1>2. Good([stage EXCEPT ![l] = StageOf(l)], edited', [layer EXCEPT ![StageOf(l)] = new], disk)
    BY <1>1, GoodAuthored DEF ScenesInv, Scenes, StageOf
  <1> QED  BY <1>2 DEF Author

\* Unless somebody else has the layer, too, what a scene exports is safe.
LEMMA SealedIsSafe ==
  ASSUME UsdScenesAssumption, ScenesInv, NEW l \in Scenes
  PROVE  /\ Sealed(l) \in Layer /\ Sealed(l).shared = LayerOf(l).shared
         /\ Safe(Sealed(l))
  <1> DEFINE x == LayerOf(l)
             y == [x EXCEPT !.count = @ + 1]
  <1>1. x \in Layer /\ x.count \in Nat /\ x.ops \subseteq Paths \X Nat
    BY LayerOfScene, LayerFields
  <1>2. ~x.shared => \A o \in x.ops : o[2] < x.count \/ (o[2] = x.count /\ edited[l])
    <2>1. CASE stage[l] = None
      BY <2>1, LayerOfScene
    <2>2. CASE stage[l] # None
      BY <2>2, LayerOfScene, OwnEdits DEF ScenesInv, Scenes
    <2> QED  BY <2>1, <2>2
  <1>3. CASE edited[l]
    <2>1. y \in Layer /\ y.shared = x.shared /\ y.ops = x.ops /\ y.count = x.count + 1
      BY <1>1, LayerSealed
    <2>2. Sealed(l) = y
      BY <1>3 DEF Sealed
    <2> HIDE DEF x, y
    <2>3. \A o \in x.ops : o[2] \in Nat
      BY <1>1
    <2>4. Safe(y)
      BY <1>1, <1>2, <2>1, <2>3 DEF Safe
    <2> QED  BY <2>1, <2>2, <2>4 DEF x
  <1>4. CASE ~edited[l]
    <2>1. Sealed(l) = x
      BY <1>4 DEF Sealed
    <2>2. Safe(x)
      BY <1>2, <1>4 DEF Safe
    <2> QED  BY <1>1, <2>1, <2>2
  <1> QED  BY <1>3, <1>4

LEMMA ExportedStep ==
  ASSUME UsdScenesAssumption, ScenesInv, NEW l \in Scenes, NEW f \in Files, NEW w \in BOOLEAN,
         Exported(l, f, w)
  PROVE  ScenesInv'
  <1>1. /\ Sealed(l) \in Layer /\ Sealed(l).shared = LayerOf(l).shared
        /\ Safe(Sealed(l))
    BY SealedIsSafe
  <1>2. Good(stage', edited', layer', disk)
    <2>1. CASE stage[l] = None
      BY <2>1 DEF Exported, ScenesInv
    <2>2. CASE stage[l] # None
      <3>1. Author(l, Sealed(l)) /\ edited' = [edited EXCEPT ![l] = FALSE]
        BY <2>2 DEF Exported
      <3>2. ~Sealed(l).shared => \A o \in Sealed(l).ops : o[2] < Sealed(l).count
        BY <1>1, NoneIsNone DEF Safe
      <3>3. /\ DOMAIN edited' = DOMAIN edited /\ edited'[l] \in BOOLEAN
            /\ \A m \in DOMAIN edited : m # l => edited'[m] = edited[m]
        BY <3>1 DEF ScenesInv, Good, Stages, Scenes
      <3> QED  BY <1>1, <3>1, <3>2, <3>3, AuthorStep
    <2> QED  BY <2>1, <2>2
  <1>3. /\ disk' \in [Files -> Layer \cup {None}]
        /\ \A g \in Files : Safe(disk'[g])
    BY <1>1 DEF Exported, ScenesInv, Good, Stages
  <1> QED  BY <1>2, <1>3 DEF ScenesInv, Good, Stages

LEMMA ScenesInit ==
  ASSUME UsdScenesAssumption, Init
  PROVE  ScenesInv
  <1>1. DOMAIN stage = {} /\ DOMAIN edited = {}
    BY DEF Init
  <1>2. \A f \in Files : Safe(disk[f])
    BY DEF Init, Safe, UsdScenesAssumption
  <1>3. Stages(stage, edited, layer, disk)
    BY <1>1 DEF Init, Stages, UsdScenesAssumption
  <1>4. Edits(stage, edited, layer)
    BY DEF Init, Edits
  <1> QED  BY <1>1, <1>2, <1>3, <1>4 DEF ScenesInv, Good, Apart

LEMMA TablesStep ==
  ASSUME UsdScenesAssumption, TablesInv, [Next]_vars
  PROVE  TablesInv'
  <1> DEFINE Files1 == \A l \in DOMAIN entries : l \in Labels /\ entries[l] \in Files
             Prims1 == DOMAIN prims \subseteq Labels
  <1>1. ASSUME NEW l \in Labels, NEW p, Register(l, p) PROVE Prims1'
    BY <1>1 DEF Register, TablesInv, With, ctxVars
  <1>2. ASSUME NEW l \in Labels, NEW f \in Files, entries' = With(entries, l, f) PROVE Files1'
    BY <1>2 DEF With, TablesInv
  <1>3. ASSUME NEW l, entries' = Without(entries, {l}) PROVE Files1'
    BY <1>3 DEF Without, TablesInv
  <1>4. ASSUME NEW l \in Labels, NEW f \in Files, NEW w, SaveTo(l, f, w) PROVE Files1'
    BY <1>4 DEF SaveTo, TablesInv
  <1>5. ASSUME Call PROVE calls' \in 0 .. MaxCalls
    BY <1>5 DEF Call, TablesInv, UsdScenesAssumption
  <1>6. CASE Python
    BY <1>5, <1>6 DEF Python, CreateScene, RemoveScene, OpenScene, ExportScene, CreatePrim,
                      RemovePrim, SetTransform, ctxVars, TablesInv
  <1>7. CASE Editor
    <2>1. Files1'
      BY <1>2, <1>3, <1>4, <1>7 DEF Editor, RegisterMesh, close_usd, load_usd, save_usd_as,
                                    save_usd, TablesInv
    <2>2. Prims1'
      BY <1>1, <1>7 DEF Editor, RegisterMesh, close_usd, load_usd, save_usd_as, save_usd, SaveTo,
                        ctxVars, TablesInv
    <2>3. calls' \in 0 .. MaxCalls
      BY <1>5, <1>7 DEF Editor, RegisterMesh, close_usd, load_usd, save_usd_as, save_usd, SaveTo
    <2> QED  BY <2>1, <2>2, <2>3 DEF TablesInv
  <1>8. CASE ClearScenes \/ \E t \in Times : SetCurrentTimeCode(t)
    BY <1>5, <1>8 DEF ClearScenes, SetCurrentTimeCode, ctxVars, TablesInv
  <1>9. CASE UNCHANGED vars
    BY <1>9 DEF vars, ctxVars, TablesInv
  <1> QED  BY <1>6, <1>7, <1>8, <1>9 DEF Next

\* Of every action, what it does to the scenes.
LEMMA ScenesStep ==
  ASSUME UsdScenesAssumption, TablesInv, ScenesInv, [Next]_vars
  PROVE  ScenesInv'
  <1> USE DEF ScenesInv
  <1>1. CASE UNCHANGED sceneVars
    BY <1>1 DEF sceneVars
  <1>2. ASSUME NEW ls, Removed(ls) PROVE ScenesInv'
    BY <1>2, GoodRemoved DEF Removed
  <1>3. ASSUME NEW l \in Labels, CreateScene(l) PROVE ScenesInv'
    BY <1>3, GoodCreated DEF CreateScene, Created, Scenes
  <1>4. ASSUME NEW l \in Labels, NEW f \in Files, NEW stg, NEW ed, Good(stg, ed, layer, disk),
               l \in DOMAIN stg, disk[f] # None, Opened(l, f, stg), edited' = ed, disk' = disk
        PROVE  ScenesInv'
    <2> DEFINE new == LayerOpened(l, f, stg)
    <2>1. new \in Layer /\ Joined(stg, ed, l, f, new)
      BY <1>4, OpenedIsJoined
    <2>2. Good([stg EXCEPT ![l] = f], ed,
               Held([stg EXCEPT ![l] = f], [layer EXCEPT ![f] = new]), disk)
      BY <1>4, <2>1, GoodOpened
    <2>3. /\ stage' = [stg EXCEPT ![l] = f]
          /\ layer' = Held(stage', [layer EXCEPT ![f] = new])
      BY <1>4 DEF Opened
    <2> QED  BY <1>4, <2>2, <2>3
  <1>5. ASSUME NEW l \in Labels, NEW f \in Files, OpenScene(l, f) PROVE ScenesInv'
    BY <1>4, <1>5 DEF OpenScene, Scenes
  <1>6. ASSUME NEW l \in Labels, NEW f \in Files, load_usd(f, l) PROVE ScenesInv'
    <2>1. Good(With(stage, l, None), With(edited, l, FALSE), layer, disk)
      BY <1>6, GoodCreated DEF load_usd, Scenes
    <2>2. CASE disk[f] = None
      BY <1>6, <2>1, <2>2 DEF load_usd
    <2>3. CASE disk[f] # None
      <3>1. l \in DOMAIN With(stage, l, None)
        BY DEF With
      <3> QED  BY <1>4, <1>6, <2>1, <2>3, <3>1 DEF load_usd
    <2> QED  BY <2>2, <2>3
  <1>7. ASSUME NEW l \in Labels, NEW f \in Files, NEW w \in BOOLEAN, ExportScene(l, f, w)
        PROVE  ScenesInv'
    BY <1>7, ExportedStep DEF ExportScene
  <1>8. ASSUME NEW l \in Labels, NEW f \in Files, NEW w \in BOOLEAN, SaveTo(l, f, w)
        PROVE  ScenesInv'
    BY <1>8, ExportedStep DEF SaveTo
  <1>9. ASSUME NEW l \in Scenes, NEW new \in Layer, Author(l, new), new.shared = LayerOf(l).shared,
               new.count = LayerOf(l).count, new.ops \subseteq LayerOf(l).ops,
               UNCHANGED <<edited, disk>>
        PROVE  ScenesInv'
    <2>1. ~new.shared => \A o \in new.ops : o[2] < new.count \/ (o[2] = new.count /\ edited[l])
      <3>1. CASE stage[l] = None
        BY <1>9, <3>1, LayerOfScene
      <3>2. CASE stage[l] # None
        BY <1>9, <3>2, LayerOfScene, OwnEdits DEF Scenes
      <3> QED  BY <3>1, <3>2
    <2>2. edited[l] \in BOOLEAN
      BY DEF Good, Stages, Scenes
    <2>3. Good(stage', edited', layer', disk)
      BY <1>9, <2>1, <2>2, AuthorStep
    <2> QED  BY <1>9, <2>3
  <1>10. ASSUME NEW l \in Labels, NEW p \in Paths, CreatePrim(l, p) PROVE ScenesInv'
    BY <1>9, <1>10, LayerOfScene, LayerCreated DEF CreatePrim
  <1>11. ASSUME NEW l \in Labels, NEW p \in Paths, RemovePrim(l, p) PROVE ScenesInv'
    <2> DEFINE x == LayerOf(l)
               ops == {o \in x.ops : o[1] # p}
               new == [x EXCEPT !.prims = @ \ {p}, !.ops = ops]
    <2>1. l \in Scenes /\ Author(l, new) /\ UNCHANGED <<edited, disk>>
      BY <1>11, Zenon DEF RemovePrim
    <2>2. x \in Layer /\ ops \in SUBSET x.ops
      BY <2>1, LayerOfScene
    <2> HIDE DEF x, ops
    <2>3. /\ new \in Layer /\ new.shared = x.shared /\ new.count = x.count
          /\ new.ops \subseteq x.ops
      <3>1. \A z \in SUBSET x.ops :
              LET y == [x EXCEPT !.prims = @ \ {p}, !.ops = z]
              IN y \in Layer /\ y.shared = x.shared /\ y.ops = z /\ y.count = x.count
        BY <2>2, LayerRemoved
      <3> QED  BY <2>2, <3>1
    <2> HIDE DEF new
    <2> QED  BY <1>9, <2>1, <2>3 DEF x
  <1>12. ASSUME NEW l \in Labels, NEW p \in Paths, SetTransform(l, p) PROVE ScenesInv'
    <2> DEFINE x == LayerOf(l)
               new == [x EXCEPT !.ops = @ \cup {<<p, x.count>>}]
    <2>1. l \in Scenes /\ stage[l] # None /\ Author(l, new) /\ disk' = disk
          /\ edited' = [edited EXCEPT ![l] = TRUE]
      BY <1>12 DEF SetTransform
    <2>2. /\ DOMAIN edited' = DOMAIN edited /\ edited'[l]
          /\ \A m \in DOMAIN edited : m # l => edited'[m] = edited[m]
      BY <2>1 DEF Good, Stages, Scenes
    <2>3. /\ new \in Layer /\ new.shared = x.shared /\ new.count = x.count
          /\ new.ops = x.ops \cup {<<p, x.count>>}
      BY <2>1, LayerOfScene, LayerMoved
    <2>4. ~x.shared => \A o \in x.ops : o[2] < x.count \/ (o[2] = x.count /\ edited[l])
      BY <2>1, LayerOfScene, OwnEdits DEF Scenes
    <2> HIDE DEF x, new
    <2>5. ~new.shared => \A o \in new.ops : o[2] < new.count \/ (o[2] = new.count /\ edited'[l])
      BY <2>2, <2>3, <2>4
    <2>6. Good(stage', edited', layer', disk)
      BY <2>1, <2>2, <2>3, <2>5, AuthorStep DEF x
    <2> QED  BY <2>1, <2>6
  <1>13. CASE Python
    BY <1>3, <1>2, <1>5, <1>7, <1>10, <1>11, <1>12, <1>13 DEF Python, RemoveScene
  <1>14. CASE ClearScenes
    BY <1>2, <1>14 DEF ClearScenes
  <1>15. CASE Editor
    <2>1. ASSUME NEW l \in Labels, NEW w \in BOOLEAN, save_usd(l, w) PROVE ScenesInv'
      BY <1>8, <2>1 DEF save_usd, TablesInv
    <2> QED  BY <1>1, <1>2, <1>6, <1>8, <1>15, <2>1 DEF Editor, RegisterMesh, close_usd, save_usd_as
  <1>16. CASE \E t \in Times : SetCurrentTimeCode(t)
    BY <1>1, <1>16 DEF SetCurrentTimeCode
  <1>17. CASE UNCHANGED vars
    BY <1>1, <1>17 DEF vars
  <1> QED  BY <1>13, <1>14, <1>15, <1>16, <1>17 DEF Next

-----------------------------------------------------------------------------
(* The context.                                                            *)

LEMMA ContextInit ==
  ASSUME UsdScenesAssumption, Init
  PROVE  ContextInv
  <1>1. order = <<>> /\ DOMAIN prims = {} /\ DOMAIN timeline = {"start", "end", "cur", "tcps"}
    BY DEF Init
  <1>2. ContextAgrees
    BY <1>1 DEF ContextAgrees, IsInjective, ToSet
  <1> QED  BY <1>1, <1>2 DEF ContextInv

\* What comes last in an order that did not have it.
LEMMA AppendedOnce ==
  ASSUME NEW S, NEW s \in Seq(S), IsInjective(s), NEW x, x \notin ToSet(s)
  PROVE  IsInjective(Append(s, x)) /\ ToSet(Append(s, x)) = ToSet(s) \cup {x}
  <1>1. /\ DOMAIN s = 1 .. Len(s) /\ Len(s) \in Nat
        /\ DOMAIN Append(s, x) = 1 .. Len(s) + 1
        /\ \A i \in 1 .. Len(s) : Append(s, x)[i] = s[i]
        /\ Append(s, x)[Len(s) + 1] = x
    OBVIOUS
  <1>2. IsInjective(Append(s, x))
    BY <1>1 DEF IsInjective, ToSet
  <1>3. ToSet(Append(s, x)) = ToSet(s) \cup {x}
    BY <1>1 DEF ToSet
  <1> QED  BY <1>2, <1>3

LEMMA CoveringKeeps ==
  ASSUME NEW tl, DOMAIN tl = {"start", "end", "cur", "tcps"}, NEW ival
  PROVE  DOMAIN Covering(tl, ival) = DOMAIN tl /\ Covering(tl, ival).tcps = tl.tcps
  BY DEF Covering

LEMMA ContextRegister ==
  ASSUME UsdScenesAssumption, ContextInv, NEW l \in Labels, NEW p, p.tcps \in Nat \cup {None},
         Register(l, p)
  PROVE  ContextInv'
  <1>1. CASE l \in DOMAIN prims
    BY <1>1 DEF Register, ctxVars, ContextInv, ContextAgrees
  <1>2. CASE l \notin DOMAIN prims
    <2> DEFINE ival == queryStartEndTimeCodes(p)
               tl == IF ival = None THEN timeline ELSE Covering(timeline, ival)
    <2>1. DOMAIN tl = {"start", "end", "cur", "tcps"} /\ tl.tcps = timeline.tcps
      BY CoveringKeeps DEF ContextInv
    <2>2. /\ prims' = With(prims, l, p)
          /\ timeline' = IF p.tcps # None /\ tl.tcps = NaN THEN [tl EXCEPT !.tcps = p.tcps] ELSE tl
          /\ order' = IF p.tcps \in {None, timeline'.tcps} THEN Append(order, l) ELSE order
      BY <1>2 DEF Register
    <2> HIDE DEF tl
    <2>3. /\ DOMAIN timeline' = {"start", "end", "cur", "tcps"}
          /\ timeline'.tcps = IF p.tcps # None /\ timeline.tcps = NaN THEN p.tcps ELSE timeline.tcps
      BY <2>1, <2>2
    <2>4. /\ DOMAIN prims' = DOMAIN prims \cup {l} /\ prims'[l] = p
          /\ \A m \in DOMAIN prims : prims'[m] = prims[m] /\ m # l
      BY <1>2, <2>2 DEF With
    <2>5. \A m \in DOMAIN prims' : prims'[m].tcps \in Nat \cup {None}
      BY <2>4 DEF ContextInv
    <2>6. timeline'.tcps = NaN => \A m \in DOMAIN prims' : prims'[m].tcps = None
      BY <2>3, <2>4 DEF ContextInv, UsdScenesAssumption
    <2>7. \A m \in DOMAIN prims : prims[m].tcps \in {None, timeline.tcps} <=>
                                  prims[m].tcps \in {None, timeline'.tcps}
      BY <2>3 DEF ContextInv, UsdScenesAssumption
    <2>8. order \in Seq(DOMAIN prims) /\ l \notin ToSet(order)
      BY <1>2 DEF ContextInv, ContextAgrees
    <2>9. CASE p.tcps \in {None, timeline'.tcps}
      <3>1. order' = Append(order, l)
        BY <2>2, <2>9
      <3>2. order' \in Seq(DOMAIN prims')
        BY <2>4, <2>8, <3>1
      <3>3. IsInjective(order') /\ ToSet(order') = ToSet(order) \cup {l}
        BY <2>8, <3>1, AppendedOnce DEF ContextInv, ContextAgrees
      <3>4. ContextAgrees'
        BY <2>4, <2>7, <2>9, <3>3 DEF ContextInv, ContextAgrees
      <3> QED  BY <2>3, <2>5, <2>6, <3>2, <3>4 DEF ContextInv
    <2>10. CASE p.tcps \notin {None, timeline'.tcps}
      <3>1. order' = order
        BY <2>2, <2>10
      <3>2. order' \in Seq(DOMAIN prims')
        BY <2>4, <2>8, <3>1
      <3>3. ContextAgrees'
        BY <2>4, <2>7, <2>10, <3>1 DEF ContextInv, ContextAgrees
      <3> QED  BY <2>3, <2>5, <2>6, <3>2, <3>3 DEF ContextInv
    <2> QED  BY <2>9, <2>10
  <1> QED  BY <1>1, <1>2

LEMMA ContextStep ==
  ASSUME UsdScenesAssumption, ContextInv, ScenesInv', [Next]_vars
  PROVE  ContextInv'
  <1>1. CASE UNCHANGED ctxVars
    BY <1>1 DEF ctxVars, ContextInv, ContextAgrees
  <1>2. CASE Python \/ ClearScenes
    BY <1>1, <1>2 DEF Python, ClearScenes, CreateScene, RemoveScene, OpenScene, ExportScene,
                      CreatePrim, RemovePrim, SetTransform
  <1>3. CASE Editor
    <2>1. ASSUME NEW l \in Labels, RegisterMesh(l) PROVE ContextInv'
      BY <2>1, ContextRegister DEF RegisterMesh
    <2>2. ASSUME NEW l \in Labels, NEW f \in Files, load_usd(f, l) PROVE ContextInv'
      <3>1. CASE disk[f] = None
        BY <1>1, <2>2, <3>1 DEF load_usd
      <3>2. CASE disk[f] # None
        <4> DEFINE p == [own |-> layer'[f].own, childs |-> layer'[f].childs,
                         tcps |-> layer'[f].tcps]
        <4>1. Opened(l, f, With(stage, l, None)) /\ Register(l, p)
          BY <2>2, <3>2 DEF load_usd
        <4>2. l \in DOMAIN stage' /\ stage'[l] = f
          BY <4>1 DEF Opened, With
        <4>3. layer'[f] \in Layer
          BY <4>2, NoneIsNone DEF ScenesInv, Good, Stages
        <4>4. p.tcps \in Nat
          BY <4>3, LayerFields
        <4> HIDE DEF p
        <4> QED  BY <4>1, <4>4, ContextRegister
      <3> QED  BY <3>1, <3>2
    <2>3. ASSUME NEW l \in Labels, NEW f, NEW w, SaveTo(l, f, w) PROVE ContextInv'
      BY <1>1, <2>3 DEF SaveTo
    <2> QED  BY <1>1, <1>3, <2>1, <2>2, <2>3 DEF Editor, close_usd, save_usd, save_usd_as
  <1>4. CASE \E t \in Times : SetCurrentTimeCode(t)
    <2>1. PICK t \in Times : SetCurrentTimeCode(t)
      BY <1>4
    <2>2. /\ timeline' = [timeline EXCEPT !.cur = t] /\ prims' = prims /\ order' = order
      BY <2>1 DEF SetCurrentTimeCode
    <2>3. DOMAIN timeline' = DOMAIN timeline /\ timeline'.tcps = timeline.tcps
      BY <2>2 DEF ContextInv
    <2> QED  BY <2>2, <2>3 DEF ContextInv, ContextAgrees
  <1>5. CASE UNCHANGED vars
    BY <1>1, <1>5 DEF vars
  <1> QED  BY <1>2, <1>3, <1>4, <1>5 DEF Next

-----------------------------------------------------------------------------
(* The timeline.                                                           *)

IsTimeline(tl) ==
  /\ DOMAIN tl = {"start", "end", "cur", "tcps"}
  /\ tl.start \in Int \cup {NaN} /\ tl.end \in Int \cup {NaN} /\ tl.cur \in Int \cup {NaN}
  /\ tl.start = NaN <=> tl.end = NaN

\* What registerPrimitive may be given: the time codes of a primitive and of its children.
Primitive == [own : Seq(Nat), childs : Seq(Seq(Nat)), tcps : Nat \cup {None}]

\* The sorted lists of time codes of a primitive.
Lists(p) == {i \in {p.own} \cup ToSet(p.childs) : i # <<>>}

Covers(tl, p) ==
  \A i \in Lists(p) : /\ tl.start # NaN /\ tl.start <= Head(i)
                      /\ tl.end # NaN /\ tl.end >= Last(i)

TimeInv ==
  /\ IsTimeline(timeline)
  /\ DOMAIN prims \subseteq Labels
  /\ \A l \in DOMAIN prims : prims[l] \in Primitive /\ Covers(timeline, prims[l])

\* A timeline is extended.
Extends(new, tl) ==
  tl.start # NaN => new.start # NaN /\ new.start <= tl.start /\ new.end >= tl.end

\* A primitive joins: what it may do to the current time code.
Kept(new, tl) ==
  new.cur # tl.cur /\ tl.cur # NaN =>
    /\ new.cur \in {new.start, new.end}
    /\ ~(new.start <= tl.cur /\ tl.cur <= new.end)

\* A primitive has finitely many lists of time codes, and each has a first and a last one.
LEMMA ListsFinite ==
  ASSUME NEW p \in Primitive
  PROVE  /\ IsFiniteSet(Lists(p))
         /\ \A i \in Lists(p) : i \in Seq(Nat) /\ i # <<>> /\ Head(i) \in Nat /\ Last(i) \in Nat
  <1>1. p.own \in Seq(Nat) /\ p.childs \in Seq(Seq(Nat))
    BY DEF Primitive
  <1> DEFINE s == p.childs
             k == Len(p.childs)
  <1>2. k \in Nat /\ DOMAIN s = 1 .. k /\ \A j \in 1 .. k : s[j] \in Seq(Nat)
    BY <1>1
  <1> HIDE DEF k
  <1>3. IsFiniteSet(1 .. k)
    BY <1>2, FS_Interval
  <1>4. ToSet(s) = {s[j] : j \in 1 .. k}
    BY <1>2 DEF ToSet
  <1> HIDE DEF s
  <1>5. IsFiniteSet(ToSet(s))
    <2> DEFINE I == 1 .. k
    <2>1. IsFiniteSet(I) /\ ToSet(s) = {s[j] : j \in I}
      BY <1>3, <1>4
    <2> HIDE DEF I
    <2>2. IsFiniteSet({s[j] : j \in I})
      BY <2>1, ImageFinite
    <2> QED  BY <2>1, <2>2
  <1>6. IsFiniteSet(ToSet(s) \cup {p.own})
    BY <1>5, FS_AddElement
  <1>7. Lists(p) \subseteq ToSet(s) \cup {p.own}
    BY DEF Lists, s
  <1>8. IsFiniteSet(Lists(p))
    BY <1>6, <1>7, FS_Subset
  <1>9. ASSUME NEW i \in Lists(p)
        PROVE  i \in Seq(Nat) /\ i # <<>> /\ Head(i) \in Nat /\ Last(i) \in Nat
    <2>1. i \in Seq(Nat) /\ i # <<>>
      BY <1>1, <1>2, <1>4 DEF Lists, s
    <2>2. Head(i) = i[1] /\ Last(i) = i[Len(i)] /\ Len(i) \in Nat \ {0}
      BY <2>1 DEF Last
    <2>3. 1 \in 1 .. Len(i) /\ Len(i) \in 1 .. Len(i)
      BY <2>2
    <2> QED  BY <2>1, <2>2, <2>3
  <1> QED  BY <1>8, <1>9

\* queryStartEndTimeCodes finds the first and the last of all time codes.
LEMMA QueryFinds ==
  ASSUME UsdScenesAssumption, NEW p \in Primitive
  PROVE  LET ival == queryStartEndTimeCodes(p) IN
         \/ ival = None /\ Lists(p) = {}
         \/ /\ ival # None /\ ival[1] \in Nat /\ ival[2] \in Nat
            /\ \A i \in Lists(p) : ival[1] <= Head(i) /\ Last(i) <= ival[2]
  <1>1. queryStartEndTimeCodes(p)
          = IF Lists(p) = {} THEN None
            ELSE <<Min({Head(i) : i \in Lists(p)}), Max({Last(i) : i \in Lists(p)})>>
    BY DEF queryStartEndTimeCodes, Lists
  <1>2. CASE Lists(p) = {}
    BY <1>1, <1>2
  <1>3. CASE Lists(p) # {}
    <2> DEFINE H == {Head(i) : i \in Lists(p)}
               L == {Last(i) : i \in Lists(p)}
               a == Min(H)
               b == Max(L)
    <2>1. IsFiniteSet(H) /\ IsFiniteSet(L)
      <3> DEFINE I == Lists(p)
                 head == [i \in I |-> Head(i)]
                 last == [i \in I |-> Last(i)]
      <3>1. H = {head[i] : i \in I} /\ L = {last[i] : i \in I}
        OBVIOUS
      <3>2. IsFiniteSet(I)
        BY ListsFinite
      <3> HIDE DEF I, H, L, head, last
      <3> QED  BY <3>1, <3>2, ImageFinite
    <2>2. H \subseteq Nat /\ L \subseteq Nat /\ H # {} /\ L # {}
      BY <1>3, ListsFinite
    <2>3. \A i \in Lists(p) : Head(i) \in H /\ Last(i) \in L
      OBVIOUS
    <2> HIDE DEF H, L
    <2>4. a \in H /\ \A y \in H : a <= y
      <3>1. H \subseteq Int
        BY <2>2
      <3> QED  BY <2>1, <2>2, <3>1, MinExists
    <2>5. b \in L /\ \A y \in L : b >= y
      <3>1. L \subseteq Int
        BY <2>2
      <3> QED  BY <2>1, <2>2, <3>1, MaxExists
    <2>6. a \in Nat /\ b \in Nat
      BY <2>2, <2>4, <2>5
    <2>7. \A i \in Lists(p) : a <= Head(i) /\ Last(i) <= b
      BY <2>2, <2>3, <2>4, <2>5, <2>6
    <2>8. queryStartEndTimeCodes(p) = <<a, b>>
      BY <1>1, <1>3 DEF H, L
    <2> HIDE DEF a, b
    <2>9. <<a, b>> # None
      BY <2>6 DEF UsdScenesAssumption
    <2> QED  BY <2>6, <2>7, <2>8, <2>9
  <1> QED  BY <1>2, <1>3

\* The interval of a primitive extends the timeline.
LEMMA CoveringExtends ==
  ASSUME UsdScenesAssumption, NEW tl, IsTimeline(tl), NEW ival, ival[1] \in Nat, ival[2] \in Nat
  PROVE  LET new == Covering(tl, ival) IN
         /\ IsTimeline(new) /\ Extends(new, tl) /\ Kept(new, tl)
         /\ new.start # NaN /\ new.start <= ival[1] /\ new.end # NaN /\ new.end >= ival[2]
  <1> DEFINE start == IF tl.start = NaN \/ ival[1] < tl.start THEN ival[1] ELSE tl.start
             end   == IF tl.end = NaN \/ ival[2] > tl.end THEN ival[2] ELSE tl.end
             cur   == CASE tl.cur = NaN -> ival[1]
                        [] tl.cur # NaN /\ tl.cur < start -> start
                        [] tl.cur # NaN /\ tl.cur >= start /\ tl.cur > end -> end
                        [] OTHER -> tl.cur
             new   == Covering(tl, ival)
  <1>1. new = [tl EXCEPT !.start = start, !.end = end, !.cur = cur]
    BY DEF Covering
  <1>2. /\ start \in Int /\ start <= ival[1] /\ (tl.start # NaN => start <= tl.start)
        /\ end \in Int /\ end >= ival[2] /\ (tl.end # NaN => end >= tl.end)
    BY DEF IsTimeline, UsdScenesAssumption
  <1>3. NaN \notin Int
    BY DEF UsdScenesAssumption
  <1>4. tl.cur \in Int \cup {NaN}
    BY DEF IsTimeline
  <1> HIDE DEF start, end
  <1>5. /\ cur \in Int
        /\ cur # tl.cur /\ tl.cur # NaN =>
             (cur = start /\ tl.cur < start) \/ (cur = end /\ tl.cur > end)
    <2>1. CASE tl.cur = NaN
      BY <2>1, <1>3
    <2>2. CASE tl.cur # NaN /\ tl.cur < start
      BY <2>2, <1>2, <1>4
    <2>3. CASE tl.cur # NaN /\ ~(tl.cur < start) /\ tl.cur > end
      BY <2>3, <1>2, <1>4
    <2>4. CASE tl.cur # NaN /\ ~(tl.cur < start) /\ ~(tl.cur > end)
      BY <2>4, <1>2, <1>4
    <2> QED  BY <2>1, <2>2, <2>3, <2>4
  <1> HIDE DEF cur, new
  <1>6. /\ DOMAIN new = {"start", "end", "cur", "tcps"}
        /\ new.start = start /\ new.end = end /\ new.cur = cur
    BY <1>1 DEF IsTimeline
  <1>7. IsTimeline(new)
    BY <1>2, <1>3, <1>5, <1>6 DEF IsTimeline
  <1>8. Extends(new, tl)
    BY <1>2, <1>3, <1>6 DEF Extends, IsTimeline
  <1>9. Kept(new, tl)
    BY <1>2, <1>3, <1>4, <1>5, <1>6 DEF Kept
  <1> QED  BY <1>2, <1>3, <1>6, <1>7, <1>8, <1>9 DEF new

\* What is covered stays covered.
LEMMA StaysCovered ==
  ASSUME UsdScenesAssumption, NEW tl, IsTimeline(tl), NEW new, IsTimeline(new), Extends(new, tl),
         NEW p \in Primitive, Covers(tl, p)
  PROVE  Covers(new, p)
  <1>1. ASSUME NEW i \in Lists(p)
        PROVE  /\ new.start # NaN /\ new.start <= Head(i)
               /\ new.end # NaN /\ new.end >= Last(i)
    <2>1. Head(i) \in Nat /\ Last(i) \in Nat
      BY ListsFinite
    <2>2. tl.start \in Int /\ tl.end \in Int /\ tl.start <= Head(i) /\ tl.end >= Last(i)
      BY DEF Covers, IsTimeline
    <2>3. /\ new.start # NaN /\ new.start <= tl.start /\ new.end >= tl.end
          /\ new.start \in Int /\ new.end \in Int
      BY DEF Covers, Extends, IsTimeline
    <2>4. new.end # NaN
      BY <2>3 DEF IsTimeline
    <2> QED  BY <2>1, <2>2, <2>3, <2>4
  <1> QED  BY <1>1 DEF Covers

\* A registered primitive is covered, and the timeline only widens.
LEMMA TimeRegister ==
  ASSUME UsdScenesAssumption, TimeInv, NEW l \in Labels, NEW p \in Primitive, Register(l, p)
  PROVE  TimeInv' /\ Extends(timeline', timeline) /\ Kept(timeline', timeline)
  <1>1. CASE l \in DOMAIN prims
    <2>1. prims' = prims /\ timeline' = timeline
      BY <1>1 DEF Register, ctxVars
    <2>2. TimeInv'
      BY <2>1 DEF TimeInv
    <2>3. Extends(timeline, timeline) /\ Kept(timeline, timeline)
      BY DEF TimeInv, IsTimeline, Extends, Kept
    <2> QED  BY <2>1, <2>2, <2>3
  <1>2. CASE l \notin DOMAIN prims
    <2> DEFINE ival == queryStartEndTimeCodes(p)
               tl == IF ival = None THEN timeline ELSE Covering(timeline, ival)
    <2>1. /\ prims' = With(prims, l, p)
          /\ timeline' = IF p.tcps # None /\ tl.tcps = NaN THEN [tl EXCEPT !.tcps = p.tcps] ELSE tl
      BY <1>2 DEF Register
    <2>2. IsTimeline(tl) /\ Extends(tl, timeline) /\ Kept(tl, timeline) /\ Covers(tl, p)
      <3>1. CASE ival = None
        <4>1. Lists(p) = {}
          BY <3>1, QueryFinds
        <4>2. Extends(timeline, timeline) /\ Kept(timeline, timeline)
          BY DEF TimeInv, IsTimeline, Extends, Kept
        <4> QED  BY <3>1, <4>1, <4>2 DEF TimeInv, Covers
      <3>2. CASE ival # None
        <4>1. /\ ival[1] \in Nat /\ ival[2] \in Nat
              /\ \A i \in Lists(p) : ival[1] <= Head(i) /\ Last(i) <= ival[2]
          BY <3>2, QueryFinds
        <4> HIDE DEF ival
        <4>2. /\ IsTimeline(tl) /\ Extends(tl, timeline) /\ Kept(tl, timeline)
              /\ tl.start # NaN /\ tl.start <= ival[1] /\ tl.end # NaN /\ tl.end >= ival[2]
          BY <3>2, <4>1, CoveringExtends DEF TimeInv
        <4> HIDE DEF tl
        <4>3. tl.start \in Int /\ tl.end \in Int
          BY <4>2 DEF IsTimeline
        <4>4. \A i \in Lists(p) : Head(i) \in Nat /\ Last(i) \in Nat
          BY ListsFinite
        <4>5. Covers(tl, p)
          BY <4>1, <4>2, <4>3, <4>4 DEF Covers
        <4> QED  BY <4>2, <4>5
      <3> QED  BY <3>1, <3>2
    <2> HIDE DEF tl
    <2>3. /\ DOMAIN timeline' = DOMAIN tl /\ timeline'.start = tl.start
          /\ timeline'.end = tl.end /\ timeline'.cur = tl.cur
      BY <2>1, <2>2 DEF IsTimeline
    <2>4. IsTimeline(timeline')
      BY <2>2, <2>3 DEF IsTimeline
    <2>5. Extends(timeline', timeline) /\ Kept(timeline', timeline) /\ Covers(timeline', p)
      BY <2>2, <2>3 DEF Extends, Kept, Covers
    <2>6. /\ DOMAIN prims' = DOMAIN prims \cup {l} /\ prims'[l] = p
          /\ \A m \in DOMAIN prims : prims'[m] = prims[m]
      BY <1>2, <2>1 DEF With
    <2>7. \A m \in DOMAIN prims : Covers(timeline', prims[m])
      BY <2>4, <2>5, StaysCovered DEF TimeInv
    <2> QED  BY <2>4, <2>5, <2>6, <2>7 DEF TimeInv
  <1> QED  BY <1>1, <1>2

\* The context changes when a primitive is registered or the sequencer moves, ...
LEMMA ContextChange ==
  ASSUME UsdScenesAssumption, ScenesInv', [Next]_vars
  PROVE  \/ UNCHANGED ctxVars
         \/ \E l \in Labels, p \in Primitive : Register(l, p)
         \/ \E t \in Times : SetCurrentTimeCode(t)
  <1> DEFINE G == \/ UNCHANGED ctxVars
                  \/ \E l \in Labels, p \in Primitive : Register(l, p)
                  \/ \E t \in Times : SetCurrentTimeCode(t)
  <1>1. CASE Python \/ ClearScenes \/ UNCHANGED vars
    BY <1>1 DEF Python, ClearScenes, CreateScene, RemoveScene, OpenScene, ExportScene,
                CreatePrim, RemovePrim, SetTransform, vars
  <1>2. CASE Editor
    <2>1. ASSUME NEW l \in Labels, RegisterMesh(l) PROVE G
      <3> DEFINE p == [own |-> <<>>, childs |-> <<>>, tcps |-> None]
      <3>1. p \in Primitive
        BY DEF Primitive
      <3>2. Register(l, p)
        BY <2>1 DEF RegisterMesh
      <3> HIDE DEF p
      <3> QED  BY <3>1, <3>2
    <2>2. ASSUME NEW l \in Labels, NEW f \in Files, load_usd(f, l) PROVE G
      <3>1. CASE disk[f] = None
        BY <2>2, <3>1 DEF load_usd
      <3>2. CASE disk[f] # None
        <4> DEFINE p == [own |-> layer'[f].own, childs |-> layer'[f].childs,
                         tcps |-> layer'[f].tcps]
        <4>1. Opened(l, f, With(stage, l, None)) /\ Register(l, p)
          BY <2>2, <3>2 DEF load_usd
        <4>2. l \in DOMAIN stage' /\ stage'[l] = f
          BY <4>1 DEF Opened, With
        <4>3. layer'[f] \in Layer
          BY <4>2, NoneIsNone DEF ScenesInv, Good, Stages
        <4>4. p \in Primitive
          BY <4>3 DEF Layer, Primitive
        <4> HIDE DEF p
        <4> QED  BY <4>1, <4>4
      <3> QED  BY <3>1, <3>2
    <2>3. ASSUME NEW l \in Labels, NEW f, NEW w, SaveTo(l, f, w) PROVE G
      BY <2>3 DEF SaveTo
    <2> QED  BY <1>2, <2>1, <2>2, <2>3 DEF Editor, close_usd, save_usd, save_usd_as
  <1> QED  BY <1>1, <1>2 DEF Next

\* ... and the timeline covers it before and after.
LEMMA TimeStep ==
  ASSUME UsdScenesAssumption, TimeInv, ScenesInv', [Next]_vars
  PROVE  /\ TimeInv' /\ Extends(timeline', timeline)
         /\ prims' # prims => Kept(timeline', timeline)
  <1>1. CASE UNCHANGED ctxVars
    <2>1. prims' = prims /\ timeline' = timeline
      BY <1>1 DEF ctxVars
    <2>2. Extends(timeline, timeline)
      BY DEF TimeInv, IsTimeline, Extends
    <2> QED  BY <2>1, <2>2 DEF TimeInv
  <1>2. ASSUME NEW t \in Times, SetCurrentTimeCode(t)
        PROVE  /\ TimeInv' /\ Extends(timeline', timeline)
               /\ prims' # prims => Kept(timeline', timeline)
    <2>1. timeline' = [timeline EXCEPT !.cur = t] /\ prims' = prims
      BY <1>2 DEF SetCurrentTimeCode
    <2>2. /\ DOMAIN timeline' = DOMAIN timeline /\ timeline'.start = timeline.start
          /\ timeline'.end = timeline.end /\ timeline'.cur = t
      BY <2>1 DEF TimeInv, IsTimeline
    <2>3. IsTimeline(timeline') /\ Extends(timeline', timeline)
      BY <2>2 DEF TimeInv, IsTimeline, Extends, UsdScenesAssumption
    <2>4. \A l \in DOMAIN prims : Covers(timeline', prims[l])
      BY <2>2 DEF TimeInv, Covers
    <2> QED  BY <2>1, <2>3, <2>4 DEF TimeInv
  <1> QED  BY <1>1, <1>2, ContextChange, TimeRegister

-----------------------------------------------------------------------------
(* The theorems.                                                           *)

IInv == TablesInv /\ ScenesInv /\ ContextInv /\ TimeInv

LEMMA Inductive == Spec => []IInv
  <1>1. Init => IInv
    <2>1. Init => TimeInv
      BY DEF Init, TimeInv, IsTimeline
    <2> QED  BY <2>1, UsdScenesAssumption, ScenesInit, ContextInit DEF Init, IInv, TablesInv
  <1>2. IInv /\ [Next]_vars => IInv'
    BY UsdScenesAssumption, TablesStep, ScenesStep, ContextStep, TimeStep DEF IInv
  <1> QED  BY <1>1, <1>2, PTL DEF Spec

\* The layers in memory are those that a stage has, entries and primitives are labelled.
THEOREM ScenesTypes == Spec => []TypeOK
  <1>1. IInv => TypeOK
    <2> SUFFICES ASSUME IInv PROVE TypeOK
      OBVIOUS
    <2>1. Range(entries) \subseteq Files
      BY DEF IInv, TablesInv, Range
    <2>2. \A k \in Files \cup Labels : /\ layer[k] # None <=> \E l \in Scenes : stage[l] = k
                                       /\ layer[k] # None => layer[k] \in Layer
      BY NoneIsNone, UsdScenesAssumption DEF IInv, ScenesInv, Good, Stages, Scenes
    <2>3. \A f \in Files : disk[f] # None => disk[f] \in Layer
      BY DEF IInv, ScenesInv, Good, Stages
    <2> QED  BY <2>1, <2>2, <2>3 DEF IInv, TablesInv, ScenesInv, Good, Stages, Scenes, TypeOK
  <1> QED  BY <1>1, Inductive, PTL

\* Whatever scripts and the editor did, no file that one scene at a time had holds a transform
\* operation that a later edit would overwrite.
THEOREM SavedEditsStay == Spec => []EditsAreSealed
  <1>1. IInv => EditsAreSealed
    BY DEF IInv, ScenesInv, Good, Safe, EditsAreSealed
  <1> QED  BY <1>1, Inductive, PTL

\* A registration, also one that is thrown out half way, leaves the context as it describes itself.
THEOREM ContextStaysWhole == Spec => []ContextAgrees
  <1>1. IInv => ContextAgrees
    BY DEF IInv, ContextInv
  <1> QED  BY <1>1, Inductive, PTL

\* The timeline covers every primitive of the context and its children, whatever was loaded,
\* closed and loaded again.
THEOREM TimelineCoversAll == Spec => []TimelineCovers
  <1>1. IInv => TimelineCovers
    BY DEF IInv, TimeInv, Covers, Lists, TimelineCovers
  <1> QED  BY <1>1, Inductive, PTL

\* Nothing shortens the timeline, and a primitive that joins moves the current time code no
\* further than to an end of it.
THEOREM TimelineNeverShrinks == Spec => TimelineOnlyGrows
  <1>1. IInv /\ IInv' /\ [Next]_vars =>
          [/\ timeline.start # NaN =>
                timeline'.start <= timeline.start /\ timeline'.end >= timeline.end
           /\ (prims' # prims /\ timeline'.cur # timeline.cur /\ timeline.cur # NaN) =>
                /\ timeline'.cur \in {timeline'.start, timeline'.end}
                /\ ~(timeline'.start <= timeline.cur /\ timeline.cur <= timeline'.end)]_vars
    BY UsdScenesAssumption, TimeStep DEF IInv, Extends, Kept
  <1> QED  BY <1>1, Inductive, PTL DEF Spec, TimelineOnlyGrows

=============================================================================
