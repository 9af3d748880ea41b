----------------------------- MODULE MeshProofs -----------------------------
(***************************************************************************)
(* Proofs about the way of a mesh, however the parallel loops that split   *)
(* its points interleave and whatever was shown before: the variants of a  *)
(* point differ, no corner is lost, a mesh refers to what it has, what is  *)
(* painted reaches the vertices, and what is shown is the mesh that the    *)
(* source is at the shown time code.                                       *)
(***************************************************************************)
EXTENDS FrameProofs

-----------------------------------------------------------------------------
(* The inductive invariant.                                                *)

\* The properties of vertices that a mesh of the target can have.
Own(p, tg) == DOMAIN p.at["verts"] \cap ToSet(AttribsOf(tg))

\* What the points are split by.
Heads(p, tg) == IF Own(p, tg) = {} THEN {"vertex"} ELSE Own(p, tg)

\* Only a call that is under way has loops to run, for its own properties.
LoopInv ==
  /\ target \in {"zsmesh", "visual"}
  /\ phase = "new" => known = <<>>
  /\ phase = "split" => todo \in Seq(Heads(prim, target) \X Kinds)

\* The lists of variants, and beside them what a property of the current loop is at each.
PropsInv ==
  /\ \A i \in DOMAIN known : IsSeq(known[i])
  /\ phase = "split" => DOMAIN known = 1 .. Len(prim.pos)
  /\ phase = "split" /\ todo # <<>> /\ todo[1][1] # "vertex" =>
       /\ DOMAIN props = DOMAIN known
       /\ \A i \in DOMAIN known :
            /\ IsSeq(props[i]) /\ Len(props[i]) = Len(known[i])
            /\ \A j \in 1 .. Len(known[i]) :
                 props[i][j] = prim.at["verts"][todo[1][1]][known[i][j]]

\* The invariant that the loops keep.
IInv == LoopInv /\ PropsInv /\ VariantsDiffer

-----------------------------------------------------------------------------
(* The loops of a call.                                                    *)

\* The properties of a mesh, none of which is called "vertex".
LEMMA AttribsAre ==
  ASSUME NEW tg \in {"zsmesh", "visual"}
  PROVE  /\ Len(AttribsOf(tg)) \in Nat /\ DOMAIN AttribsOf(tg) = 1 .. Len(AttribsOf(tg))
         /\ "vertex" \notin ToSet(AttribsOf(tg))
  <1>1. AttribsOf(tg) = <<"uv", "nrm", "clr", "tan", "texid">>
        \/ AttribsOf(tg) = <<"uv", "nrm", "clr", "tan">>
    BY DEF AttribsOf, ZsAttribs, VisualAttribs
  <1>2. CASE AttribsOf(tg) = <<"uv", "nrm", "clr", "tan", "texid">>
    <2> DEFINE s == <<"uv", "nrm", "clr", "tan", "texid">>
    <2>1. Len(s) = 5
      OBVIOUS
    <2>2. DOMAIN s = 1 .. 5
      OBVIOUS
    <2>3. /\ s[1] # "vertex" /\ s[2] # "vertex" /\ s[3] # "vertex" /\ s[4] # "vertex"
          /\ s[5] # "vertex"
      OBVIOUS
    <2>4. \A i \in 1 .. 5 : i = 1 \/ i = 2 \/ i = 3 \/ i = 4 \/ i = 5
      OBVIOUS
    <2> HIDE DEF s
    <2>5. \A i \in 1 .. 5 : s[i] # "vertex"
      BY <2>3, <2>4
    <2>6. AttribsOf(tg) = s
      BY <1>2 DEF s
    <2>7. "vertex" \notin ToSet(s)
      BY <2>2, <2>5 DEF ToSet
    <2>8. Len(s) \in Nat /\ DOMAIN s = 1 .. Len(s)
      BY <2>1, <2>2
    <2> QED  BY <2>6, <2>7, <2>8, Zenon
  <1>3. CASE AttribsOf(tg) = <<"uv", "nrm", "clr", "tan">>
    <2> DEFINE s == <<"uv", "nrm", "clr", "tan">>
    <2>1. Len(s) = 4
      OBVIOUS
    <2>2. DOMAIN s = 1 .. 4
      OBVIOUS
    <2>3. s[1] # "vertex" /\ s[2] # "vertex" /\ s[3] # "vertex" /\ s[4] # "vertex"
      OBVIOUS
    <2>4. \A i \in 1 .. 4 : i = 1 \/ i = 2 \/ i = 3 \/ i = 4
      OBVIOUS
    <2> HIDE DEF s
    <2>5. \A i \in 1 .. 4 : s[i] # "vertex"
      BY <2>3, <2>4
    <2>6. AttribsOf(tg) = s
      BY <1>3 DEF s
    <2>7. "vertex" \notin ToSet(s)
      BY <2>2, <2>5 DEF ToSet
    <2>8. Len(s) \in Nat /\ DOMAIN s = 1 .. Len(s)
      BY <2>1, <2>2
    <2> QED  BY <2>6, <2>7, <2>8, Zenon
  <1> QED  BY <1>1, <1>2, <1>3

\* The loops of a call are for the properties of the vertices, if there are any: one for each
\* kind of prims, and none for anything else.
LEMMA LoopsAre ==
  ASSUME NEW p, NEW tg \in {"zsmesh", "visual"}
  PROVE  /\ Loops(p, tg) \in Seq(Heads(p, tg) \X Kinds)
         /\ ToSet(Loops(p, tg)) = Heads(p, tg) \X Kinds
  <1> DEFINE O == Own(p, tg)
             H == Heads(p, tg)
             names == AttribsOf(tg)
             Of(a) == [k \in 1 .. 3 |-> <<a, KindSeq[k]>>]
             parts == [i \in 1 .. Len(names) |->
                         IF Has(p, "verts", names[i]) THEN Of(names[i]) ELSE <<>>]
             own == FlattenSeq(parts)
  <1>1. Loops(p, tg) = IF own = <<>> THEN Of("vertex") ELSE own
    BY DEF Loops
  <1>2. ASSUME NEW a  PROVE Of(a) \in Seq({a} \X Kinds) /\ ToSet(Of(a)) = {a} \X Kinds
    <2>1. Of(a) = << <<a, "Point_">>, <<a, "Line_">>, <<a, "Tri_">> >>
      BY DEF KindSeq
    <2>2. ToSet(Of(a)) = {<<a, "Point_">>, <<a, "Line_">>, <<a, "Tri_">>}
      <3> HIDE DEF Of
      <3> QED  BY <2>1 DEF ToSet
    <2>3. {a} \X Kinds = {<<a, "Point_">>, <<a, "Line_">>, <<a, "Tri_">>}
      BY DEF Kinds
    <2> HIDE DEF Of
    <2>4. Of(a) \in Seq({a} \X Kinds)
      BY <2>1 DEF Kinds
    <2> QED  BY <2>2, <2>3, <2>4
  <1>3. Len(names) \in Nat /\ DOMAIN names = 1 .. Len(names)
    BY AttribsAre
  <1> HIDE DEF Of, names
  <1>4. \A i \in 1 .. Len(names) : names[i] \in O <=> Has(p, "verts", names[i])
    BY <1>3 DEF Has, names, ToSet, Own
  <1>5. ASSUME NEW i \in 1 .. Len(names)
        PROVE  /\ parts[i] \in Seq(O \X Kinds)
               /\ ToSet(parts[i]) = (O \cap {names[i]}) \X Kinds
    <2>1. CASE names[i] \in O
      <3>1. parts[i] = Of(names[i])
        BY <1>4, <2>1
      <3>2. {names[i]} \X Kinds \subseteq O \X Kinds /\ O \cap {names[i]} = {names[i]}
        BY <2>1
      <3>3. parts[i] \in Seq({names[i]} \X Kinds) /\ ToSet(parts[i]) = {names[i]} \X Kinds
        BY <1>2, <3>1
      <3> DEFINE S == {names[i]} \X Kinds
                 T == O \X Kinds
      <3>4. S \subseteq T /\ parts[i] \in Seq(S)
        BY <3>2, <3>3
      <3> HIDE DEF parts, S, T
      <3>5. parts[i] \in Seq(T)
        BY <3>4
      <3> QED  BY <3>2, <3>3, <3>5 DEF T
    <2>2. CASE names[i] \notin O
      <3>1. parts[i] = <<>>
        BY <1>4, <2>2
      <3>2. O \cap {names[i]} = {} /\ (O \cap {names[i]}) \X Kinds = {}
        BY <2>2
      <3>3. DOMAIN <<>> = {} /\ <<>> \in Seq(O \X Kinds)
        OBVIOUS
      <3>4. ToSet(<<>>) = {}
        BY <3>3 DEF ToSet
      <3> QED  BY <3>1, <3>2, <3>3, <3>4
    <2> QED  BY <2>1, <2>2
  <1>6. Len(names) \in Nat /\ DOMAIN names = 1 .. Len(names) /\ O \subseteq ToSet(names)
    BY <1>3 DEF names, Own
  <1>13. H = IF O = {} THEN {"vertex"} ELSE O
    BY DEF Heads
  <1> HIDE DEF O, H
  <1>7. parts \in Seq(Seq(O \X Kinds)) /\ Len(parts) = Len(names)
    <2> DEFINE n == Len(names)
               T == Seq(O \X Kinds)
    <2>1. parts = [i \in 1 .. n |-> parts[i]] /\ n \in Nat /\ \A i \in 1 .. n : parts[i] \in T
      BY <1>5, <1>6
    <2> HIDE DEF parts, n, T
    <2>2. parts \in Seq(T) /\ Len(parts) = n
      BY <2>1
    <2> QED  BY <2>2 DEF n, T
  <1> HIDE DEF parts
  <1>8. own \in Seq(O \X Kinds) /\ ToSet(own) = UNION {ToSet(parts[i]) : i \in 1 .. Len(parts)}
    BY <1>7, FlattenKeeps
  <1>9. \A x : x \in ToSet(own) <=> x \in O \X Kinds
    <2>1. \A x : x \in ToSet(own) <=> \E i \in 1 .. Len(names) : x \in (O \cap {names[i]}) \X Kinds
      BY <1>5, <1>7, <1>8
    <2>2. \A x : x \in O \X Kinds => \E i \in 1 .. Len(names) : x \in (O \cap {names[i]}) \X Kinds
      <3> SUFFICES ASSUME NEW x \in O \X Kinds
                   PROVE  \E i \in 1 .. Len(names) : x \in (O \cap {names[i]}) \X Kinds
        OBVIOUS
      <3>1. PICK i \in 1 .. Len(names) : names[i] = x[1]
        BY <1>6 DEF ToSet
      <3>2. x \in (O \cap {names[i]}) \X Kinds
        BY <3>1
      <3> QED  BY <3>2
    <2>3. \A i : (O \cap {names[i]}) \X Kinds \subseteq O \X Kinds
      OBVIOUS
    <2> QED  BY <2>1, <2>2, <2>3
  <1> HIDE DEF own
  <1>10. ToSet(own) = O \X Kinds
    BY <1>9
  <1>11. CASE own = <<>>
    <2>1. ToSet(own) = {}
      <3>1. DOMAIN own = {}
        BY <1>11
      <3> QED  BY <3>1 DEF ToSet
    <2>2. O = {}
      <3>1. "Tri_" \in Kinds
        BY DEF Kinds
      <3>2. \A x \in O : <<x, "Tri_">> \in O \X Kinds
        BY <3>1
      <3> QED  BY <1>10, <2>1, <3>2
    <2>3. Loops(p, tg) = Of("vertex") /\ H = {"vertex"}
      BY <1>1, <1>13, <1>11, <2>2
    <2>4. /\ Loops(p, tg) \in Seq({"vertex"} \X Kinds)
          /\ ToSet(Loops(p, tg)) = {"vertex"} \X Kinds
      BY <1>2, <2>3
    <2> QED  BY <2>3, <2>4 DEF H
  <1>12. CASE own # <<>>
    <2>1. own[1] \in O \X Kinds
      BY <1>8, <1>12
    <2>2. H = O
      BY <1>13, <2>1
    <2>3. Loops(p, tg) \in Seq(H \X Kinds) /\ ToSet(Loops(p, tg)) = H \X Kinds
      BY <1>1, <1>8, <1>10, <1>12, <2>2
    <2> QED  BY <2>3 DEF H
  <1> QED  BY <1>11, <1>12

\* A list is empty before the first variant.
LEMMA EmptyList ==
  /\ IsSeq(<<>>) /\ Len(<<>>) = 0 /\ DOMAIN <<>> = {}
  /\ IsInjective(<<>>)
  <1>1. <<>> \in Seq({}) /\ Len(<<>>) = 0 /\ DOMAIN <<>> = {}
    OBVIOUS
  <1> QED  BY <1>1, SeqIsSeq DEF IsInjective

-----------------------------------------------------------------------------
(* The steps.                                                              *)

\* Nothing was built yet.
LEMMA InvInit == Init => IInv
  <1> SUFFICES ASSUME Init  PROVE IInv
    OBVIOUS
  <1>1. target = "zsmesh" /\ phase = "new" /\ known = <<>> /\ DOMAIN known = {}
    BY DEF Init
  <1> QED  BY <1>1 DEF IInv, LoopInv, PropsInv, VariantsDiffer

\* A call begins with its loops and no variants.
LEMMA InvBegin ==
  ASSUME NEW p, NEW tg \in {"zsmesh", "visual"}, BeginSplit(p, tg), phase' = "split"
  PROVE  IInv'
  <1>1. PICK q : q = prim'
    OBVIOUS
  <1> DEFINE n == Len(q.pos)
             none == [i \in 1 .. n |-> <<>>]
  <1>2. /\ target' = tg /\ todo' = Loops(q, tg) /\ known' = none
        /\ props' = Props(q, Loops(q, tg), none)
    BY <1>1 DEF BeginSplit
  <1>3. Loops(q, tg) \in Seq(Heads(q, tg) \X Kinds)
    BY LoopsAre
  <1>4. todo' \in Seq(Heads(prim', target') \X Kinds)
    BY <1>1, <1>2, <1>3
  <1>5. LoopInv'
    BY <1>2, <1>3, <1>4 DEF LoopInv
  <1>6. VariantsDiffer'
    BY <1>2, EmptyList DEF VariantsDiffer, IsInjective
  <1>7. PropsInv'
    <2>1. \A i \in DOMAIN known' : known'[i] = <<>>
      BY <1>2
    <2>2. ASSUME todo' # <<>>, todo'[1][1] # "vertex"
          PROVE  DOMAIN props' = DOMAIN known' /\ \A i \in DOMAIN known' : props'[i] = <<>>
      <3>1. props' = [i \in 1 .. n |->
                        [j \in 1 .. Len(none[i]) |-> q.at["verts"][todo'[1][1]][none[i][j]]]]
        BY <1>2, <2>2 DEF Props
      <3>2. ASSUME NEW i \in 1 .. n
            PROVE  [j \in 1 .. Len(none[i]) |-> q.at["verts"][todo'[1][1]][none[i][j]]] = <<>>
        <4>1. 1 .. Len(none[i]) = {}
          BY EmptyList
        <4> QED  BY <4>1
      <3> QED  BY <1>2, <3>1, <3>2
    <2> QED  BY <1>1, <1>2, <2>1, <2>2, EmptyList DEF PropsInv
  <1> QED  BY <1>5, <1>6, <1>7 DEF IInv

\* One corner is compared.
LEMMA InvCompare ==
  ASSUME IInv, phase = "split", todo # <<>>, NEW e \in DOMAIN next, Compare(e), phase' = phase
  PROVE  IInv'
  <1> DEFINE at == prim.at["verts"]
  <1>1. PICK a : a = todo[1][1]
    OBVIOUS
  <1>2. PICK v : v = Corners(e)[next[e]]
    OBVIOUS
  <1>3. PICK pid : pid = prim.vert[v]
    OBVIOUS
  <1>4. prim' = prim /\ target' = target /\ todo' = todo
    BY DEF Compare
  <1>6. LoopInv'
    BY <1>4 DEF IInv, LoopInv
  <1>7. a \in Heads(prim, target)
    <2>1. todo \in Seq(Heads(prim, target) \X Kinds)
      BY DEF IInv, LoopInv
    <2>2. todo[1] \in Heads(prim, target) \X Kinds
      BY <2>1
    <2> QED  BY <1>1, <2>2
  <1>8. /\ VariantsDiffer /\ phase # "painted"
        /\ \A i \in DOMAIN known : IsSeq(known[i])
    BY DEF IInv, PropsInv
  <1>9. CASE IsKnown(pid, v)
    <2>1. known' = known /\ props' = props
      BY <1>2, <1>3, <1>9 DEF Compare
    <2> QED  BY <1>4, <1>6, <2>1 DEF IInv, PropsInv, VariantsDiffer
  <1>10. CASE ~ IsKnown(pid, v)
    <2>1. /\ known' = [known EXCEPT ![pid] = Append(@, v)]
          /\ props' = IF a = "vertex" THEN props ELSE [props EXCEPT ![pid] = Append(@, at[a][v])]
      BY <1>1, <1>2, <1>3, <1>10 DEF Compare
    <2>2. DOMAIN known' = DOMAIN known /\ \A i \in DOMAIN known : i # pid => known'[i] = known[i]
      BY <2>1
    <2>3. CASE pid \notin DOMAIN known
      <3>1. DOMAIN known' = DOMAIN known /\ \A i \in DOMAIN known : known'[i] = known[i]
        BY <2>2, <2>3
      <3>2. VariantsDiffer'
        BY <1>4, <1>8, <3>1 DEF VariantsDiffer
      <3>3. a # "vertex" /\ DOMAIN props = DOMAIN known =>
              DOMAIN props' = DOMAIN props /\ \A i \in DOMAIN known : props'[i] = props[i]
        BY <2>1, <2>3
      <3>4. PropsInv'
        BY <1>1, <1>4, <3>1, <3>3 DEF IInv, PropsInv
      <3> QED  BY <1>6, <3>2, <3>4 DEF IInv
    <2>4. CASE pid \in DOMAIN known
      <3> DEFINE m == Len(known[pid])
      <3>1. /\ known'[pid] = Append(known[pid], v)
            /\ IsSeq(known'[pid]) /\ m \in Nat /\ Len(known'[pid]) = m + 1
            /\ DOMAIN known[pid] = 1 .. m /\ DOMAIN known'[pid] = 1 .. m + 1
            /\ \A j \in 1 .. m : known'[pid][j] = known[pid][j]
            /\ known'[pid][m + 1] = v
        BY <1>8, <2>1, <2>4, AppendAny
      <3>2. a # "vertex" =>
              /\ DOMAIN props = DOMAIN known
              /\ \A i \in DOMAIN known :
                   /\ IsSeq(props[i]) /\ Len(props[i]) = Len(known[i])
                   /\ \A j \in 1 .. Len(known[i]) : props[i][j] = at[a][known[i][j]]
        BY <1>1 DEF IInv, PropsInv
      <3>3. /\ IsInjective(known[pid])
            /\ \A j \in 1 .. m : prim.vert[known[pid][j]] = pid
            /\ \A b \in DOMAIN at : Own(prim, target) = {b} =>
                 IsInjective([j \in DOMAIN known[pid] |-> at[b][known[pid][j]]])
        BY <1>8, <2>4, <3>1 DEF VariantsDiffer, Own
      <3>4. a # "vertex" => \A j \in 1 .. m : at[a][known[pid][j]] # at[a][v]
        BY <1>1, <1>10, <2>4, <3>2 DEF IsKnown, HasLike
      <3>5. \A j \in 1 .. m : known[pid][j] # v
        <4>1. CASE a = "vertex"
          BY <1>1, <1>10, <4>1 DEF IsKnown, HasSame
        <4>2. CASE a # "vertex"
          BY <3>4, <4>2
        <4> QED  BY <4>1, <4>2
      <3>6. IsInjective(known'[pid])
        BY <3>1, <3>3, <3>5 DEF IsInjective
      <3>7. \A j \in DOMAIN known'[pid] : prim.vert[known'[pid][j]] = pid
        <4>1. PICK q, vert : q = known'[pid] /\ vert = prim.vert
          OBVIOUS
        <4>2. vert[v] = pid
          BY <1>3, <4>1
        <4>3. \A j \in 1 .. m : vert[q[j]] = pid
          BY <3>1, <3>3, <4>1
        <4>4. DOMAIN q = 1 .. m + 1 /\ q[m + 1] = v /\ m \in Nat
          BY <3>1, <4>1
        <4>5. \A j \in 1 .. m + 1 : j \in 1 .. m \/ j = m + 1
          BY <4>4
        <4>6. \A j \in DOMAIN q : vert[q[j]] = pid
          BY <4>2, <4>3, <4>4, <4>5
        <4> QED  BY <4>1, <4>6
      <3>8. ASSUME NEW b \in DOMAIN at, Own(prim, target) = {b}
            PROVE  IsInjective([j \in DOMAIN known'[pid] |-> at[b][known'[pid][j]]])
        <4>1. a = b /\ a # "vertex"
          <5>1. b \in ToSet(AttribsOf(target)) /\ b # "vertex"
            BY <3>8, AttribsAre DEF Own, IInv, LoopInv
          <5> QED  BY <1>7, <3>8, <5>1 DEF Heads
        <4> DEFINE f == [j \in DOMAIN known[pid] |-> at[b][known[pid][j]]]
                   g == [j \in DOMAIN known'[pid] |-> at[b][known'[pid][j]]]
        <4>2. /\ DOMAIN f = 1 .. m /\ DOMAIN g = 1 .. m + 1
              /\ \A j \in 1 .. m : g[j] = f[j] /\ g[j] # at[b][v]
              /\ g[m + 1] = at[b][v]
          <5>1. DOMAIN f = 1 .. m /\ DOMAIN g = 1 .. m + 1
            BY <3>1
          <5>2. ASSUME NEW j \in 1 .. m  PROVE g[j] = f[j] /\ g[j] # at[b][v]
            <6> HIDE DEF m, at
            <6>1. /\ j \in DOMAIN known[pid] /\ j \in DOMAIN known'[pid]
                  /\ known'[pid][j] = known[pid][j]
              BY <3>1
            <6>2. at[b][known[pid][j]] # at[b][v]
              BY <3>4, <4>1
            <6>3. f[j] = at[b][known[pid][j]] /\ g[j] = at[b][known'[pid][j]]
              BY <6>1
            <6> HIDE DEF f, g
            <6> QED  BY <6>1, <6>2, <6>3
          <5>3. g[m + 1] = at[b][v]
            BY <3>1
          <5> QED  BY <5>1, <5>2, <5>3
        <4>3. IsInjective(f)
          BY <3>3, <3>8
        <4> HIDE DEF f, g
        <4>4. IsInjective(g)
          BY <3>1, <4>2, <4>3 DEF IsInjective
        <4> QED  BY <4>4 DEF g
      <3>9. VariantsDiffer'
        <4> SUFFICES ASSUME NEW i \in DOMAIN known'
                     PROVE  /\ IsInjective(known'[i])
                            /\ \A j \in DOMAIN known'[i] : prim.vert[known'[i][j]] = i
                            /\ \A b \in DOMAIN at : Own(prim, target) = {b} =>
                                 IsInjective([j \in DOMAIN known'[i] |-> at[b][known'[i][j]]])
          BY <1>4 DEF VariantsDiffer, Own
        <4>1. CASE i = pid
          BY <3>6, <3>7, <3>8, <4>1
        <4>2. CASE i # pid
          <5>1. i \in DOMAIN known /\ known'[i] = known[i]
            BY <2>2, <4>2
          <5> QED  BY <1>8, <5>1 DEF VariantsDiffer, Own
        <4> QED  BY <4>1, <4>2
      <3>10. PropsInv'
        <4>1. \A i \in DOMAIN known' : IsSeq(known'[i])
          BY <1>8, <2>2, <3>1
        <4>2. ASSUME a # "vertex"
              PROVE  /\ DOMAIN props' = DOMAIN known'
                     /\ \A i \in DOMAIN known' :
                          /\ IsSeq(props'[i]) /\ Len(props'[i]) = Len(known'[i])
                          /\ \A j \in 1 .. Len(known'[i]) : props'[i][j] = at[a][known'[i][j]]
          <5>1. /\ DOMAIN props' = DOMAIN known'
                /\ props'[pid] = Append(props[pid], at[a][v])
                /\ \A i \in DOMAIN known : i # pid => props'[i] = props[i]
            BY <2>1, <2>2, <2>4, <3>2, <4>2
          <5>2. /\ IsSeq(props'[pid]) /\ Len(props'[pid]) = m + 1
                /\ \A j \in 1 .. m : props'[pid][j] = props[pid][j]
                /\ props'[pid][m + 1] = at[a][v]
            BY <2>4, <3>2, <4>2, <5>1, AppendAny
          <5>3. \A j \in 1 .. m + 1 : props'[pid][j] = at[a][known'[pid][j]]
            <6>1. \A j \in 1 .. m : props'[pid][j] = at[a][known'[pid][j]]
              BY <2>4, <3>1, <3>2, <4>2, <5>2
            <6>2. props'[pid][m + 1] = at[a][known'[pid][m + 1]]
              BY <3>1, <5>2
            <6> QED  BY <3>1, <6>1, <6>2
          <5>4. ASSUME NEW i \in DOMAIN known, i # pid
                PROVE  /\ IsSeq(props'[i]) /\ Len(props'[i]) = Len(known'[i])
                       /\ \A j \in 1 .. Len(known'[i]) : props'[i][j] = at[a][known'[i][j]]
            BY <2>2, <3>2, <4>2, <5>1, <5>4
          <5> QED  BY <2>2, <3>1, <5>1, <5>2, <5>3, <5>4
        <4>3. DOMAIN known' = 1 .. Len(prim'.pos)
          BY <1>4, <2>2 DEF IInv, PropsInv
        <4> QED  BY <1>1, <1>4, <4>1, <4>2, <4>3 DEF PropsInv
      <3> QED  BY <1>6, <3>9, <3>10 DEF IInv
    <2> QED  BY <2>3, <2>4
  <1> QED  BY <1>9, <1>10

\* The next loop begins: with the lists of its property, unless it goes on with the same one.
LEMMA InvNextLoop ==
  ASSUME IInv, phase = "split", todo # <<>>, NextLoop, phase' = phase
  PROVE  IInv'
  <1>1. prim' = prim /\ target' = target /\ known' = known /\ todo' = Tail(todo)
    BY DEF NextLoop
  <1> DEFINE S == Heads(prim, target) \X Kinds
  <1>2. todo \in Seq(S)
    BY DEF IInv, LoopInv
  <1> HIDE DEF S
  <1>3. todo' \in Seq(S)
    BY <1>1, <1>2
  <1>4. LoopInv'
    BY <1>1, <1>3 DEF IInv, LoopInv, S
  <1>5. VariantsDiffer'
    BY <1>1 DEF IInv, VariantsDiffer
  <1>6. PropsInv'
    <2>1. \A i \in DOMAIN known' : IsSeq(known'[i])
      BY <1>1 DEF IInv, PropsInv
    <2>2. CASE todo' = <<>>
      BY <1>1, <2>1, <2>2 DEF IInv, PropsInv
    <2>3. CASE todo' # <<>> /\ todo'[1][1] = todo[1][1]
      <3>1. props' = props
        BY <2>3 DEF NextLoop
      <3> QED  BY <1>1, <2>3, <3>1, SMTT(20) DEF IInv, PropsInv
    <2>4. CASE todo' # <<>> /\ todo'[1][1] # todo[1][1]
      <3>1. props' = Props(prim, todo', known)
        BY <2>4 DEF NextLoop
      <3>2. SUFFICES ASSUME todo'[1][1] # "vertex"
                     PROVE  /\ DOMAIN props' = DOMAIN known
                            /\ \A i \in DOMAIN known :
                                 /\ IsSeq(props'[i]) /\ Len(props'[i]) = Len(known[i])
                                 /\ \A j \in 1 .. Len(known[i]) :
                                      props'[i][j] = prim.at["verts"][todo'[1][1]][known[i][j]]
        BY <1>1, <2>1 DEF IInv, PropsInv
      <3>3. PICK a : a = todo'[1][1]
        OBVIOUS
      <3>4. props' = [i \in 1 .. Len(prim.pos) |->
                        [j \in 1 .. Len(known[i]) |-> prim.at["verts"][a][known[i][j]]]]
        BY <2>4, <3>1, <3>2, <3>3 DEF Props
      <3>5. DOMAIN known = 1 .. Len(prim.pos)
        BY DEF IInv, PropsInv
      <3>6. ASSUME NEW i \in DOMAIN known
            PROVE  /\ IsSeq(props'[i]) /\ Len(props'[i]) = Len(known[i])
                   /\ \A j \in 1 .. Len(known[i]) :
                        props'[i][j] = prim.at["verts"][a][known[i][j]]
        <4> DEFINE n == Len(known[i])
                   s == [j \in 1 .. n |-> prim.at["verts"][a][known[i][j]]]
                   T == {s[j] : j \in 1 .. n}
        <4>1. n \in Nat
          BY SeqIsSeq DEF IInv, PropsInv, IsSeq
        <4>2. s \in [1 .. n -> T] /\ Len(s) = n
          BY <4>1
        <4>3. s \in Seq(T)
          BY <4>1, <4>2
        <4>4. IsSeq(s)
          BY <4>3, SeqIsSeq
        <4>5. props'[i] = s
          BY <3>4, <3>5
        <4> QED  BY <4>2, <4>4, <4>5
      <3> QED  BY <3>3, <3>4, <3>5, <3>6
    <2> QED  BY <2>2, <2>3, <2>4
  <1> QED  BY <1>4, <1>5, <1>6 DEF IInv

\* Outside of the loops, the variants change with their primitive, or it was painted.
LEMMA InvNext == IInv /\ [Next]_vars => IInv'
  <1> SUFFICES ASSUME IInv, [Next]_vars  PROVE IInv'
    OBVIOUS
  <1>1. CASE Build
    <2>1. phase = "new" /\ phase' = "idle" /\ target' = target /\ known' = known
      BY <1>1 DEF Build
    <2>2. known = <<>> /\ DOMAIN known = {}
      BY <2>1 DEF IInv, LoopInv
    <2> QED  BY <2>1, <2>2 DEF IInv, LoopInv, PropsInv, VariantsDiffer
  <1>2. ASSUME NEW t \in Times, NEW tg \in {"zsmesh", "visual"}, ShowAt(t, tg)
        PROVE  IInv'
    <2>1. PICK p : BeginSplit(p, tg)
      BY <1>2 DEF ShowAt
    <2>2. phase' = "split"
      BY <1>2 DEF ShowAt
    <2> QED  BY <2>1, <2>2, InvBegin
  <1>3. CASE ShowAsIs
    <2>1. PICK p : BeginSplit(p, "visual")
      BY <1>3 DEF ShowAsIs
    <2>2. phase' = "split"
      BY <1>3 DEF ShowAsIs
    <2> QED  BY <2>1, <2>2, InvBegin
  <1>4. CASE Split
    <2>1. phase = "split" /\ phase' = phase /\ todo # <<>>
      BY <1>4 DEF Split, SplitNext
    <2>2. ASSUME NEW e \in DOMAIN next, VisitZs(e) \/ VisitVisual(e)  PROVE IInv'
      <3>1. Compare(e)
        BY <2>2 DEF VisitZs, VisitVisual
      <3> QED  BY <2>1, <3>1, InvCompare
    <2>3. CASE NextLoop
      BY <2>1, <2>3, InvNextLoop
    <2> QED  BY <1>4, <2>2, <2>3 DEF Split, SplitNext
  <1>5. CASE EndSplit
    <2>1. /\ phase = "split" /\ phase' = "idle"
          /\ prim' = prim /\ target' = target /\ known' = known
      BY <1>5 DEF EndSplit, splitVars
    <2>2. LoopInv'
      BY <2>1 DEF IInv, LoopInv
    <2>3. PropsInv'
      BY <2>1 DEF IInv, PropsInv
    <2>4. VariantsDiffer'
      BY <2>1 DEF IInv, VariantsDiffer
    <2> QED  BY <2>2, <2>3, <2>4 DEF IInv
  <1>6. ASSUME NEW n \in {1, 2}, PaintNode(n)  PROVE IInv'
    <2>1. phase' = "painted" /\ target' = target /\ known' = known
      BY <1>6 DEF PaintNode
    <2> QED  BY <2>1 DEF IInv, LoopInv, PropsInv, VariantsDiffer
  <1>7. CASE CloseScene
    <2>1. /\ phase = "idle" /\ phase' = phase
          /\ prim' = prim /\ target' = target /\ known' = known
      BY <1>7 DEF CloseScene, splitVars
    <2> QED  BY <2>1 DEF IInv, LoopInv, PropsInv, VariantsDiffer
  <1>8. CASE UNCHANGED vars
    <2>1. /\ phase' = phase /\ prim' = prim /\ target' = target /\ known' = known
          /\ todo' = todo /\ props' = props
      BY <1>8 DEF vars, splitVars
    <2> QED  BY <2>1 DEF IInv, LoopInv, PropsInv, VariantsDiffer
  <1> QED  BY <1>1, <1>2, <1>3, <1>4, <1>5, <1>6, <1>7, <1>8 DEF Next

-----------------------------------------------------------------------------
(* The primitive that is split.                                            *)

\* Whatever was shown before, the primitive is what its source is at the time code it was
\* brought to, and its simple mesh, once there is one, is that of the same time code.
MeshInv ==
  /\ src \in Sources /\ shows \in 0 .. MaxShows
  /\ phase \in {"new", "idle", "split", "painted"}
  /\ open \in BOOLEAN /\ painted \in BOOLEAN
  /\ phase = "new" => prim = Blank /\ frames = NoFrames /\ shown = NaN /\ shows = 0
  /\ phase # "new" =>
       /\ frames = FramesOf(src) /\ shown \in MeshTimes(src)
       /\ Brought(prim, src, shown, open)
       /\ \/ prim.simple = SimpleAt(src, shown)
          \/ shows = 0 /\ src.form # "tris" /\ prim.simple = Blank.simple
  /\ phase \in {"split", "painted"} => shows > 0

\* The simple mesh of a primitive that was brought to a time code.
LEMMA SetupBrings ==
  ASSUME NEW s \in Sources, NEW t \in MeshTimes(s), NEW o, NEW p, Brought(p, s, t, o),
         NEW q, q = Setup(p), s.form = "tris" => p.simple = SimpleAt(s, t)
  PROVE  Brought(q, s, t, o) /\ q.simple = SimpleAt(s, t)
  <1>1. Filled(p) /\ p.poly = PolyAt(s, t)
    BY DEF Brought, Shaped
  <1>2. Reformed(p, q) /\ q.simple = IF p.poly = <<>> THEN p.simple ELSE SimpleOf(p.poly)
    BY <1>1, SetupIs
  <1>3. PolyAt(s, t) = <<>> <=> s.form = "tris"
    BY SourceIs
  <1>4. Brought(q, s, t, o)
    BY <1>2, BroughtStays
  <1>5. q.simple = SimpleAt(s, t)
    BY <1>1, <1>2, <1>3 DEF SimpleAt
  <1> QED  BY <1>4, <1>5

\* Nothing was shown at first.
LEMMA MeshInit == Init => MeshInv
  <1> SUFFICES ASSUME Init  PROVE MeshInv
    OBVIOUS
  <1>1. /\ src \in Sources /\ shows = 0 /\ phase = "new" /\ open = TRUE /\ painted = FALSE
        /\ prim = Blank /\ frames = NoFrames /\ shown = NaN
    BY DEF Init
  <1>2. MaxShows \in Nat
    BY TimesAreNumbers DEF TimesAreNumbers
  <1>3. shows \in 0 .. MaxShows
    BY <1>1, <1>2
  <1>5. open \in BOOLEAN /\ painted \in BOOLEAN
    BY <1>1, Zenon
  <1>4. phase \notin {"split", "painted"} /\ ~ (phase # "new")
    BY <1>1
  <1> QED  BY <1>1, <1>3, <1>4, <1>5 DEF MeshInv

\* A primitive is built at the first time code of its source.
LEMMA MeshBuild ==
  ASSUME MeshInv, Build
  PROVE  MeshInv'
  <1>1. /\ phase = "new" /\ phase' = "idle" /\ src' = src /\ open' = open /\ painted' = painted
        /\ shows' = shows
    BY DEF Build
  <1>2. /\ src \in Sources /\ shows = 0 /\ open \in BOOLEAN /\ painted \in BOOLEAN
        /\ shows \in 0 .. MaxShows /\ shown = NaN /\ frames = NoFrames
    BY <1>1 DEF MeshInv
  <1>3. /\ frames' = FramesOf(src) /\ shown' \in MeshTimes(src)
        /\ Brought(prim', src, shown', open)
        /\ \/ prim'.simple = SimpleAt(src, shown')
           \/ src.form # "tris" /\ prim'.simple = Blank.simple
    <2>1. src.form \in {"usd", "trimesh", "tris"} /\ StartOf(src) \in MeshTimes(src)
      BY <1>2, SourcesAreMeshes DEF SourcesAreMeshes, MeshTimes
    <2>2. PICK q : q = prim'
      OBVIOUS
    <2>3. CASE src.form = "usd"
      <3>1. PICK t : t = shown'
        OBVIOUS
      <3>2. PICK kf : kf = frames'
        OBVIOUS
      <3>3. kf = FramesOf(src) /\ t = StartOf(src)
        BY <2>3, <3>1, <3>2 DEF Build, FramesOf, StartOf
      <3>4. q = Hung(Update(Blank, kf, t), t)
        BY <2>2, <2>3, <3>1, <3>2 DEF Build
      <3>5. PICK r : r = Update(Blank, FramesOf(src), t)
        OBVIOUS
      <3>6. q = IF open /\ HasSkel(src) THEN Skinned(r, src, t) ELSE r
        BY <3>3, <3>4, <3>5 DEF Hung
      <3>7. t \in MeshTimes(src)
        BY <2>1, <3>3
      <3>8. Brought(q, src, t, open) /\ q.simple = Blank.simple
        BY <1>2, <2>3, <3>5, <3>6, <3>7, BlankIs, BringIs
      <3> QED  BY <2>2, <2>3, <3>1, <3>2, <3>3, <3>7, <3>8
    <2>4. CASE src.form = "trimesh"
      <3> DEFINE b == [Blank EXCEPT !.global = [e \in DOMAIN src.elems |-> <<"Tri_", e>>]]
      <3>1. frames' = FramesOf(src) /\ shown' = NaN /\ shown' = StartOf(src)
        BY <2>4 DEF Build, FramesOf, StartOf
      <3>2. q = Update(b, frames', NaN)
        BY <2>2, <2>4 DEF Build
      <3>3. /\ DOMAIN b = DOMAIN Blank /\ b.pos = Blank.pos /\ b.vert = Blank.vert
            /\ b.poly = Blank.poly /\ b.at = Blank.at /\ b.simple = Blank.simple
        BY DEF Blank
      <3> HIDE DEF b
      <3>4. Filled(b) /\ ~ Has(b, "points", "skin")
        BY <3>3, BlankIs DEF Filled, Has
      <3>5. ~ HasSkel(src)
        BY <2>4 DEF HasSkel
      <3>6. q = Update(b, FramesOf(src), NaN)
        BY <3>1, <3>2
      <3>7. NaN \in MeshTimes(src)
        BY <2>1, <3>1
      <3>8. Brought(q, src, NaN, open) /\ q.simple = b.simple
        BY <1>2, <2>4, <3>4, <3>5, <3>6, <3>7, BringIs
      <3> QED  BY <2>2, <2>4, <3>1, <3>3, <3>7, <3>8
    <2>5. CASE src.form = "tris"
      <3>1. frames' = frames /\ shown' = shown /\ q = AssignTriMesh(src)
        BY <2>2, <2>5 DEF Build
      <3>2. frames' = FramesOf(src) /\ shown' = NaN /\ NaN = StartOf(src) /\ ~ HasSkel(src)
        BY <1>2, <2>5, <3>1 DEF FramesOf, StartOf, HasSkel
      <3>3. Filled(q) /\ ~ Has(q, "points", "skin")
        BY <1>2, <2>5, <3>1, TriMeshIs
      <3>4. q.pos = src.nodes /\ q.vert = [i \in 1 .. Len(src.nodes) |-> i] /\ q.poly = <<>>
        BY <1>2, <2>5, <3>1, TriMeshIs
      <3>5. q.simple = [k \in Kinds |-> IF k # "Tri_" THEN <<>>
                          ELSE [e \in 1 .. Len(src.elems) |-> [v |-> src.elems[e], of |-> 0]]]
        BY <1>2, <2>5, <3>1, TriMeshIs
      <3>6. Brought(q, src, NaN, open)
        BY <2>5, <3>2, <3>3, <3>4 DEF Brought, Shaped, Hangs, PosAt, VertAt, PolyAt
      <3>7. q.simple = SimpleAt(src, NaN)
        BY <2>5, <3>5 DEF SimpleAt
      <3> QED  BY <2>1, <2>2, <3>2, <3>6, <3>7
    <2> QED  BY <2>1, <2>3, <2>4, <2>5
  <1> QED  BY <1>1, <1>2, <1>3 DEF MeshInv

\* What a call splits is the mesh of a time code.
LEMMA MeshShow ==
  ASSUME MeshInv, NEW t \in MeshTimes(src), NEW p, Brought(p, src, t, open),
         p.simple = SimpleAt(src, t), NEW tg, BeginSplit(p, tg),
         shown' = t, phase' = "split", shows' = shows + 1, shows < MaxShows,
         phase # "new", UNCHANGED <<src, frames, open, painted>>
  PROVE  MeshInv'
  <1>1. PICK q : q = prim'
    OBVIOUS
  <1>2. PICK tags : q = ToVerts(p, tags)
    BY <1>1 DEF BeginSplit
  <1>3. Filled(p)
    BY DEF Brought
  <1>4. Reformed(p, q) /\ q.simple = p.simple
    BY <1>2, <1>3, ToVertsIs
  <1>5. Brought(q, src, t, open)
    BY <1>4, BroughtStays
  <1>6. MaxShows \in Nat /\ shows \in 0 .. MaxShows
    BY TimesAreNumbers DEF TimesAreNumbers, MeshInv
  <1>7. shows' \in 0 .. MaxShows /\ shows' > 0
    BY <1>6
  <1>8. src \in Sources /\ open \in BOOLEAN /\ painted \in BOOLEAN /\ frames = FramesOf(src)
    BY DEF MeshInv
  <1> QED  BY <1>1, <1>4, <1>5, <1>7, <1>8 DEF MeshInv

\* Taken to a time code, a primitive is made anew.
LEMMA MeshShowAt ==
  ASSUME MeshInv, NEW t \in Times, NEW tg, ShowAt(t, tg)
  PROVE  MeshInv'
  <1>1. /\ phase \in {"idle", "painted"} /\ phase # "new" /\ frames # NoFrames /\ shows < MaxShows
        /\ shown' = t /\ phase' = "split" /\ shows' = shows + 1
        /\ UNCHANGED <<src, frames, open, painted>>
    BY DEF ShowAt
  <1>2. /\ src \in Sources /\ frames = FramesOf(src) /\ Brought(prim, src, shown, open)
        /\ open \in BOOLEAN
    BY <1>1 DEF MeshInv
  <1>3. src.form \in {"usd", "trimesh"} /\ t \in MeshTimes(src)
    BY <1>1, <1>2, SourcesAreMeshes DEF SourcesAreMeshes, FramesOf, MeshTimes
  <1>4. PICK r : r = Update(prim, FramesOf(src), t)
    OBVIOUS
  <1>5. PICK h : h = Hung(Update(prim, frames, t), t)
    OBVIOUS
  <1>6. h = IF open /\ HasSkel(src) THEN Skinned(r, src, t) ELSE r
    BY <1>2, <1>4, <1>5 DEF Hung
  <1>7. Filled(prim) /\ (~ HasSkel(src) => ~ Has(prim, "points", "skin"))
    BY <1>2 DEF Brought, Hangs
  <1>8. Brought(h, src, t, open)
    BY <1>2, <1>3, <1>4, <1>6, <1>7, BringIs
  <1>9. PICK p : p = Setup(h)
    OBVIOUS
  <1>10. src.form # "tris"
    BY <1>3
  <1>11. Brought(p, src, t, open) /\ p.simple = SimpleAt(src, t)
    BY <1>2, <1>3, <1>8, <1>9, <1>10, SetupBrings
  <1>12. BeginSplit(p, tg)
    BY <1>5, <1>9 DEF ShowAt
  <1> QED  BY <1>1, <1>3, <1>11, <1>12, MeshShow

\* Taken as it is, a primitive has its simple mesh already or is given it.
LEMMA MeshShowAsIs ==
  ASSUME MeshInv, ShowAsIs
  PROVE  MeshInv'
  <1>1. /\ phase # "new" /\ shows < MaxShows
        /\ shown' = shown /\ phase' = "split" /\ shows' = shows + 1
        /\ UNCHANGED <<src, frames, open, painted>>
    BY DEF ShowAsIs
  <1>2. /\ src \in Sources /\ shown \in MeshTimes(src) /\ Brought(prim, src, shown, open)
        /\ \/ prim.simple = SimpleAt(src, shown)
           \/ src.form # "tris" /\ prim.simple = Blank.simple
    BY <1>1 DEF MeshInv
  <1>3. PICK p : p = IF IsEstablished(prim) THEN CopyAttribs(prim) ELSE Setup(prim)
    OBVIOUS
  <1>4. BeginSplit(p, "visual")
    BY <1>3 DEF ShowAsIs
  <1>5. Brought(p, src, shown, open) /\ p.simple = SimpleAt(src, shown)
    <2>1. CASE IsEstablished(prim)
      <3>1. p = CopyAttribs(prim) /\ Filled(prim)
        BY <1>2, <1>3, <2>1 DEF Brought
      <3>2. Reformed(prim, p) /\ p.simple = prim.simple
        BY <3>1, CopyAttribsIs
      <3>3. prim.simple # Blank.simple
        <4>1. \A k \in Kinds : Blank.simple[k] = <<>>
          BY DEF Blank
        <4> QED  BY <2>1, <4>1 DEF IsEstablished
      <3>4. Brought(p, src, shown, open)
        BY <1>2, <3>2, BroughtStays
      <3> QED  BY <1>2, <3>2, <3>3, <3>4
    <2>2. CASE ~ IsEstablished(prim)
      <3>1. p = Setup(prim)
        BY <1>3, <2>2
      <3>2. src.form = "tris" => prim.simple = SimpleAt(src, shown)
        BY <1>2
      <3> QED  BY <1>2, <3>1, <3>2, SetupBrings
    <2> QED  BY <2>1, <2>2
  <1> QED  BY <1>1, <1>2, <1>4, <1>5, MeshShow

\* Nodes that are painted leave the shape of the primitive as it is.
LEMMA MeshPaint ==
  ASSUME MeshInv, NEW n, PaintNode(n), shows > 0
  PROVE  MeshInv'
  <1>1. /\ phase = "idle" /\ phase' = "painted" /\ painted' = TRUE
        /\ UNCHANGED <<src, frames, shown, open, shows>>
    BY DEF PaintNode
  <1>2. PICK q : q = prim'
    OBVIOUS
  <1>3. q = Paint(prim, zs, {n}, Color).prim
    BY <1>2 DEF PaintNode
  <1>4. Brought(prim, src, shown, open) /\ Filled(prim)
    BY <1>1 DEF MeshInv, Brought
  <1>5. Reformed(prim, q) /\ q.simple = prim.simple
    BY <1>3, <1>4, PaintIs
  <1>6. Brought(q, src, shown, open)
    BY <1>4, <1>5, BroughtStays
  <1> QED  BY <1>1, <1>2, <1>5, <1>6 DEF MeshInv

-----------------------------------------------------------------------------
(* The variants that the loops leave.                                      *)

\* A point has a variant with the property of a vertex.
Served(p, kn, a, v) ==
  \E j \in 1 .. Len(kn[p.vert[v]]) :
    a = "vertex" \/ p.at["verts"][a][kn[p.vert[v]][j]] = p.at["verts"][a][v]

\* All corners of a kind of prims are served.
Done(p, kn, a, k) ==
  \A e \in 1 .. Len(p.simple[k]) : \A d \in 1 .. Len(p.simple[k][e].v) :
    Served(p, kn, a, p.simple[k][e].v[d])

\* The lists of variants of the points.
Lists(p, kn) ==
  DOMAIN kn = 1 .. Len(p.pos) /\ \A i \in 1 .. Len(p.pos) : kn[i] \in Seq(1 .. Len(p.vert))

\* The corners that a loop visited.
Visited(p, kn, lp, nx) ==
  /\ DOMAIN nx = 1 .. Len(p.simple[lp[2]])
  /\ \A e \in DOMAIN nx :
       /\ nx[e] \in Nat \ {0}
       /\ \A d \in 1 .. Len(p.simple[lp[2]][e].v) :
            d < nx[e] => Served(p, kn, lp[1], p.simple[lp[2]][e].v[d])

\* Each loop is still to run or has served all corners of its kind.
Pending(p, tg, kn, td) ==
  \A a \in Heads(p, tg), k \in Kinds : <<a, k>> \in ToSet(td) \/ Done(p, kn, a, k)

\* A call visits all corners; once it ended, its loops are done.
SplitInv ==
  phase = "split" \/ (phase = "idle" /\ shows > 0) =>
    /\ Lists(prim, known)
    /\ phase = "idle" => todo = <<>>
    /\ todo # <<>> => Visited(prim, known, todo[1], next)
    /\ Pending(prim, target, known, todo)

\* The corners of a mesh are vertices, and those are at points.
Meshed(p) == /\ p.pos \in Seq(Int) /\ p.vert \in Seq(1 .. Len(p.pos))
             /\ p.simple \in [Kinds -> Seq(Prims(Len(p.vert)))]

\* A primitive that is split is such a mesh.
LEMMA MeshedIs ==
  ASSUME MeshInv, phase \in {"split", "painted"} \/ (phase = "idle" /\ shows > 0)
  PROVE  Meshed(prim) /\ Filled(prim) /\ phase # "new"
         /\ prim.simple = SimpleAt(src, shown) /\ Shaped(prim, src, shown)
         /\ src \in Sources /\ shown \in MeshTimes(src)
  <1>1. phase # "new" /\ ~ (shows = 0)
    <2>1. shows \in 0 .. MaxShows /\ MaxShows \in Nat
      BY TimesAreNumbers DEF MeshInv, TimesAreNumbers
    <2> QED  BY <2>1 DEF MeshInv
  <1>2. /\ src \in Sources /\ shown \in MeshTimes(src)
        /\ Brought(prim, src, shown, open) /\ prim.simple = SimpleAt(src, shown)
    BY <1>1 DEF MeshInv
  <1>3. Shaped(prim, src, shown) /\ Filled(prim)
    BY <1>2 DEF Brought
  <1>4. PICK pos, vert, simple : /\ pos = PosAt(src, shown) /\ vert = VertAt(src, shown)
                                 /\ simple = SimpleAt(src, shown)
    OBVIOUS
  <1>5. /\ pos \in Seq(Int) /\ vert \in Seq(1 .. Len(pos))
        /\ simple \in [Kinds -> Seq(Prims(Len(vert)))]
    BY <1>2, <1>4, SourceIs
  <1>6. prim.pos = pos /\ prim.vert = vert /\ prim.simple = simple
    BY <1>2, <1>3, <1>4 DEF Shaped
  <1>7. Meshed(prim)
    BY <1>5, <1>6, Zenon DEF Meshed
  <1> QED  BY <1>1, <1>2, <1>3, <1>7

\* A corner of a mesh and its point.
LEMMA CornerIs ==
  ASSUME NEW p, Meshed(p), NEW k \in Kinds, NEW e \in 1 .. Len(p.simple[k]),
         NEW d \in 1 .. Len(p.simple[k][e].v)
  PROVE  LET v == p.simple[k][e].v[d]
         IN v \in 1 .. Len(p.vert) /\ p.vert[v] \in 1 .. Len(p.pos)
  <1> DEFINE P == Prims(Len(p.vert))
  <1>1. p.simple[k] \in Seq(P) /\ Len(p.vert) \in Nat /\ p.vert \in Seq(1 .. Len(p.pos))
    BY DEF Meshed
  <1>2. PICK s : s = p.simple[k]
    OBVIOUS
  <1> HIDE DEF P
  <1>3. s[e] \in P
    BY <1>1, <1>2
  <1>4. PICK w : w = s[e].v
    OBVIOUS
  <1>5. w \in Seq(1 .. Len(p.vert)) /\ d \in 1 .. Len(w)
    BY <1>2, <1>3, <1>4 DEF P, Prims
  <1>6. w[d] \in 1 .. Len(p.vert)
    BY <1>5
  <1>7. PICK vert : vert = p.vert
    OBVIOUS
  <1>8. PICK v : v = w[d]
    OBVIOUS
  <1>9. vert[v] \in 1 .. Len(p.pos)
    BY <1>1, <1>6, <1>7, <1>8, SMTT(20)
  <1> QED  BY <1>2, <1>4, <1>6, <1>7, <1>8, <1>9

\* Lists that grow.
Grown(kn, km) ==
  \A i \in DOMAIN kn : /\ Len(kn[i]) \in Nat /\ Len(km[i]) \in Nat /\ Len(kn[i]) <= Len(km[i])
                       /\ \A j \in 1 .. Len(kn[i]) : km[i][j] = kn[i][j]

\* A list that grows serves all that it served.
LEMMA ServedStays ==
  ASSUME NEW p, NEW kn, NEW km, NEW a, NEW v, Served(p, kn, a, v), p.vert[v] \in DOMAIN kn,
         Grown(kn, km)
  PROVE  Served(p, km, a, v)
  <1>1. PICK i : i = p.vert[v]
    OBVIOUS
  <1>2. PICK j \in 1 .. Len(kn[i]) :
          a = "vertex" \/ p.at["verts"][a][kn[i][j]] = p.at["verts"][a][v]
    BY <1>1, Zenon DEF Served
  <1>3. j \in 1 .. Len(km[i]) /\ km[i][j] = kn[i][j]
    BY <1>1, <1>2 DEF Grown
  <1>4. a = "vertex" \/ p.at["verts"][a][km[i][j]] = p.at["verts"][a][v]
    BY <1>2, <1>3
  <1> QED  BY <1>1, <1>3, <1>4, Zenon DEF Served

\* A call begins with all its loops.
LEMMA SplitBegin ==
  ASSUME NEW p, NEW tg \in {"zsmesh", "visual"}, BeginSplit(p, tg), phase' = "split"
  PROVE  SplitInv'
  <1>1. PICK q : q = prim'
    OBVIOUS
  <1>2. /\ target' = tg /\ todo' = Loops(q, tg) /\ next' = AtFirst(q, Loops(q, tg))
        /\ known' = [i \in 1 .. Len(q.pos) |-> <<>>]
    BY <1>1 DEF BeginSplit
  <1>3. Lists(q, known')
    <2>1. <<>> \in Seq(1 .. Len(q.vert))
      OBVIOUS
    <2> QED  BY <1>2, <2>1 DEF Lists
  <1>4. Pending(q, tg, known', todo')
    BY <1>2, LoopsAre DEF Pending
  <1>5. ASSUME todo' # <<>>  PROVE Visited(q, known', todo'[1], next')
    <2>1. next' = [e \in 1 .. Len(q.simple[todo'[1][2]]) |-> 1]
      BY <1>2, <1>5 DEF AtFirst
    <2>2. \A e \in DOMAIN next' : next'[e] = 1
      BY <2>1
    <2>3. \A e \in DOMAIN next' : next'[e] \in Nat \ {0}
      BY <2>2
    <2>4. \A n : \A d \in 1 .. n : ~ (d < 1)
      OBVIOUS
    <2> QED  BY <2>1, <2>2, <2>3, <2>4 DEF Visited
  <1> QED  BY <1>1, <1>2, <1>3, <1>4, <1>5 DEF SplitInv

\* Lists that grow have still served all corners of a kind.
LEMMA DoneStays ==
  ASSUME NEW p, Meshed(p), NEW kn, Lists(p, kn), NEW km, Grown(kn, km),
         NEW a, NEW k \in Kinds, Done(p, kn, a, k)
  PROVE  Done(p, km, a, k)
  <1> SUFFICES ASSUME NEW e \in 1 .. Len(p.simple[k]), NEW d \in 1 .. Len(p.simple[k][e].v)
               PROVE  Served(p, km, a, p.simple[k][e].v[d])
    BY DEF Done
  <1>1. PICK v : v = p.simple[k][e].v[d]
    OBVIOUS
  <1>2. p.vert[v] \in 1 .. Len(p.pos)
    BY <1>1, CornerIs
  <1>3. p.vert[v] \in DOMAIN kn
    BY <1>2 DEF Lists
  <1>4. Served(p, kn, a, v)
    BY <1>1 DEF Done
  <1>5. Served(p, km, a, v)
    BY <1>3, <1>4, ServedStays
  <1> QED  BY <1>1, <1>5

\* A corner that is compared is served.
LEMMA SplitCompare ==
  ASSUME IInv, MeshInv, SplitInv, phase = "split", todo # <<>>, NEW e \in DOMAIN next, Compare(e),
         phase' = phase
  PROVE  SplitInv'
  <1>1. prim' = prim /\ target' = target /\ todo' = todo
    BY DEF Compare
  <1>2. PICK a, k : a = todo[1][1] /\ k = todo[1][2]
    OBVIOUS
  <1>3. PICK p, kn, km, nx : p = prim /\ kn = known /\ km = known' /\ nx = next
    OBVIOUS
  <1>4. k \in Kinds
    <2>1. todo \in Seq(Heads(prim, target) \X Kinds)
      BY DEF IInv, LoopInv
    <2>2. todo[1] \in Heads(prim, target) \X Kinds
      BY <2>1
    <2> QED  BY <1>2, <2>2
  <1>5. Meshed(p)
    BY <1>3, MeshedIs
  <1>6. Lists(p, kn) /\ Visited(p, kn, todo[1], nx) /\ Pending(p, target, kn, todo)
    BY <1>3 DEF SplitInv
  <1>7. /\ DOMAIN nx = 1 .. Len(p.simple[k])
        /\ \A x \in DOMAIN nx :
             /\ nx[x] \in Nat \ {0}
             /\ \A d \in 1 .. Len(p.simple[k][x].v) :
                  d < nx[x] => Served(p, kn, a, p.simple[k][x].v[d])
    BY <1>2, <1>6 DEF Visited
  <1>8. PICK n : n = Len(p.simple[k][e].v)
    OBVIOUS
  <1>9. nx[e] <= n /\ next' = [nx EXCEPT ![e] = @ + 1]
    BY <1>2, <1>3, <1>8 DEF Compare, Corners
  <1>10. e \in 1 .. Len(p.simple[k]) /\ n \in Nat
    <2>1. PICK s : s = p.simple[k]
      OBVIOUS
    <2>2. s \in Seq(Prims(Len(p.vert))) /\ e \in 1 .. Len(s)
      BY <1>3, <1>4, <1>5, <1>7, <2>1 DEF Meshed
    <2>3. s[e] \in Prims(Len(p.vert))
      BY <2>2
    <2>4. Len(s[e].v) \in Nat
      BY <2>3 DEF Prims
    <2> QED  BY <1>8, <2>1, <2>2, <2>4
  <1>11. nx[e] \in 1 .. n
    BY <1>3, <1>7, <1>9, <1>10
  <1>12. PICK v : v = p.simple[k][e].v[nx[e]]
    OBVIOUS
  <1>13. PICK pid : pid = p.vert[v]
    OBVIOUS
  <1>14. v \in 1 .. Len(p.vert) /\ pid \in 1 .. Len(p.pos)
    BY <1>4, <1>5, <1>8, <1>10, <1>11, <1>12, <1>13, CornerIs
  <1>15. v = Corners(e)[next[e]] /\ pid = prim.vert[v]
    BY <1>2, <1>3, <1>12, <1>13 DEF Corners
  <1>16. DOMAIN kn = 1 .. Len(p.pos) /\ \A i \in DOMAIN kn : kn[i] \in Seq(1 .. Len(p.vert))
    BY <1>6 DEF Lists
  <1>17. Lists(p, km) /\ Grown(kn, km) /\ Served(p, km, a, v)
    <2>1. CASE IsKnown(pid, v)
      <3>1. km = kn
        BY <1>3, <1>15, <2>1 DEF Compare
      <3>2. \A i \in DOMAIN kn : Len(kn[i]) \in Nat
        BY <1>16
      <3>3. Grown(kn, km)
        BY <3>1, <3>2 DEF Grown
      <3>4. \E j \in 1 .. Len(kn[pid]) : a = "vertex"
                \/ p.at["verts"][a][kn[pid][j]] = p.at["verts"][a][v]
        <4>1. CASE a = "vertex"
          BY <1>2, <1>3, <2>1, <4>1 DEF IsKnown, HasSame
        <4>2. CASE a # "vertex"
          <5>1. PICK j \in 1 .. Len(props[pid]) : props[pid][j] = p.at["verts"][a][v]
            BY <1>2, <1>3, <2>1, <4>2 DEF IsKnown, HasLike
          <5>2. /\ Len(props[pid]) = Len(kn[pid])
                /\ \A x \in 1 .. Len(kn[pid]) : props[pid][x] = p.at["verts"][a][kn[pid][x]]
            BY <1>2, <1>3, <1>14, <1>16, <4>2 DEF IInv, PropsInv
          <5> QED  BY <5>1, <5>2
        <4> QED  BY <4>1, <4>2
      <3> QED  BY <1>6, <1>13, <3>1, <3>3, <3>4 DEF Served
    <2>2. CASE ~ IsKnown(pid, v)
      <3>1. km = [kn EXCEPT ![pid] = Append(@, v)]
        BY <1>3, <1>15, <2>2 DEF Compare
      <3>2. /\ DOMAIN km = DOMAIN kn /\ km[pid] = Append(kn[pid], v)
            /\ \A i \in DOMAIN kn : i # pid => km[i] = kn[i]
        BY <1>14, <1>16, <3>1
      <3>3. PICK s, V : s = kn[pid] /\ V = 1 .. Len(p.vert)
        OBVIOUS
      <3>4. s \in Seq(V) /\ v \in V
        BY <1>14, <1>16, <3>3
      <3>5. /\ Append(s, v) \in Seq(V) /\ Len(Append(s, v)) = Len(s) + 1 /\ Len(s) \in Nat
            /\ \A j \in 1 .. Len(s) : Append(s, v)[j] = s[j]
            /\ Append(s, v)[Len(s) + 1] = v
        BY <3>4
      <3>6. \A i \in DOMAIN kn : Len(kn[i]) \in Nat
        BY <1>16
      <3>7. Grown(kn, km)
        <4> SUFFICES ASSUME NEW i \in DOMAIN kn
                     PROVE  /\ Len(kn[i]) \in Nat /\ Len(km[i]) \in Nat /\ Len(kn[i]) <= Len(km[i])
                            /\ \A j \in 1 .. Len(kn[i]) : km[i][j] = kn[i][j]
          BY DEF Grown
        <4>1. CASE i = pid
          BY <3>2, <3>3, <3>5, <4>1, SMTT(20)
        <4>2. CASE i # pid
          BY <3>2, <3>6, <4>2
        <4> QED  BY <4>1, <4>2
      <3>8. Lists(p, km)
        BY <1>16, <3>2, <3>3, <3>5 DEF Lists
      <3>9. Len(s) + 1 \in 1 .. Len(km[pid]) /\ km[pid][Len(s) + 1] = v
        BY <3>2, <3>3, <3>5
      <3>10. Served(p, km, a, v)
        <4>1. p.at["verts"][a][km[pid][Len(s) + 1]] = p.at["verts"][a][v]
          BY <3>9
        <4> QED  BY <1>13, <3>9, <4>1, Zenon DEF Served
      <3> QED  BY <3>7, <3>8, <3>10
    <2> QED  BY <2>1, <2>2
  <1>18. Pending(p, target, km, todo)
    BY <1>5, <1>6, <1>17, DoneStays DEF Pending
  <1>19. Visited(p, km, todo[1], next')
    <2>1. DOMAIN next' = 1 .. Len(p.simple[k])
      BY <1>7, <1>9
    <2>2. ASSUME NEW x \in DOMAIN nx, NEW d \in 1 .. Len(p.simple[k][x].v),
                 Served(p, kn, a, p.simple[k][x].v[d])
          PROVE  Served(p, km, a, p.simple[k][x].v[d])
      <3>1. PICK w : w = p.simple[k][x].v[d]
        OBVIOUS
      <3>2. p.vert[w] \in 1 .. Len(p.pos)
        BY <1>4, <1>5, <1>7, <3>1, CornerIs
      <3>3. p.vert[w] \in DOMAIN kn
        BY <1>16, <3>2
      <3>4. Served(p, kn, a, w)
        BY <2>2, <3>1
      <3>5. Served(p, km, a, w)
        BY <1>17, <3>3, <3>4, ServedStays DEF Grown
      <3> QED  BY <3>1, <3>5
    <2>3. ASSUME NEW x \in DOMAIN nx
          PROVE  /\ next'[x] \in Nat \ {0}
                 /\ \A d \in 1 .. Len(p.simple[k][x].v) :
                      d < next'[x] => Served(p, km, a, p.simple[k][x].v[d])
      <3>1. CASE x # e
        BY <1>7, <1>9, <2>2, <3>1
      <3>2. CASE x = e
        <4>1. next'[e] = nx[e] + 1 /\ nx[e] \in Nat \ {0}
          BY <1>3, <1>7, <1>9
        <4>2. \A d \in 1 .. n : d < nx[e] + 1 => d < nx[e] \/ d = nx[e]
          BY <1>10, <4>1
        <4>3. \A d \in 1 .. n : d < nx[e] => Served(p, km, a, p.simple[k][e].v[d])
          BY <1>3, <1>7, <1>8, <2>2
        <4>4. \A d \in 1 .. n : d < next'[e] => Served(p, km, a, p.simple[k][e].v[d])
          BY <1>12, <1>17, <4>1, <4>2, <4>3
        <4> QED  BY <1>8, <3>2, <4>1, <4>4
      <3> QED  BY <3>1, <3>2
    <2> QED  BY <1>2, <1>7, <2>1, <2>3 DEF Visited
  <1> QED  BY <1>1, <1>3, <1>17, <1>18, <1>19 DEF SplitInv

\* A loop ends when it visited all its corners.
LEMMA SplitNextLoop ==
  ASSUME IInv, SplitInv, phase = "split", todo # <<>>, NextLoop, phase' = phase
  PROVE  SplitInv'
  <1>1. prim' = prim /\ target' = target /\ known' = known /\ todo' = Tail(todo)
        /\ next' = AtFirst(prim, todo')
    BY DEF NextLoop
  <1>2. Lists(prim, known) /\ Visited(prim, known, todo[1], next)
        /\ Pending(prim, target, known, todo)
    BY DEF SplitInv
  <1>3. PICK a, k : a = todo[1][1] /\ k = todo[1][2]
    OBVIOUS
  <1>4. todo[1] = <<a, k>> /\ \A x \in ToSet(todo) : x = todo[1] \/ x \in ToSet(todo')
    <2>1. PICK T : T = Heads(prim, target) \X Kinds
      OBVIOUS
    <2>2. todo \in Seq(T)
      BY <2>1 DEF IInv, LoopInv
    <2>3. todo[1] \in T
      BY <2>2
    <2>4. todo[1] = <<a, k>>
      BY <1>3, <2>1, <2>3
    <2>5. /\ DOMAIN todo = 1 .. Len(todo) /\ Len(todo) \in Nat
          /\ DOMAIN Tail(todo) = 1 .. Len(todo) - 1
          /\ \A j \in 1 .. Len(todo) - 1 : Tail(todo)[j] = todo[j + 1]
      BY <2>2
    <2>6. ASSUME NEW i \in 1 .. Len(todo), i # 1  PROVE todo[i] \in ToSet(todo')
      <3>1. i - 1 \in 1 .. Len(todo) - 1 /\ (i - 1) + 1 = i
        BY <2>5, <2>6
      <3>2. Tail(todo)[i - 1] = todo[i] /\ i - 1 \in DOMAIN Tail(todo)
        BY <2>5, <3>1
      <3> QED  BY <1>1, <3>2 DEF ToSet
    <2>7. \A x \in ToSet(todo) : \E i \in 1 .. Len(todo) : x = todo[i]
      BY <2>5 DEF ToSet
    <2> QED  BY <2>4, <2>6, <2>7
  <1>5. Done(prim, known, a, k)
    <2>1. ASSUME NEW e \in 1 .. Len(prim.simple[k]), NEW d \in 1 .. Len(prim.simple[k][e].v)
          PROVE  Served(prim, known, a, prim.simple[k][e].v[d])
      <3>1. /\ e \in DOMAIN next /\ next[e] \in Nat \ {0}
            /\ \A x \in 1 .. Len(prim.simple[k][e].v) :
                 x < next[e] => Served(prim, known, a, prim.simple[k][e].v[x])
        BY <1>2, <1>3 DEF Visited
      <3>2. next[e] > Len(prim.simple[k][e].v)
        BY <1>3, <3>1 DEF NextLoop, Corners
      <3>3. d < next[e]
        BY <3>1, <3>2
      <3> QED  BY <3>1, <3>3
    <2> QED  BY <2>1 DEF Done
  <1>6. Pending(prim, target, known, todo')
    <2> SUFFICES ASSUME NEW b \in Heads(prim, target), NEW l \in Kinds
                 PROVE  <<b, l>> \in ToSet(todo') \/ Done(prim, known, b, l)
      BY DEF Pending
    <2>1. <<b, l>> \in ToSet(todo) \/ Done(prim, known, b, l)
      BY <1>2 DEF Pending
    <2>2. CASE <<b, l>> = <<a, k>>
      BY <1>5, <2>2
    <2>3. CASE <<b, l>> # <<a, k>>
      BY <1>4, <2>1, <2>3, Zenon
    <2> QED  BY <2>2, <2>3
  <1>7. ASSUME todo' # <<>>  PROVE Visited(prim, known, todo'[1], next')
    <2>1. next' = [x \in 1 .. Len(prim.simple[todo'[1][2]]) |-> 1]
      BY <1>1, <1>7 DEF AtFirst
    <2>2. \A x \in DOMAIN next' : next'[x] = 1
      BY <2>1
    <2>3. \A x \in DOMAIN next' : next'[x] \in Nat \ {0}
      BY <2>2
    <2>4. \A n : \A d \in 1 .. n : ~ (d < 1)
      OBVIOUS
    <2> QED  BY <2>1, <2>2, <2>3, <2>4 DEF Visited
  <1> QED  BY <1>1, <1>2, <1>6, <1>7 DEF SplitInv

-----------------------------------------------------------------------------
(* The meshes that are made of the variants.                               *)

\* A call that ended made its mesh; no other was made since.
MadeInv ==
  /\ phase = "new" => zs = NoZs /\ target = "zsmesh"
  /\ phase = "idle" =>
       /\ target = "zsmesh" => zs = IF shows = 0 THEN NoZs ELSE ZsMeshes
       /\ target = "visual" => shows > 0 /\ visual = VisualMesh

\* The nodes are the variants of the points, point after point.
LEMMA NodesAre ==
  ASSUME Meshed(prim), Lists(prim, known)
  PROVE  /\ Len(Nodes) \in Nat /\ DOMAIN Nodes = 1 .. Len(Nodes)
         /\ \A i \in 1 .. Len(prim.pos) : \A j \in 1 .. Len(known[i]) :
              /\ Offset(i) + j \in 1 .. Len(Nodes)
              /\ Nodes[Offset(i) + j] = <<i, known[i][j]>>
         /\ \A n \in 1 .. Len(Nodes) : \E i \in 1 .. Len(prim.pos) : \E j \in 1 .. Len(known[i]) :
              n = Offset(i) + j
  <1>1. PICK m : m = Len(prim.pos)
    OBVIOUS
  <1>2. m \in Nat
    BY <1>1 DEF Meshed
  <1>3. DOMAIN known = 1 .. m /\ \A i \in 1 .. m : known[i] \in Seq(1 .. Len(prim.vert))
    BY <1>1 DEF Lists
  <1>4. PICK S : S = (1 .. m) \X (1 .. Len(prim.vert))
    OBVIOUS
  <1> DEFINE Of(i) == [j \in 1 .. Len(known[i]) |-> <<i, known[i][j]>>]
             ss == [i \in 1 .. m |-> Of(i)]
  <1>5. ASSUME NEW i \in 1 .. m
        PROVE  Of(i) \in Seq(S) /\ Len(Of(i)) = Len(known[i]) /\ Len(known[i]) \in Nat
               /\ \A j \in 1 .. Len(known[i]) : Of(i)[j] = <<i, known[i][j]>>
    <2>1. PICK n : n = Len(known[i])
      OBVIOUS
    <2>2. n \in Nat /\ \A j \in 1 .. n : known[i][j] \in 1 .. Len(prim.vert)
      BY <1>3, <2>1
    <2>3. \A j \in 1 .. n : <<i, known[i][j]>> \in S
      BY <1>4, <2>2
    <2>4. /\ Of(i) = [j \in 1 .. n |-> Of(i)[j]]
          /\ \A j \in 1 .. n : Of(i)[j] = <<i, known[i][j]>>
      BY <2>1
    <2> HIDE DEF Of
    <2>5. \A j \in 1 .. n : Of(i)[j] \in S
      BY <2>3, <2>4
    <2>6. Of(i) \in Seq(S) /\ Len(Of(i)) = n
      BY <2>2, <2>4, <2>5
    <2> QED  BY <2>1, <2>2, <2>4, <2>6
  <1>6. Nodes = FlattenSeq(ss)
    BY <1>1, Zenon DEF Nodes
  <1> HIDE DEF Of
  <1>7. ss \in Seq(Seq(S)) /\ Len(ss) = m /\ \A i \in 1 .. m : ss[i] = Of(i)
    <2>1. \A i \in 1 .. m : Of(i) \in Seq(S)
      BY <1>5
    <2>2. PICK T : T = Seq(S)
      OBVIOUS
    <2>3. \A i \in 1 .. m : Of(i) \in T
      BY <2>1, <2>2
    <2>4. ss \in Seq(T) /\ Len(ss) = m
      BY <1>2, <2>3
    <2> QED  BY <2>2, <2>4
  <1> HIDE DEF ss
  <1>8. \A i : Offset(i) = SumTo(Lens(ss), i - 1)
    <2>1. [q \in DOMAIN known |-> Len(known[q])] = Lens(ss)
      BY <1>3, <1>5, <1>7 DEF Lens
    <2> QED  BY <2>1, Zenon DEF Offset
  <1>9. /\ FlattenSeq(ss) \in Seq(S)
        /\ \A i \in 1 .. Len(ss) : \A j \in 1 .. Len(ss[i]) :
             /\ SumTo(Lens(ss), i - 1) + j \in 1 .. Len(FlattenSeq(ss))
             /\ FlattenSeq(ss)[SumTo(Lens(ss), i - 1) + j] = ss[i][j]
        /\ \A e \in 1 .. Len(FlattenSeq(ss)) : \E i \in 1 .. Len(ss) :
             \E j \in 1 .. Len(ss[i]) : e = SumTo(Lens(ss), i - 1) + j
    BY <1>7, FlattenAt
  <1>10. Nodes \in Seq(S)
    BY <1>6, <1>9
  <1>11. Len(Nodes) \in Nat /\ DOMAIN Nodes = 1 .. Len(Nodes)
    BY <1>10, SeqIsSeq
  <1>12. \A i \in 1 .. m : \A j \in 1 .. Len(known[i]) :
           Offset(i) + j \in 1 .. Len(Nodes) /\ Nodes[Offset(i) + j] = <<i, known[i][j]>>
    <2> SUFFICES ASSUME NEW i \in 1 .. m, NEW j \in 1 .. Len(known[i])
                 PROVE  Offset(i) + j \in 1 .. Len(Nodes)
                        /\ Nodes[Offset(i) + j] = <<i, known[i][j]>>
      OBVIOUS
    <2>1. i \in 1 .. Len(ss) /\ ss[i] = Of(i) /\ j \in 1 .. Len(ss[i])
          /\ Of(i)[j] = <<i, known[i][j]>>
      BY <1>5, <1>7
    <2> QED  BY <1>6, <1>8, <1>9, <2>1
  <1>13. \A n \in 1 .. Len(Nodes) : \E i \in 1 .. m : \E j \in 1 .. Len(known[i])
              : n = Offset(i) + j
    <2> SUFFICES ASSUME NEW n \in 1 .. Len(Nodes)
                 PROVE  \E i \in 1 .. m : \E j \in 1 .. Len(known[i]) : n = Offset(i) + j
      OBVIOUS
    <2>1. PICK i \in 1 .. m : \E j \in 1 .. Len(ss[i]) : n = SumTo(Lens(ss), i - 1) + j
      BY <1>6, <1>7, <1>9
    <2>2. \E j \in 1 .. Len(known[i]) : n = Offset(i) + j
      BY <1>5, <1>7, <1>8, <2>1
    <2> QED  BY <2>2
  <1> QED  BY <1>1, <1>11, <1>12, <1>13

\* No two nodes stand for the same vertex, and each stands for one of its point.
LEMMA NodesDiffer ==
  ASSUME Meshed(prim), Lists(prim, known), VariantsDiffer, phase # "painted"
  PROVE  /\ \A n \in 1 .. Len(Nodes) : Nodes[n][2] \in 1 .. Len(prim.vert)
         /\ \A m, n \in 1 .. Len(Nodes) : Nodes[m][2] = Nodes[n][2] => m = n
  <1>1. \A i \in 1 .. Len(prim.pos) :
          /\ known[i] \in Seq(1 .. Len(prim.vert)) /\ i \in DOMAIN known
      BY DEF Lists
  <1>2. \A i \in 1 .. Len(prim.pos) :
          /\ IsInjective(known[i]) /\ DOMAIN known[i] = 1 .. Len(known[i])
          /\ \A j \in 1 .. Len(known[i]) : /\ prim.vert[known[i][j]] = i
                                           /\ known[i][j] \in 1 .. Len(prim.vert)
    BY <1>1 DEF VariantsDiffer
  <1>3. ASSUME NEW n \in 1 .. Len(Nodes)
        PROVE  \E i \in 1 .. Len(prim.pos) : \E j \in 1 .. Len(known[i]) :
                 n = Offset(i) + j /\ Nodes[n][2] = known[i][j]
    <2>1. PICK i \in 1 .. Len(prim.pos) : \E j \in 1 .. Len(known[i]) : n = Offset(i) + j
      BY NodesAre
    <2>2. PICK j \in 1 .. Len(known[i]) : n = Offset(i) + j
      BY <2>1
    <2>3. Nodes[n] = <<i, known[i][j]>>
      BY <2>2, NodesAre
    <2> QED  BY <2>2, <2>3
  <1>4. ASSUME NEW m \in 1 .. Len(Nodes), NEW n \in 1 .. Len(Nodes), Nodes[m][2] = Nodes[n][2]
        PROVE  m = n
    <2>1. PICK h \in 1 .. Len(prim.pos) : \E j \in 1 .. Len(known[h]) :
            m = Offset(h) + j /\ Nodes[m][2] = known[h][j]
      BY <1>3
    <2>2. PICK g \in 1 .. Len(known[h]) : m = Offset(h) + g /\ Nodes[m][2] = known[h][g]
      BY <2>1
    <2>3. PICK i \in 1 .. Len(prim.pos) : \E j \in 1 .. Len(known[i]) :
            n = Offset(i) + j /\ Nodes[n][2] = known[i][j]
      BY <1>3
    <2>4. PICK j \in 1 .. Len(known[i]) : n = Offset(i) + j /\ Nodes[n][2] = known[i][j]
      BY <2>3
    <2>5. h = i
      <3>1. known[h][g] = known[i][j]
        BY <1>4, <2>2, <2>4
      <3>2. prim.vert[known[h][g]] = h
        BY <1>2
      <3>3. prim.vert[known[i][j]] = i
        BY <1>2
      <3> QED  BY <3>1, <3>2, <3>3
    <2>6. g = j
      BY <1>2, <1>4, <2>2, <2>4, <2>5, SMTT(20) DEF IsInjective
    <2> QED  BY <2>2, <2>4, <2>5, <2>6
  <1>5. \A n \in 1 .. Len(Nodes) : Nodes[n][2] \in 1 .. Len(prim.vert)
    BY <1>2, <1>3, SMTT(20)
  <1> QED  BY <1>4, <1>5

\* What nodes write to the vertices that they stand for.
LEMMA WrittenAt ==
  ASSUME NEW p, Filled(p), NEW m, m.nodes # <<>>, Len(m.vids) = Len(m.nodes),
         NEW a \in DOMAIN m.attr, NEW n \in 1 .. Len(m.vids), m.vids[n] \in 1 .. Len(p.vert),
         \A x \in 1 .. Len(m.vids) : m.vids[x] = m.vids[n] => x = n,
         NEW q, q = ZsToVerts(p, m)
  PROVE  q.at["verts"][a][m.vids[n]] = m.attr[a][n]
  <1> DEFINE Node(v)   == {x \in 1 .. Len(m.vids) : m.vids[x] = v}
             Old(b, v) == IF Has(p, "verts", b) THEN p.at["verts"][b][v] ELSE Zero
             Now(b, v) == IF Node(v) = {} THEN Old(b, v)
                          ELSE m.attr[b][CHOOSE x \in Node(v) : TRUE]
             verts == [b \in DOMAIN p.at["verts"] \cup DOMAIN m.attr |->
                         IF b \notin DOMAIN m.attr THEN p.at["verts"][b]
                         ELSE [v \in 1 .. Len(p.vert) |-> Now(b, v)]]
  <1>1. q = [p EXCEPT !.at["verts"] = verts]
    BY Zenon DEF ZsToVerts
  <1>2. PICK v : v = m.vids[n]
    OBVIOUS
  <1>3. Node(v) = {n}
    BY <1>2
  <1>4. (CHOOSE x \in Node(v) : TRUE) = n
    BY <1>3
  <1>5. Now(a, v) = m.attr[a][n]
    BY <1>3, <1>4
  <1> HIDE DEF Now
  <1>6. verts[a] = [w \in 1 .. Len(p.vert) |-> Now(a, w)]
    OBVIOUS
  <1> HIDE DEF verts
  <1>7. verts[a][v] = m.attr[a][n]
    BY <1>2, <1>5, <1>6
  <1>8. /\ DOMAIN p = {"pos", "vert", "poly", "simple", "at", "global"}
        /\ DOMAIN p.at = Owners /\ "verts" \in Owners
    BY DEF Filled, Owners
  <1>9. q.at["verts"] = verts
    BY <1>1, <1>8
  <1> QED  BY <1>2, <1>7, <1>9

\* What a painted node holds reaches its vertex, as all meshes have the same nodes.
LEMMA PaintReaches ==
  ASSUME IInv, MeshInv, SplitInv, MadeInv, NEW n, PaintNode(n)
  PROVE  PaintReachesVerts' /\ shows > 0
  <1>1. /\ phase = "idle" /\ target = "zsmesh" /\ n \in DOMAIN zs["Tri_"].nodes
        /\ phase' = "painted"
    BY DEF PaintNode
  <1>2. "Tri_" \in Kinds /\ "Line_" \in Kinds /\ "Point_" \in Kinds
    BY DEF Kinds
  <1>3. shows > 0 /\ zs = ZsMeshes
    <2>1. DOMAIN NoZs["Tri_"].nodes = {}
      BY <1>2 DEF NoZs, NoMesh
    <2>2. shows # 0
      BY <1>1, <2>1 DEF MadeInv
    <2>3. shows \in 0 .. MaxShows /\ MaxShows \in Nat
      BY TimesAreNumbers DEF MeshInv, TimesAreNumbers
    <2> QED  BY <1>1, <2>2, <2>3 DEF MadeInv
  <1>4. Meshed(prim) /\ Filled(prim)
    BY <1>1, <1>3, MeshedIs
  <1>5. Lists(prim, known) /\ VariantsDiffer /\ phase # "painted"
    BY <1>1, <1>3 DEF SplitInv, IInv
  <1>6. PICK N : N = Len(Nodes)
    OBVIOUS
  <1>7. N \in Nat
    BY <1>4, <1>5, <1>6, NodesAre
  <1>8. PICK vids, nodes, attr :
          /\ vids = [x \in 1 .. N |-> Nodes[x][2]]
          /\ nodes = [x \in 1 .. N |-> Position(Nodes[x][1])]
          /\ attr = NodeAttribs
    OBVIOUS
  <1>9. \A k \in Kinds : zs[k].vids = vids /\ zs[k].nodes = nodes /\ zs[k].attr = attr
    BY <1>3, <1>6, <1>8, Zenon DEF ZsMeshes
  <1>10. /\ Len(vids) = N /\ Len(nodes) = N /\ DOMAIN vids = 1 .. N
         /\ \A x \in 1 .. N : vids[x] \in 1 .. Len(prim.vert)
         /\ \A x, y \in 1 .. N : vids[x] = vids[y] => x = y
    BY <1>4, <1>5, <1>6, <1>7, <1>8, NodesDiffer
  <1> DEFINE CanPaint(m) == m.nodes # <<>> /\ "clr" \in DOMAIN m.attr /\ Len(m.vids) = Len(m.nodes)
             New(m) == [m EXCEPT !.attr["clr"] = [x \in DOMAIN @
                                |-> IF x \in {n} THEN Color ELSE @[x]]]
             done == [k \in Kinds |-> IF ~CanPaint(zs[k]) THEN zs[k] ELSE New(zs[k])]
  <1>11. /\ zs' = done
         /\ prim' = IF \E k \in Kinds : CanPaint(zs[k])
                    THEN ZsToVerts(ZsToVerts(ZsToVerts(prim, done["Tri_"]), done["Line_"]),
                                   done["Point_"])
                    ELSE prim
    BY Zenon DEF PaintNode, Paint
  <1>14. ASSUME \A k \in Kinds : \A x \in DOMAIN zs'[k].vids : "clr" \in DOMAIN zs'[k].attr =>
                  prim'.at["verts"]["clr"][zs'[k].vids[x]] = zs'[k].attr["clr"][x]
         PROVE  PaintReachesVerts'
    BY <1>14, Zenon DEF PaintReachesVerts
  <1>12. CASE "clr" \notin DOMAIN attr
    <2>1. \A k \in Kinds : zs'[k].attr = attr
      BY <1>9, <1>11, <1>12
    <2> QED  BY <1>3, <1>12, <2>1, <1>14
  <1>13. CASE "clr" \in DOMAIN attr
    <2>1. nodes # <<>> /\ \A k \in Kinds : CanPaint(zs[k])
      <3>1. DOMAIN nodes # {} /\ DOMAIN <<>> = {}
        BY <1>1, <1>2, <1>9
      <3> QED  BY <1>9, <1>10, <1>13, <3>1
    <2>2. PICK new : new = [attr EXCEPT !["clr"] =
                              [x \in DOMAIN @ |-> IF x \in {n} THEN Color ELSE @[x]]]
      OBVIOUS
    <2>3. "clr" \in DOMAIN new
      BY <1>13, <2>2
    <2>4. \A k \in Kinds : done[k] = [zs[k] EXCEPT !.attr = new]
      BY <1>9, <2>1, <2>2
    <2>5. \A k \in Kinds : DOMAIN zs[k] = {"nodes", "vids", "attr", "elems"}
      BY <1>3 DEF ZsMeshes
    <2>6. \A k \in Kinds : done[k].vids = vids /\ done[k].nodes = nodes /\ done[k].attr = new
      <3> HIDE DEF done
      <3> QED  BY <1>9, <2>4, <2>5
    <2> HIDE DEF CanPaint, New, done
    <2>7. PICK p, q, m : p = ZsToVerts(prim, done["Tri_"]) /\ q = ZsToVerts(p, done["Line_"])
                         /\ m = done["Point_"]
      OBVIOUS
    <2>8. prim' = ZsToVerts(q, m)
      BY <1>2, <1>11, <2>1, <2>7
    <2>9. Reformed(prim, p)
      BY <1>4, <2>7, WrittenIs
    <2>10. Filled(p)
      BY <2>9 DEF Reformed
    <2>11. Reformed(p, q)
      BY <2>7, <2>10, WrittenIs
    <2>12. Filled(q) /\ q.vert = prim.vert
      BY <2>9, <2>11 DEF Reformed, Alike
    <2>13. m.vids = vids /\ m.nodes = nodes /\ m.attr = new
      BY <1>2, <2>6, <2>7
    <2>14. ASSUME NEW x \in 1 .. N
           PROVE  prim'.at["verts"]["clr"][vids[x]] = new["clr"][x]
      <3>1. PICK r : r = prim'
        OBVIOUS
      <3>2. r = ZsToVerts(q, m)
        BY <2>8, <3>1
      <3>3. m.nodes # <<>> /\ Len(m.vids) = Len(m.nodes) /\ "clr" \in DOMAIN m.attr
        BY <1>10, <2>1, <2>3, <2>13
      <3>4. x \in 1 .. Len(m.vids) /\ m.vids[x] \in 1 .. Len(q.vert)
        BY <1>10, <2>12, <2>13
      <3>5. \A y \in 1 .. Len(m.vids) : m.vids[y] = m.vids[x] => y = x
        BY <1>10, <2>13
      <3>6. r.at["verts"]["clr"][m.vids[x]] = m.attr["clr"][x]
        BY <2>12, <3>2, <3>3, <3>4, <3>5, WrittenAt, SMTT(20)
      <3> QED  BY <2>13, <3>1, <3>6
    <2>15. \A k \in Kinds : zs'[k].vids = vids /\ zs'[k].attr = new
      BY <1>11, <2>6
    <2> QED  BY <1>3, <1>10, <1>14, <2>14, <2>15
  <1> QED  BY <1>3, <1>12, <1>13

-----------------------------------------------------------------------------
(* All of the invariant.                                                   *)

\* What is made of a split stays with it.
LEMMA MadeStays ==
  ASSUME UNCHANGED <<prim, known, target>>
  PROVE  ZsMeshes' = ZsMeshes /\ VisualMesh' = VisualMesh
  <1>1. /\ Nodes' = Nodes /\ \A i : Offset(i)' = Offset(i) /\ \A h : Position(h)' = Position(h)
    BY DEF Nodes, Offset, Position, Has
  <1>2. NodeAttribs' = NodeAttribs
    BY <1>1 DEF NodeAttribs, AttribsOf, ZsAttribs, VisualAttribs, Has
  <1>3. \A v : NodeOf(v)' = NodeOf(v)
    BY <1>1 DEF NodeOf
  <1>4. \A k : Remapped(k)' = Remapped(k)
    BY <1>3 DEF Remapped
  <1> QED  BY <1>1, <1>2, <1>4 DEF ZsMeshes, VisualMesh

\* With it, the way of a mesh is right whatever its loops do.
WayInv == IInv /\ MeshInv /\ SplitInv /\ MadeInv /\ PaintReachesVerts

\* It holds at first,
LEMMA WayInit == Init => WayInv
  <1> SUFFICES ASSUME Init  PROVE WayInv
    OBVIOUS
  <1>1. phase = "new" /\ target = "zsmesh" /\ zs = NoZs
    BY DEF Init
  <1>2. SplitInv /\ MadeInv /\ PaintReachesVerts
    BY <1>1 DEF SplitInv, MadeInv, PaintReachesVerts
  <1> QED  BY <1>2, InvInit, MeshInit DEF WayInv

\* ... is kept by every step,
LEMMA WayNext == WayInv /\ [Next]_vars => WayInv'
  <1> SUFFICES ASSUME WayInv, [Next]_vars  PROVE WayInv'
    OBVIOUS
  <1>1. IInv /\ MeshInv /\ SplitInv /\ MadeInv /\ PaintReachesVerts /\ IInv'
    BY InvNext DEF WayInv
  <1>2. target \in {"zsmesh", "visual"}
    BY <1>1 DEF IInv, LoopInv
  <1>3. CASE Build
    <2>1. /\ phase = "new" /\ phase' = "idle" /\ shows' = shows /\ target' = target /\ zs' = zs
      BY <1>3 DEF Build
    <2>2. shows = 0 /\ zs = NoZs /\ target = "zsmesh"
      BY <1>1, <2>1 DEF MeshInv, MadeInv
    <2>3. SplitInv' /\ MadeInv' /\ PaintReachesVerts'
      BY <2>1, <2>2 DEF SplitInv, MadeInv, PaintReachesVerts
    <2> QED  BY <1>1, <1>3, <2>3, MeshBuild DEF WayInv
  <1>4. ASSUME NEW t \in Times, NEW tg \in {"zsmesh", "visual"}, ShowAt(t, tg)
        PROVE  WayInv'
    <2>1. phase' = "split"
      BY <1>4 DEF ShowAt
    <2>2. PICK p : BeginSplit(p, tg)
      BY <1>4 DEF ShowAt
    <2>3. SplitInv'
      BY <2>1, <2>2, SplitBegin
    <2>4. MadeInv' /\ PaintReachesVerts'
      BY <2>1 DEF MadeInv, PaintReachesVerts
    <2>5. MeshInv'
      BY <1>1, <1>4, MeshShowAt
    <2> QED  BY <1>1, <2>3, <2>4, <2>5 DEF WayInv
  <1>5. CASE ShowAsIs
    <2>1. phase' = "split"
      BY <1>5 DEF ShowAsIs
    <2>2. PICK p : BeginSplit(p, "visual")
      BY <1>5 DEF ShowAsIs
    <2>3. SplitInv'
      BY <2>1, <2>2, SplitBegin
    <2>4. MadeInv' /\ PaintReachesVerts'
      BY <2>1 DEF MadeInv, PaintReachesVerts
    <2>5. MeshInv'
      BY <1>1, <1>5, MeshShowAsIs
    <2> QED  BY <1>1, <2>3, <2>4, <2>5 DEF WayInv
  <1>6. CASE Split
    <2>1. /\ phase = "split" /\ phase' = phase /\ todo # <<>> /\ SplitNext
          /\ UNCHANGED <<src, frames, phase, shown, open, painted, zs, visual, shows>>
      BY <1>6 DEF Split, SplitNext
    <2>2. (\E e \in DOMAIN next : Compare(e)) \/ NextLoop
      BY <2>1 DEF SplitNext, VisitZs, VisitVisual
    <2>3. prim' = prim
      BY <2>2 DEF Compare, NextLoop
    <2>4. SplitInv'
      BY <1>1, <2>1, <2>2, SplitCompare, SplitNextLoop
    <2>5. MadeInv' /\ PaintReachesVerts'
      BY <2>1 DEF MadeInv, PaintReachesVerts
    <2>6. MeshInv'
      BY <1>1, <2>1, <2>3 DEF MeshInv
    <2> QED  BY <1>1, <2>4, <2>5, <2>6 DEF WayInv
  <1>7. CASE EndSplit
    <2>1. /\ phase = "split" /\ phase' = "idle" /\ todo = <<>>
          /\ UNCHANGED <<prim, target, todo, next, known>>
          /\ UNCHANGED <<src, frames, shown, open, painted, shows>>
      BY <1>7 DEF EndSplit, splitVars
    <2>2. ZsMeshes' = ZsMeshes /\ VisualMesh' = VisualMesh
      BY <2>1, MadeStays
    <2>3. shows \in 0 .. MaxShows /\ shows > 0 /\ MaxShows \in Nat
      BY <1>1, <2>1, TimesAreNumbers DEF MeshInv, TimesAreNumbers
    <2>4. MadeInv'
      <3>1. CASE target = "zsmesh"
        <4>1. zs' = ZsMeshes
          BY <1>7, <3>1 DEF EndSplit
        <4> QED  BY <2>1, <2>2, <2>3, <3>1, <4>1 DEF MadeInv
      <3>2. CASE target = "visual"
        <4>1. visual' = VisualMesh
          BY <1>7, <3>2 DEF EndSplit
        <4> QED  BY <2>1, <2>2, <2>3, <3>2, <4>1 DEF MadeInv
      <3> QED  BY <1>2, <3>1, <3>2
    <2>5. SplitInv'
      BY <1>1, <2>1 DEF SplitInv
    <2>6. PaintReachesVerts'
      BY <2>1 DEF PaintReachesVerts
    <2>7. MeshInv'
      BY <1>1, <2>1 DEF MeshInv
    <2> QED  BY <1>1, <2>4, <2>5, <2>6, <2>7 DEF WayInv
  <1>8. ASSUME NEW n \in {1, 2}, PaintNode(n)  PROVE WayInv'
    <2>1. phase' = "painted"
      BY <1>8 DEF PaintNode
    <2>2. PaintReachesVerts' /\ shows > 0
      BY <1>1, <1>8, PaintReaches
    <2>3. MeshInv'
      BY <1>1, <1>8, <2>2, MeshPaint
    <2>4. SplitInv' /\ MadeInv'
      BY <2>1 DEF SplitInv, MadeInv
    <2> QED  BY <1>1, <2>2, <2>3, <2>4 DEF WayInv
  <1>9. CASE CloseScene
    <2>1. /\ phase = "idle" /\ phase' = phase /\ open' = FALSE
          /\ UNCHANGED <<prim, target, todo, next, known>>
          /\ UNCHANGED <<src, frames, shown, painted, zs, visual, shows>>
      BY <1>9 DEF CloseScene, splitVars
    <2>2. Brought(prim, src, shown, FALSE)
      BY <1>1, <2>1 DEF MeshInv, Brought, Hangs
    <2>3. open' \in BOOLEAN
      BY <2>1, Zenon
    <2>4. Brought(prim', src', shown', open')
      BY <2>1, <2>2, Zenon
    <2>5. MeshInv'
      BY <1>1, <2>1, <2>3, <2>4 DEF MeshInv
    <2>6. ZsMeshes' = ZsMeshes /\ VisualMesh' = VisualMesh
      BY <2>1, MadeStays
    <2>7. MadeInv' /\ SplitInv' /\ PaintReachesVerts'
      BY <1>1, <2>1, <2>6 DEF MadeInv, SplitInv, PaintReachesVerts
    <2> QED  BY <1>1, <2>5, <2>7 DEF WayInv
  <1>10. CASE UNCHANGED vars
    <2>1. /\ UNCHANGED <<prim, target, todo, next, known>>
          /\ UNCHANGED <<src, frames, phase, shown, open, painted, zs, visual, shows>>
      BY <1>10 DEF vars, splitVars
    <2>2. MeshInv'
      BY <1>1, <2>1 DEF MeshInv
    <2>3. ZsMeshes' = ZsMeshes /\ VisualMesh' = VisualMesh
      BY <2>1, MadeStays
    <2>4. MadeInv'
      BY <1>1, <2>1, <2>3 DEF MadeInv
    <2>5. SplitInv'
      BY <1>1, <2>1 DEF SplitInv
    <2>6. PaintReachesVerts'
      BY <1>1, <2>1 DEF PaintReachesVerts
    <2> QED  BY <1>1, <2>2, <2>4, <2>5, <2>6 DEF WayInv
  <1> QED  BY <1>3, <1>4, <1>5, <1>6, <1>7, <1>8, <1>9, <1>10 DEF Next

\* ... and so holds always.
LEMMA WayHolds == Spec => []WayInv
  BY WayInit, WayNext, PTL DEF Spec

-----------------------------------------------------------------------------
(* What follows of it.                                                     *)

\* The arrays of a primitive fit each other.
LEMMA TypesAre == WayInv => TypeOK
  <1> SUFFICES ASSUME WayInv  PROVE TypeOK
    OBVIOUS
  <1>1. /\ src \in Sources /\ shows \in 0 .. MaxShows
        /\ phase \in {"new", "idle", "split", "painted"}
        /\ open \in BOOLEAN /\ painted \in BOOLEAN /\ target \in {"zsmesh", "visual"}
    BY DEF WayInv, MeshInv, IInv, LoopInv
  <1>2. Filled(prim)
    BY BlankIs DEF WayInv, MeshInv, Brought
  <1>3. \A i \in DOMAIN prim.vert : prim.vert[i] \in 1 .. Len(prim.pos)
    <2>1. CASE phase = "new"
      <3>1. prim.vert = <<>>
        BY <2>1 DEF WayInv, MeshInv, Blank
      <3> QED  BY <3>1
    <2>2. CASE phase # "new"
      <3>1. /\ shown \in MeshTimes(src)
            /\ prim.vert = VertAt(src, shown) /\ prim.pos = PosAt(src, shown)
        BY <2>2 DEF WayInv, MeshInv, Brought, Shaped
      <3>2. PICK vert, pos : vert = prim.vert /\ pos = prim.pos
        OBVIOUS
      <3>3. vert \in Seq(1 .. Len(pos))
        BY <1>1, <3>1, <3>2, SourceIs
      <3> QED  BY <3>2, <3>3
    <2> QED  BY <2>1, <2>2
  <1>4. shown \in Times \cup {NaN} \cup DOMAIN [t \in ToSet(frames.global) |-> t]
    <2>1. CASE phase = "new"
      BY <2>1 DEF WayInv, MeshInv
    <2>2. CASE phase # "new"
      <3>1. shown \in Times \/ shown = StartOf(src)
        BY <2>2 DEF WayInv, MeshInv, MeshTimes
      <3>2. frames = FramesOf(src)
        BY <2>2 DEF WayInv, MeshInv
      <3>3. StartOf(src) \in {NaN} \cup ToSet(frames.global)
        BY <1>1, <3>2, StartIs DEF FramesOf
      <3> QED  BY <3>1, <3>3
    <2> QED  BY <2>1, <2>2
  <1>5. \A o \in {"points", "verts", "Poly_"} : \A a \in DOMAIN prim.at[o] :
          Len(prim.at[o][a]) = CASE o = "points" -> Len(prim.pos) [] o = "verts" -> Len(prim.vert)
                                 [] o = "Poly_" -> Len(prim.poly)
    BY <1>2 DEF Filled
  <1> QED  BY <1>1, <1>3, <1>4, <1>5 DEF TypeOK

\* Every corner was visited, so a variant carries its value.
LEMMA CarriedIs == WayInv => NothingIsLost
  <1> SUFFICES ASSUME WayInv, phase = "idle", shows > 0,
                      NEW a \in DOMAIN NodeAttribs, NEW v \in UsedVerts
               PROVE  \E n \in DOMAIN Nodes :
                        Nodes[n][1] = prim.vert[v] /\ NodeAttribs[a][n] = AtVertex(a, v)
    BY DEF NothingIsLost
  <1>1. Meshed(prim) /\ Lists(prim, known) /\ Pending(prim, target, known, todo) /\ todo = <<>>
        /\ target \in {"zsmesh", "visual"}
    BY MeshedIs DEF WayInv, SplitInv, IInv, LoopInv
  <1>2. PICK k \in Kinds : \E e \in DOMAIN prim.simple[k] : v \in ToSet(prim.simple[k][e].v)
    BY DEF UsedVerts
  <1>3. PICK e \in DOMAIN prim.simple[k] : v \in ToSet(prim.simple[k][e].v)
    BY <1>2
  <1>4. PICK d \in DOMAIN prim.simple[k][e].v : v = prim.simple[k][e].v[d]
    BY <1>3 DEF ToSet
  <1>5. e \in 1 .. Len(prim.simple[k]) /\ d \in 1 .. Len(prim.simple[k][e].v)
    <2>1. PICK s, P : s = prim.simple[k] /\ P = Prims(Len(prim.vert))
      OBVIOUS
    <2>2. s \in Seq(P) /\ e \in DOMAIN s
      BY <1>1, <2>1 DEF Meshed
    <2>3. e \in 1 .. Len(s) /\ s[e] \in P
      BY <2>2
    <2>4. PICK w : w = s[e].v
      OBVIOUS
    <2>5. w \in Seq(1 .. Len(prim.vert)) /\ d \in DOMAIN w
      BY <1>4, <2>1, <2>3, <2>4 DEF Prims
    <2>6. d \in 1 .. Len(w)
      BY <2>5
    <2> QED  BY <2>1, <2>3, <2>4, <2>6
  <1>6. prim.vert[v] \in 1 .. Len(prim.pos)
    BY <1>1, <1>4, <1>5, CornerIs
  <1>7. ASSUME NEW b \in Heads(prim, target)  PROVE Served(prim, known, b, v)
    <2>1. ToSet(todo) = {}
      <3>1. DOMAIN todo = {}
        BY <1>1
      <3> QED  BY <3>1 DEF ToSet
    <2>2. Done(prim, known, b, k)
      BY <1>1, <2>1 DEF Pending
    <2> QED  BY <1>4, <1>5, <2>2 DEF Done
  <1>8. PICK i : i = prim.vert[v]
    OBVIOUS
  <1>9. a \in ToSet(AttribsOf(target)) /\ a # "vertex"
        /\ NodeAttribs[a] = [n \in 1 .. Len(Nodes) |->
             IF Has(prim, "verts", a) THEN prim.at["verts"][a][Nodes[n][2]]
                                      ELSE prim.at["points"][a][Nodes[n][1]]]
    <2>1. a \in ToSet(AttribsOf(target))
      BY DEF NodeAttribs
    <2>2. a # "vertex"
      BY <1>1, <2>1, AttribsAre
    <2> QED  BY <2>1, <2>2 DEF NodeAttribs
  <1>10. PICK j \in 1 .. Len(known[i]) :
           Has(prim, "verts", a) => prim.at["verts"][a][known[i][j]] = prim.at["verts"][a][v]
    <2>1. CASE Has(prim, "verts", a)
      <3>1. a \in Heads(prim, target)
        BY <1>9, <2>1 DEF Heads, Own, Has
      <3> QED  BY <1>7, <1>8, <1>9, <3>1 DEF Served
    <2>2. CASE ~ Has(prim, "verts", a)
      <3>1. PICK b : b \in Heads(prim, target)
        BY DEF Heads
      <3>2. \E j \in 1 .. Len(known[i]) : TRUE
        BY <1>7, <1>8, <3>1 DEF Served
      <3> QED  BY <2>2, <3>2
    <2> QED  BY <2>1, <2>2
  <1>11. PICK n : n = Offset(i) + j
    OBVIOUS
  <1>12. n \in 1 .. Len(Nodes) /\ Nodes[n] = <<i, known[i][j]>> /\ n \in DOMAIN Nodes
    BY <1>1, <1>6, <1>8, <1>11, NodesAre
  <1>13. Nodes[n][1] = i /\ Nodes[n][2] = known[i][j]
    BY <1>12
  <1>14. NodeAttribs[a][n] = AtVertex(a, v)
    BY <1>8, <1>9, <1>10, <1>12, <1>13, SMTT(20) DEF AtVertex
  <1> QED  BY <1>8, <1>12, <1>13, <1>14

-----------------------------------------------------------------------------
(* What is drawn.                                                          *)

\* Two flattened lists of lists have the same parts: each entry of one of them, and that of the
\* other, is found in the same place of the same part.
SameParts(ss, tt, f, g) ==
  /\ Len(f) = Len(g) /\ Len(f) \in Nat
  /\ \A e \in 1 .. Len(f) : \E i \in 1 .. Len(ss) : \E j \in 1 .. Len(ss[i]) :
       f[e] = ss[i][j] /\ g[e] = tt[i][j]

\* Two lists of lists of the same lengths are laid out alike.
LEMMA FlattenAlike ==
  ASSUME NEW S, NEW ss \in Seq(Seq(S)), NEW T, NEW tt \in Seq(Seq(T)), Len(ss) = Len(tt),
         \A i \in 1 .. Len(ss) : Len(ss[i]) = Len(tt[i]),
         NEW f, f = FlattenSeq(ss), NEW g, g = FlattenSeq(tt)
  PROVE  SameParts(ss, tt, f, g) /\ g \in Seq(T)
  <1>1. Lens(ss) = Lens(tt)
    BY DEF Lens
  <1>3. f \in Seq(S) /\ Len(f) = SumTo(Lens(ss), Len(ss))
    BY FlattenAt
  <1>4. \A i \in 1 .. Len(ss) : \A j \in 1 .. Len(ss[i]) : f[SumTo(Lens(ss), i - 1) + j] = ss[i][j]
    BY FlattenAt
  <1>5. \A e \in 1 .. Len(f) : \E i \in 1 .. Len(ss) :
          \E j \in 1 .. Len(ss[i]) : e = SumTo(Lens(ss), i - 1) + j
    BY FlattenAt
  <1>6. g \in Seq(T) /\ Len(g) = SumTo(Lens(tt), Len(tt))
    BY FlattenAt
  <1>7. \A i \in 1 .. Len(tt) : \A j \in 1 .. Len(tt[i]) : g[SumTo(Lens(tt), i - 1) + j] = tt[i][j]
    BY FlattenAt
  <1>8. ASSUME NEW e \in 1 .. Len(f)
        PROVE  \E i \in 1 .. Len(ss) : \E j \in 1 .. Len(ss[i])
                 : f[e] = ss[i][j] /\ g[e] = tt[i][j]
    <2>1. PICK i \in 1 .. Len(ss) : \E j \in 1 .. Len(ss[i]) : e = SumTo(Lens(ss), i - 1) + j
      BY <1>5
    <2>2. PICK j \in 1 .. Len(ss[i]) : e = SumTo(Lens(ss), i - 1) + j
      BY <2>1
    <2>3. f[e] = ss[i][j]
      BY <1>4, <2>2
    <2>4. i \in 1 .. Len(tt) /\ j \in 1 .. Len(tt[i])
      OBVIOUS
    <2>5. g[SumTo(Lens(tt), i - 1) + j] = tt[i][j]
      BY <1>7, <2>4
    <2>6. g[e] = tt[i][j]
      BY <1>1, <2>2, <2>5
    <2> QED  BY <2>3, <2>6
  <1>9. Len(f) = Len(g) /\ Len(f) \in Nat
    BY <1>1, <1>3, <1>6
  <1> QED  BY <1>6, <1>8, <1>9 DEF SameParts

\* The node of a corner is the first of its point.
LEMMA NodeOfIs ==
  ASSUME Meshed(prim), Lists(prim, known), VariantsDiffer, phase # "painted",
         NEW v, NEW i \in 1 .. Len(prim.pos), i = prim.vert[v], NEW x \in 1 .. Len(known[i])
  PROVE  NodeOf(v) \in 1 .. Len(Nodes) /\ Nodes[NodeOf(v)][1] = i
  <1> DEFINE Suits(j) == known[i][j] = v \/ prim.vert[known[i][j]] = i
             First(j) == Suits(j) /\ \A h \in 1 .. j - 1 : ~ Suits(h)
  <1>1. known[i] \in Seq(1 .. Len(prim.vert)) /\ i \in DOMAIN known
    BY DEF Lists
  <1>2. Len(known[i]) \in Nat /\ DOMAIN known[i] = 1 .. Len(known[i])
    BY <1>1
  <1>3. \A j \in 1 .. Len(known[i]) : Suits(j)
    BY <1>1, <1>2 DEF VariantsDiffer
  <1>4. NodeOf(v) = Offset(i) + CHOOSE j \in 1 .. Len(known[i]) : First(j)
    BY Zenon DEF NodeOf
  <1> HIDE DEF Suits
  <1>5. 1 \in 1 .. Len(known[i]) /\ First(1)
    BY <1>2, <1>3
  <1>6. \A j \in 1 .. Len(known[i]) : First(j) => j = 1
    BY <1>2, <1>3
  <1> HIDE DEF First
  <1>7. (CHOOSE j \in 1 .. Len(known[i]) : First(j)) = 1
    BY <1>5, <1>6
  <1>8. NodeOf(v) = Offset(i) + 1
    BY <1>4, <1>7
  <1>9. Offset(i) + 1 \in 1 .. Len(Nodes) /\ Nodes[Offset(i) + 1] = <<i, known[i][1]>>
    BY <1>5, NodesAre
  <1> QED  BY <1>8, <1>9

\* The triangles of a simple mesh, as positions.
Placed(tris, vert, at) ==
  [e \in 1 .. Len(tris) |-> [d \in 1 .. Len(tris[e].v) |-> at[vert[tris[e].v[d]]]]]

\* The points of a corner have variants.
LEMMA CornersHaveNodes ==
  ASSUME WayInv, phase = "idle", shows > 0, NEW k \in Kinds, NEW e \in 1 .. Len(prim.simple[k]),
         NEW d \in 1 .. Len(prim.simple[k][e].v)
  PROVE  LET v == prim.simple[k][e].v[d]
         IN NodeOf(v) \in 1 .. Len(Nodes) /\ Nodes[NodeOf(v)][1] = prim.vert[v]
            /\ prim.vert[v] \in 1 .. Len(prim.pos)
  <1>1. Meshed(prim) /\ Lists(prim, known) /\ Pending(prim, target, known, todo) /\ todo = <<>>
        /\ VariantsDiffer /\ phase # "painted"
    BY MeshedIs DEF WayInv, SplitInv, IInv
  <1>2. PICK v : v = prim.simple[k][e].v[d]
    OBVIOUS
  <1>3. PICK i : i = prim.vert[v]
    OBVIOUS
  <1>4. i \in 1 .. Len(prim.pos)
    BY <1>1, <1>2, <1>3, CornerIs
  <1>5. PICK b : b \in Heads(prim, target)
    BY DEF Heads
  <1>6. ToSet(todo) = {}
    <2>1. DOMAIN todo = {}
      BY <1>1
    <2> QED  BY <2>1 DEF ToSet
  <1>7. Done(prim, known, b, k)
    BY <1>1, <1>5, <1>6 DEF Pending
  <1>8. Served(prim, known, b, v)
    BY <1>2, <1>7 DEF Done
  <1>9. PICK x \in 1 .. Len(known[i]) : TRUE
    BY <1>3, <1>8 DEF Served
  <1>10. NodeOf(v) \in 1 .. Len(Nodes) /\ Nodes[NodeOf(v)][1] = i
    BY <1>1, <1>3, <1>4, <1>9, NodeOfIs
  <1> QED  BY <1>2, <1>3, <1>4, <1>10

\* What is drawn is the simple mesh, at the positions of its points.
LEMMA DrawnIs ==
  ASSUME WayInv, phase = "idle", shows > 0, HasSkel(src) => open /\ shown # NaN
  PROVE  Drawn(IF target = "zsmesh" THEN zs["Tri_"] ELSE TriMeshOf(visual))
         = Placed(SimpleAt(src, shown)["Tri_"], VertAt(src, shown), RefNodes(src, shown))
  <1>1. PICK tris : tris = prim.simple["Tri_"]
    OBVIOUS
  <1>2. PICK m : m = IF target = "zsmesh" THEN zs["Tri_"] ELSE TriMeshOf(visual)
    OBVIOUS
  <1>3. PICK at : at = [n \in 1 .. Len(Nodes) |-> Position(Nodes[n][1])]
    OBVIOUS
  <1>4. "Tri_" \in Kinds
    BY DEF Kinds
  <1>5. /\ Meshed(prim) /\ prim.simple = SimpleAt(src, shown) /\ prim.vert = VertAt(src, shown)
        /\ prim.pos = PosAt(src, shown) /\ src \in Sources /\ shown \in MeshTimes(src)
        /\ Hangs(prim, src, shown, open)
    BY MeshedIs DEF WayInv, MeshInv, Brought, Shaped
  <1>6. Len(tris) \in Nat
    <2>1. tris \in Seq(Prims(Len(prim.vert)))
      BY <1>1, <1>4, <1>5 DEF Meshed
    <2> QED  BY <2>1
  <1>7. Remapped("Tri_") = [e \in 1 .. Len(tris)
                              |-> [d \in 1 .. Len(tris[e].v) |-> NodeOf(tris[e].v[d])]]
    BY <1>1, Zenon DEF Remapped
  <1>8. m.nodes = at /\ m.elems = Remapped("Tri_")
    <2>1. CASE target = "zsmesh"
      <3>1. shows # 0
        BY DEF WayInv, MeshInv
      <3>2. zs = ZsMeshes
        BY <2>1, <3>1 DEF WayInv, MadeInv
      <3> QED  BY <1>2, <1>3, <1>4, <2>1, <3>2 DEF ZsMeshes
    <2>2. CASE target # "zsmesh"
      <3>1. visual = VisualMesh
        BY <2>2 DEF WayInv, MadeInv, IInv, LoopInv
      <3>2. DOMAIN Blank = {"pos", "vert", "poly", "simple", "at", "global"}
        BY DEF Blank
      <3>3. PICK simple : simple = [k \in Kinds |-> [e \in 1 .. Len(prim.simple[k]) |->
                                                       [v |-> Remapped(k)[e], of |-> 0]]]
        OBVIOUS
      <3>4. visual.pos = at /\ visual.simple = simple
        BY <1>3, <3>1, <3>2, <3>3 DEF VisualMesh
      <3>5. simple["Tri_"] = [e \in 1 .. Len(tris) |-> [v |-> Remapped("Tri_")[e], of |-> 0]]
        BY <1>1, <1>4, <3>3
      <3>6. Len(simple["Tri_"]) = Len(tris)
        BY <1>6, <3>5
      <3>7. m.nodes = visual.pos
            /\ m.elems = [e \in 1 .. Len(visual.simple["Tri_"]) |-> visual.simple["Tri_"][e].v]
        BY <1>2, <2>2 DEF TriMeshOf, VisualTo
      <3>8. m.elems = [e \in 1 .. Len(tris) |-> simple["Tri_"][e].v]
        BY <3>4, <3>6, <3>7
      <3>9. m.elems = [e \in 1 .. Len(tris) |-> Remapped("Tri_")[e]]
        BY <3>5, <3>8
      <3> QED  BY <1>7, <3>4, <3>7, <3>9
    <2> QED  BY <2>1, <2>2
  <1>9. ASSUME NEW e \in 1 .. Len(tris), NEW d \in 1 .. Len(tris[e].v)
        PROVE  at[NodeOf(tris[e].v[d])] = RefNodes(src, shown)[prim.vert[tris[e].v[d]]]
    <2>1. PICK v : v = tris[e].v[d]
      OBVIOUS
    <2>2. PICK i : i = prim.vert[v]
      OBVIOUS
    <2>3. NodeOf(v) \in 1 .. Len(Nodes) /\ Nodes[NodeOf(v)][1] = i /\ i \in 1 .. Len(prim.pos)
      BY <1>1, <1>4, <2>1, <2>2, CornersHaveNodes
    <2>4. at[NodeOf(v)] = Position(i)
      BY <1>3, <2>3
    <2>5. PICK pos, x : pos = PosAt(src, shown) /\ x = Pose(src, shown)
      OBVIOUS
    <2>6. pos \in Seq(Int) /\ i \in 1 .. Len(pos) /\ prim.pos = pos
      BY <1>5, <2>3, <2>5, SourceIs
    <2>7. Position(i) = RefNodes(src, shown)[i]
      <3>1. CASE HasSkel(src)
        <4>1. Position(i) = pos[i] + x
          BY <1>5, <2>5, <2>6, <3>1 DEF Hangs, Position
        <4>2. RefNodes(src, shown) = [h \in DOMAIN pos |-> pos[h] + x]
          BY <2>5, <3>1 DEF RefNodes, PosAt, HasSkel
        <4> QED  BY <2>6, <4>1, <4>2
      <3>2. CASE ~ HasSkel(src)
        <4>1. Position(i) = pos[i]
          BY <1>5, <2>6, <3>2 DEF Hangs, Position
        <4>2. RefNodes(src, shown) = pos
          BY <2>5, <3>2 DEF RefNodes, PosAt, HasSkel
        <4> QED  BY <4>1, <4>2
      <3> QED  BY <3>1, <3>2
    <2> QED  BY <2>1, <2>2, <2>4, <2>7
  <1>10. Drawn(m) = [e \in 1 .. Len(tris) |->
                       [d \in 1 .. Len(tris[e].v) |-> at[NodeOf(tris[e].v[d])]]]
    <2>1. PICK el : el = m.elems
      OBVIOUS
    <2>2. DOMAIN el = 1 .. Len(tris)
          /\ \A e \in 1 .. Len(tris) : el[e] = [d \in 1 .. Len(tris[e].v) |-> NodeOf(tris[e].v[d])]
      BY <1>7, <1>8, <2>1
    <2>3. \A e \in 1 .. Len(tris) : DOMAIN el[e] = 1 .. Len(tris[e].v)
            /\ \A d \in 1 .. Len(tris[e].v) : el[e][d] = NodeOf(tris[e].v[d])
      BY <2>2
    <2>4. Drawn(m) = [e \in DOMAIN el |-> [d \in DOMAIN el[e] |-> at[el[e][d]]]]
      BY <1>8, <2>1 DEF Drawn
    <2> QED  BY <2>2, <2>3, <2>4
  <1>11. Drawn(m) = Placed(tris, prim.vert, RefNodes(src, shown))
    BY <1>9, <1>10 DEF Placed
  <1> QED  BY <1>1, <1>2, <1>5, <1>11

-----------------------------------------------------------------------------
(* What should be drawn.                                                   *)

\* Sums of ones.
LEMMA Ones ==
  ASSUME NEW n \in Nat, NEW f, \A i \in 1 .. n : f[i] = 1
  PROVE  \A i \in 0 .. n : SumTo(f, i) = i
  <1>1. /\ SumTo(f, 0) = 0
        /\ \A i \in 1 .. n : SumTo(f, i) = SumTo(f, i - 1) + f[i]
    <2>1. \A i \in 1 .. n : f[i] \in Nat
      OBVIOUS
    <2> QED  BY <2>1, SumToIs
  <1> DEFINE B == {i \in 0 .. n : SumTo(f, i) # i}
  <1>2. SUFFICES ASSUME B # {}  PROVE FALSE
    OBVIOUS
  <1>3. B \subseteq Nat
    OBVIOUS
  <1>4. PICK i \in B : \A j \in B : i <= j
    <2> HIDE DEF B
    <2> QED  BY <1>2, <1>3, SmallestNumber
  <1>5. i \in 1 .. n
    BY <1>1
  <1>6. SumTo(f, i - 1) = i - 1
    <2>1. i - 1 \in 0 .. n /\ ~ (i <= i - 1)
      BY <1>5
    <2>2. i - 1 \notin B
      BY <1>4, <2>1
    <2> QED  BY <2>1, <2>2
  <1>7. SumTo(f, i) = (i - 1) + 1
    BY <1>1, <1>5, <1>6
  <1>8. SumTo(f, i) = i
    BY <1>5, <1>7
  <1> QED  BY <1>8

\* The first of a list, and the others.
LEMMA TailIs ==
  ASSUME NEW S, NEW s \in Seq(S), s # <<>>
  PROVE  /\ Head(s) \in S /\ Head(s) = s[1]
         /\ Tail(s) \in Seq(S) /\ Len(Tail(s)) = Len(s) - 1 /\ Len(s) - 1 \in Nat
         /\ \A i \in 1 .. Len(s) - 1 : Tail(s)[i] = s[i + 1]
  OBVIOUS

\* A part of a list: n of its entries, from off on.
IsPart(S, ids, off, n, face) ==
  face \in Seq(S) /\ Len(face) = n /\ \A i \in 1 .. n : face[i] = ids[off + i]

\* A part of a list is a list of as many entries.
LEMMA PartIs ==
  ASSUME NEW S, NEW ids \in Seq(S), NEW off \in Nat, NEW n \in Nat, off + n <= Len(ids),
         NEW face, face = SubSeq(ids, off + 1, off + n)
  PROVE  IsPart(S, ids, off, n, face)
  <1>1. \A i \in off + 1 .. off + n : ids[i] \in S
    OBVIOUS
  <1>2. face = [i \in 1 .. n |-> ids[off + i]]
    BY <1>1
  <1>3. \A i \in 1 .. n : ids[off + i] \in S
    OBVIOUS
  <1> QED  BY <1>2, <1>3 DEF IsPart

\* One list behind the other.
Joined(S, a, b, c) ==
  /\ c \in Seq(S) /\ Len(c) = Len(a) + Len(b)
  /\ \A i \in 1 .. Len(a) : c[i] = a[i]
  /\ \A i \in 1 .. Len(b) : c[Len(a) + i] = b[i]

\* That is what their concatenation is.
LEMMA JoinedIs ==
  ASSUME NEW S, NEW a \in Seq(S), NEW b \in Seq(S), NEW c, c = a \o b
  PROVE  Joined(S, a, b, c)
  BY ConcatIs DEF Joined

\* All elements: one, and then those behind it.
OneThen(S, x, back, all) ==
  /\ all \in Seq(S) /\ Len(all) = 1 + Len(back)
  /\ all[1] = x
  /\ \A i \in 2 .. 1 + Len(back) : all[i] = back[i - 1]

\* That is what a list of one element followed by others is.
LEMMA OneThenIs ==
  ASSUME NEW S, NEW one \in Seq(S), Len(one) = 1, NEW back \in Seq(S), NEW all, all = one \o back
  PROVE  OneThen(S, one[1], back, all)
  <1>1. Joined(S, one, back, all)
    BY JoinedIs
  <1>2. /\ all \in Seq(S) /\ Len(all) = Len(one) + Len(back)
        /\ \A i \in 1 .. Len(one) : all[i] = one[i]
        /\ \A i \in 1 .. Len(back) : all[Len(one) + i] = back[i]
    BY <1>1, Zenon DEF Joined
  <1>3. PICK n \in Nat : n = Len(back)
    OBVIOUS
  <1>4. ASSUME NEW i \in 2 .. 1 + n  PROVE all[i] = back[i - 1]
    <2>1. PICK j : j = i - 1
      OBVIOUS
    <2>2. j \in 1 .. n /\ i = 1 + j
      BY <2>1
    <2>3. all[1 + j] = back[j]
      BY <1>2, <1>3, <2>2
    <2> QED  BY <2>1, <2>2, <2>3
  <1>5. 1 \in 1 .. Len(one)
    OBVIOUS
  <1> QED  BY <1>2, <1>3, <1>4, <1>5, Zenon DEF OneThen

\* The corners of a face of n corners that is turned: the first one stays.
TurnedOf(face, n) == [i \in 1 .. n |-> IF i = 1 THEN face[1] ELSE face[n + 2 - i]]

\* A face that is turned keeps its first corner.
LEMMA TurnedIs ==
  ASSUME NEW S, NEW face \in Seq(S), NEW n \in Nat, n > 0, Len(face) = n,
         NEW turned, turned = <<Head(face)>> \o Reverse(Tail(face))
  PROVE  turned = TurnedOf(face, n)
  <1>1. Len(<<>>) = 0 /\ Len(face) # 0
    OBVIOUS
  <1>2. face # <<>>
    BY <1>1
  <1>3. PICK x : x = Head(face)
    OBVIOUS
  <1>4. PICK rest : rest = Tail(face)
    OBVIOUS
  <1>5. x \in S /\ x = face[1]
    BY <1>2, <1>3, TailIs
  <1>6. rest \in Seq(S) /\ Len(rest) = n - 1 /\ n - 1 \in Nat
        /\ \A i \in 1 .. n - 1 : rest[i] = face[i + 1]
    BY <1>2, <1>4, TailIs
  <1>7. PICK back : back = Reverse(rest)
    OBVIOUS
  <1>8. back = [i \in 1 .. n - 1 |-> rest[n - 1 - i + 1]]
    BY <1>6, <1>7 DEF Reverse
  <1>9. \A i \in 1 .. n - 1 : n - 1 - i + 1 \in 1 .. n - 1
    BY <1>6
  <1>10. \A i \in 1 .. n - 1 : rest[n - 1 - i + 1] \in S
    <2> SUFFICES ASSUME NEW i \in 1 .. n - 1  PROVE rest[n - 1 - i + 1] \in S
      OBVIOUS
    <2>1. PICK h : h = n - 1 - i + 1
      OBVIOUS
    <2>2. h \in 1 .. Len(rest)
      BY <1>6, <1>9, <2>1
    <2>3. rest[h] \in S
      BY <1>6, <2>2
    <2> QED  BY <2>1, <2>3
  <1>11. back \in Seq(S) /\ Len(back) = n - 1
    BY <1>6, <1>8, <1>10
  <1>12. PICK one : one = <<x>>
    OBVIOUS
  <1>13. one \in Seq(S) /\ Len(one) = 1 /\ one[1] = x
    <2>1. one \in Seq({x})
      BY <1>12
    <2>2. Len(one) = 1 /\ one[1] = x
      BY <1>12
    <2>3. {x} \subseteq S
      BY <1>5
    <2>4. one \in Seq(S)
      BY <2>1, <2>3, SeqWiden
    <2> QED  BY <2>2, <2>4
  <1>14. PICK all : all = one \o back
    OBVIOUS
  <1>15. /\ turned = all
         /\ turned \in Seq(S) /\ Len(turned) = 1 + Len(back)
         /\ turned[1] = one[1]
         /\ \A i \in 2 .. 1 + Len(back) : turned[i] = back[i - 1]
    <2>1. turned = all
      BY <1>3, <1>4, <1>7, <1>12, <1>14
    <2>2. OneThen(S, one[1], back, all)
      BY <1>11, <1>13, <1>14, OneThenIs
    <2> QED  BY <2>1, <2>2, Zenon DEF OneThen
  <1>16. /\ Len(turned) = n /\ turned[1] = x
         /\ \A i \in 2 .. n : turned[i] = back[i - 1]
    BY <1>11, <1>13, <1>15
  <1>17. ASSUME NEW i \in 2 .. n  PROVE turned[i] = face[n + 2 - i]
    <2>1. PICK j : j = i - 1
      OBVIOUS
    <2>2. j \in 1 .. n - 1 /\ turned[i] = back[j]
      BY <1>16, <2>1
    <2>3. PICK h : h = n - 1 - j + 1
      OBVIOUS
    <2>4. back[j] = rest[h]
      BY <1>8, <2>2, <2>3
    <2>5. h \in 1 .. n - 1 /\ h + 1 = n + 2 - i
      BY <2>1, <2>2, <2>3
    <2>6. rest[h] = face[h + 1]
      BY <1>6, <2>5
    <2> QED  BY <2>2, <2>4, <2>5, <2>6
  <1>19. turned = [i \in 1 .. n |-> turned[i]]
    BY <1>15, <1>16
  <1>20. \A i \in 1 .. n : turned[i] = IF i = 1 THEN face[1] ELSE face[n + 2 - i]
    BY <1>5, <1>16, <1>17
  <1> QED  BY <1>19, <1>20 DEF TurnedOf

\* The faces of a source have its corners.
LEMMA FacesAre ==
  ASSUME NEW s \in Sources, s.form \in {"usd", "trimesh"}, NEW t \in MeshTimes(s)
  PROVE  LET faces == RefFaces(s, t)
             sizes == SizesAt(s, t)
         IN /\ DOMAIN faces = 1 .. Len(sizes)
            /\ \A f \in 1 .. Len(sizes) :
                 /\ Len(faces[f]) = sizes[f]
                 /\ \A i \in 1 .. sizes[f] : faces[f][i] = CornerAt(s, t, f, i)
  <1>1. CASE s.form = "usd"
    <2>1. PICK sizes, ids : sizes = AsOf(s.counts, t) /\ ids = AsOf(s.indices, t)
      OBVIOUS
    <2>2. PICK S : S = 1 .. Len(AsOf(s.points, t))
      OBVIOUS
    <2>3. sizes \in Seq(Nat) /\ ids \in Seq(S) /\ Len(ids) = SumTo(sizes, Len(sizes))
          /\ s.left \in BOOLEAN
      BY <1>1, <2>1, <2>2, UsdIs
    <2>4. PICK poly : poly = Polys(sizes)
      OBVIOUS
    <2>5. /\ poly \in Seq(Ranges) /\ Len(poly) = Len(sizes)
          /\ \A f \in 1 .. Len(sizes) : /\ poly[f].size = sizes[f]
                                        /\ poly[f].off = SumTo(sizes, f - 1)
                                        /\ poly[f].off + poly[f].size <= SumTo(sizes, Len(sizes))
      BY <2>3, <2>4, PolysAre
    <2>6. SizesAt(s, t) = sizes
      BY <1>1, <2>1 DEF SizesAt
    <2> DEFINE Face(f) == SubSeq(ids, FaceStart(sizes, f) + 1, FaceStart(sizes, f) + sizes[f])
               Turned(f) == <<Head(Face(f))>> \o Reverse(Tail(Face(f)))
               faces == [f \in DOMAIN sizes |-> IF s.left /\ sizes[f] > 0
                                 THEN Turned(f) ELSE Face(f)]
    <2>7. RefFaces(s, t) = faces
      BY <1>1, <2>1, Zenon DEF RefFaces
    <2>8. DOMAIN sizes = 1 .. Len(sizes)
      BY <2>3
    <2>9. ASSUME NEW f \in 1 .. Len(sizes)
          PROVE  /\ Len(faces[f]) = sizes[f]
                 /\ \A i \in 1 .. sizes[f] : faces[f][i] = CornerAt(s, t, f, i)
      <3>1. PICK off, n : off = poly[f].off /\ n = sizes[f]
        OBVIOUS
      <3>2. off = FaceStart(sizes, f) /\ poly[f].size = n
        BY <2>5, <3>1 DEF FaceStart
      <3>3. off \in Nat /\ n \in Nat /\ off + n <= Len(ids)
        <4>1. poly[f] \in Ranges
          BY <2>5
        <4>2. off \in Nat /\ n \in Nat
          BY <3>1, <3>2, <4>1 DEF Ranges
        <4> QED  BY <2>3, <2>5, <3>1, <4>2
      <3>4. PICK face : face = SubSeq(ids, off + 1, off + n)
        OBVIOUS
      <3>5. PICK turned : turned = <<Head(face)>> \o Reverse(Tail(face))
        OBVIOUS
      <3>6. face \in Seq(S) /\ Len(face) = n /\ \A i \in 1 .. n : face[i] = ids[off + i]
        <4>1. IsPart(S, ids, off, n, face)
          BY <2>3, <3>3, <3>4, PartIs
        <4> QED  BY <4>1 DEF IsPart
      <3>7. ASSUME n > 0
            PROVE  /\ Len(turned) = n
                   /\ \A i \in 1 .. n : turned[i] = ids[IF i > 1 THEN off + n + 2 - i ELSE off + i]
        <4>0. turned = TurnedOf(face, n)
          BY <3>3, <3>5, <3>6, <3>7, TurnedIs
        <4>1. Len(turned) = n
          BY <3>3, <4>0 DEF TurnedOf
        <4>2. turned[1] = face[1] /\ \A i \in 2 .. n : turned[i] = face[n + 2 - i]
          BY <3>3, <3>7, <4>0 DEF TurnedOf
        <4>3. ASSUME NEW i \in 1 .. n
              PROVE  turned[i] = ids[IF i > 1 THEN off + n + 2 - i ELSE off + i]
          <5>1. PICK h : h = IF i > 1 THEN n + 2 - i ELSE i
            OBVIOUS
          <5>2. h \in 1 .. n
            BY <3>3, <5>1
          <5>3. off + h = IF i > 1 THEN off + n + 2 - i ELSE off + i
            BY <3>3, <5>1
          <5>4. turned[i] = face[h]
            <6>1. CASE i = 1
              BY <4>2, <5>1, <6>1
            <6>2. CASE i # 1
              <7>1. i \in 2 .. n /\ h = n + 2 - i
                BY <5>1, <6>2
              <7> QED  BY <4>2, <7>1
            <6> QED  BY <6>1, <6>2
          <5>5. face[h] = ids[off + h]
            BY <3>6, <5>2
          <5> QED  BY <5>3, <5>4, <5>5
        <4> QED  BY <4>1, <4>3
      <3>8. Face(f) = face /\ Turned(f) = turned
        BY <3>1, <3>2, <3>4, <3>5, Zenon
      <3> HIDE DEF Face, Turned
      <3>9. faces[f] = IF s.left /\ n > 0 THEN turned ELSE face
        BY <2>8, <3>1, <3>8
      <3>10. \A i : CornerAt(s, t, f, i)
                  = ids[IF s.left /\ i > 1 THEN off + n + 2 - i ELSE off + i]
        BY <1>1, <2>1, <2>4, <3>1, <3>2, Zenon DEF CornerAt
      <3> HIDE DEF faces
      <3>11. CASE s.left
        <4>1. CASE n > 0
          BY <3>1, <3>7, <3>9, <3>10, <3>11, <4>1
        <4>2. CASE ~ (n > 0)
          <5>1. n = 0 /\ 1 .. n = {}
            BY <3>3, <4>2
          <5>2. faces[f] = face
            BY <3>9, <4>2
          <5> QED  BY <3>1, <3>6, <5>1, <5>2
        <4> QED  BY <4>1, <4>2
      <3>12. CASE ~ s.left
        BY <3>1, <3>6, <3>9, <3>10, <3>12
      <3> QED  BY <3>11, <3>12
    <2> HIDE DEF faces
    <2>10. DOMAIN faces = 1 .. Len(sizes)
      BY <2>8 DEF faces
    <2> QED  BY <2>6, <2>7, <2>9, <2>10
  <1>2. CASE s.form = "trimesh"
    <2>1. PICK elems, V : elems = s.elems /\ V = [1 .. 3 -> 1 .. Len(s.nodes)]
      OBVIOUS
    <2>2. elems \in Seq(V)
      BY <1>2, <2>1, SourcesAreMeshes DEF SourcesAreMeshes
    <2>3. Len(elems) \in Nat /\ DOMAIN elems = 1 .. Len(elems)
          /\ \A f \in 1 .. Len(elems) : elems[f] \in V
      BY <2>2
    <2>4. \A f \in 1 .. Len(elems) : Len(elems[f]) = 3
      BY <2>1, <2>3, TripleIs
    <2>5. SizesAt(s, t) = [f \in 1 .. Len(elems) |-> 3]
          /\ Len([f \in 1 .. Len(elems) |-> 3]) = Len(elems)
      BY <1>2, <2>1, <2>3 DEF SizesAt
    <2>6. RefFaces(s, t) = elems /\ \A f, i : CornerAt(s, t, f, i) = elems[f][i]
      BY <1>2, <2>1 DEF RefFaces, CornerAt
    <2> QED  BY <2>3, <2>4, <2>5, <2>6
  <1> QED  BY <1>1, <1>2

\* The triangles of a face, as positions.
TrianglesOf(pos, face) ==
  IF Len(face) < 3 THEN <<>>
  ELSE [j \in 1 .. Len(face) - 2 |-> <<pos[face[1]], pos[face[j + 1]], pos[face[j + 2]]>>]

\* The triangles of a source are those of its faces.
LEMMA RefIs ==
  ASSUME NEW s, NEW t
  PROVE  RefTriangles(s, t)
         = FlattenSeq([f \in DOMAIN RefFaces(s, t)
                        |-> TrianglesOf(RefNodes(s, t), RefFaces(s, t)[f])])
  BY DEF RefTriangles, TrianglesOf

\* The triangles of a face with n corners.
FannedOut(pos, face, n, q) ==
  /\ Len(q) = IF n > 2 THEN n - 2 ELSE 0
  /\ \A j \in 1 .. Len(q) : q[j] = <<pos[face[1]], pos[face[j + 1]], pos[face[j + 2]]>>

\* A face makes two triangles less than it has corners.
LEMMA TrianglesAre ==
  ASSUME NEW pos, NEW face, NEW n \in Nat, Len(face) = n, NEW q, q = TrianglesOf(pos, face)
  PROVE  /\ FannedOut(pos, face, n, q)
         /\ \A T : (\A j \in 1 .. Len(q) : q[j] \in T) => q \in Seq(T)
  <1> DEFINE tri(j) == <<pos[face[1]], pos[face[j + 1]], pos[face[j + 2]]>>
  <1>1. CASE n > 2
    <2>1. PICK m \in Nat : m = n - 2
      BY <1>1
    <2>2. q = [j \in 1 .. m |-> tri(j)]
      <3>1. ~ (Len(face) < 3) /\ Len(face) - 2 = m
        BY <1>1, <2>1
      <3> QED  BY <3>1, Zenon DEF TrianglesOf
    <2> HIDE DEF tri
    <2>3. Len(q) = m /\ \A j \in 1 .. m : q[j] = tri(j)
      BY <2>2
    <2>4. ASSUME NEW T, \A j \in 1 .. Len(q) : q[j] \in T  PROVE q \in Seq(T)
      <3>1. \A j \in 1 .. m : tri(j) \in T
        BY <2>3, <2>4
      <3> QED  BY <2>2, <3>1
    <2> QED  BY <1>1, <2>1, <2>3, <2>4 DEF tri, FannedOut
  <1>2. CASE ~ (n > 2)
    <2>1. q = <<>>
      BY <1>2 DEF TrianglesOf
    <2> QED  BY <1>2, <2>1 DEF FannedOut
  <1> QED  BY <1>1, <1>2

\* What a source draws at a time code, placed, is its triangles.
RefsMeet(s, t) ==
  Placed(SimpleAt(s, t)["Tri_"], VertAt(s, t), RefNodes(s, t)) = RefTriangles(s, t)

\* The triangles of a list of triangles.
LEMMA TrisMeet ==
  ASSUME NEW s \in Sources, s.form = "tris", NEW t
  PROVE  RefsMeet(s, t)
  <1>1. PICK el : el = s.elems
    OBVIOUS
  <1>2. PICK N \in Nat : N = Len(s.nodes)
    <2>1. s.nodes \in Seq(Int)
      BY SourcesAreMeshes DEF SourcesAreMeshes
    <2> QED  BY <2>1
  <1>3. el \in Seq([1 .. 3 -> 1 .. N])
    BY <1>1, <1>2, SourcesAreMeshes DEF SourcesAreMeshes
  <1>4. PICK n \in Nat : n = Len(el)
    BY <1>3
  <1>5. DOMAIN el = 1 .. n /\ \A e \in 1 .. n : el[e] \in [1 .. 3 -> 1 .. N]
    BY <1>3, <1>4
  <1>6. \A e \in 1 .. n : Len(el[e]) = 3
    BY <1>5, TripleIs
  <1>7. PICK pos : pos = RefNodes(s, t)
    OBVIOUS
  <1>8. RefFaces(s, t) = el
    BY <1>1 DEF RefFaces
  <1> DEFINE tri(e) == <<pos[el[e][1]], pos[el[e][2]], pos[el[e][3]]>>
             tt == [f \in 1 .. n |-> TrianglesOf(pos, el[f])]
             T == {tri(e) : e \in 1 .. n}
  <1>9. RefTriangles(s, t) = FlattenSeq(tt)
    BY <1>5, <1>7, <1>8, RefIs
  <1>10. ASSUME NEW e \in 1 .. n  PROVE tt[e] \in Seq(T) /\ Len(tt[e]) = 1 /\ tt[e][1] = tri(e)
    <2>1. PICK face, q : face = el[e] /\ q = TrianglesOf(pos, face)
      OBVIOUS
    <2>2. PICK k \in Nat : k = 3
      OBVIOUS
    <2>3. Len(face) = k
      BY <1>6, <2>1, <2>2
    <2>4. /\ Len(q) = IF k > 2 THEN k - 2 ELSE 0
          /\ \A j \in 1 .. Len(q) : q[j] = <<pos[face[1]], pos[face[j + 1]], pos[face[j + 2]]>>
      <3>1. FannedOut(pos, face, k, q)
        BY <2>1, <2>3, TrianglesAre
      <3> QED  BY <3>1 DEF FannedOut
    <2>5. (\A j \in 1 .. Len(q) : q[j] \in T) => q \in Seq(T)
      <3> HIDE DEF T
      <3> QED  BY <2>1, <2>3, TrianglesAre
    <2>6. Len(q) = 1
      BY <2>2, <2>4
    <2>7. q[1] = <<pos[face[1]], pos[face[2]], pos[face[3]]>>
      <3>1. PICK a, b \in Nat : a = 2 /\ b = 3
        OBVIOUS
      <3>2. PICK j \in 1 .. Len(q) : j = 1 /\ j + 1 = a /\ j + 2 = b
        BY <2>6, <3>1
      <3>3. q[j] = <<pos[face[1]], pos[face[j + 1]], pos[face[j + 2]]>>
        BY <2>4
      <3> QED  BY <3>1, <3>2, <3>3, Zenon
    <2>8. q[1] = tri(e)
      BY <2>1, <2>7
    <2>9. \A j \in 1 .. Len(q) : q[j] \in T
      <3>1. \A j \in 1 .. Len(q) : j = 1
        BY <2>6
      <3>2. q[1] \in T
        BY <2>8
      <3> QED  BY <3>1, <3>2
    <2>10. tt[e] = q
      BY <2>1
    <2> HIDE DEF tt, T
    <2> QED  BY <2>5, <2>6, <2>8, <2>9, <2>10
  <1> HIDE DEF T, tri
  <1>11. tt \in Seq(Seq(T)) /\ Len(tt) = n
    <2>1. tt = [f \in 1 .. n |-> tt[f]]
      OBVIOUS
    <2> HIDE DEF tt
    <2>2. tt \in [1 .. n -> Seq(T)]
      BY <1>10, <2>1
    <2> QED  BY <2>2
  <1> HIDE DEF tt
  <1>12. PICK ss : ss = tt
    OBVIOUS
  <1>13. PICK f : f = Lens(ss)
    OBVIOUS
  <1>14. \A i \in 1 .. n : f[i] = 1
    BY <1>10, <1>11, <1>12, <1>13 DEF Lens
  <1>15. \A i \in 0 .. n : SumTo(f, i) = i
    BY <1>14, Ones
  <1>16. PICK flat : flat = FlattenSeq(ss)
    OBVIOUS
  <1>17. ss \in Seq(Seq(T)) /\ flat \in Seq(T) /\ Len(flat) = SumTo(Lens(ss), Len(ss))
    BY <1>11, <1>12, <1>16, FlattenAt
  <1>18. Len(flat) = n
    BY <1>11, <1>12, <1>13, <1>15, <1>17
  <1>19. ASSUME NEW e \in 1 .. n  PROVE flat[e] = tri(e)
    <2>1. PICK i : i = e - 1
      OBVIOUS
    <2>2. i \in 0 .. n /\ i + 1 = e
      BY <2>1
    <2>3. SumTo(f, i) = i
      BY <1>15, <2>2
    <2>4. e \in 1 .. Len(ss) /\ 1 \in 1 .. Len(ss[e])
      BY <1>10, <1>11, <1>12
    <2>5. flat[SumTo(f, i) + 1] = ss[e][1]
      <3>1. FlattenSeq(ss)[SumTo(Lens(ss), e - 1) + 1] = ss[e][1]
        BY <1>17, <2>4, FlattenAt
      <3> QED  BY <1>13, <1>16, <2>1, <3>1
    <2> QED  BY <1>10, <1>12, <2>2, <2>3, <2>5
  <1>20. flat = [e \in 1 .. n |-> tri(e)]
    BY <1>17, <1>18, <1>19
  <1>21. PICK tris, vert : tris = SimpleAt(s, t)["Tri_"] /\ vert = VertAt(s, t)
    OBVIOUS
  <1>22. /\ tris = [e \in 1 .. n |-> [v |-> el[e], of |-> 0]]
         /\ vert = [i \in 1 .. N |-> i]
    BY <1>1, <1>2, <1>4, <1>21 DEF SimpleAt, VertAt, Kinds
  <1>23. Len(tris) = n /\ \A e \in 1 .. n : tris[e].v = el[e]
    BY <1>22
  <1>24. Placed(tris, vert, pos) = [e \in 1 .. n |-> [d \in 1 .. 3 |-> pos[vert[el[e][d]]]]]
    BY <1>6, <1>23 DEF Placed
  <1>25. ASSUME NEW e \in 1 .. n  PROVE [d \in 1 .. 3 |-> pos[vert[el[e][d]]]] = tri(e)
    <2>1. PICK x : x = el[e]
      OBVIOUS
    <2>2. x[1] \in 1 .. N /\ x[2] \in 1 .. N /\ x[3] \in 1 .. N
      BY <1>5, <2>1
    <2>3. vert[x[1]] = x[1] /\ vert[x[2]] = x[2] /\ vert[x[3]] = x[3]
      BY <1>22, <2>2
    <2>4. [d \in 1 .. 3 |-> pos[vert[x[d]]]]
              = <<pos[vert[x[1]]], pos[vert[x[2]]], pos[vert[x[3]]]>>
      OBVIOUS
    <2> QED  BY <2>1, <2>3, <2>4 DEF tri
  <1>26. Placed(tris, vert, pos) = flat
    BY <1>20, <1>24, <1>25
  <1> QED  BY <1>7, <1>9, <1>12, <1>16, <1>21, <1>26 DEF RefsMeet

\* The triangles of a mesh with polygons.
LEMMA PolysMeet ==
  ASSUME NEW s \in Sources, s.form \in {"usd", "trimesh"}, NEW t \in MeshTimes(s)
  PROVE  RefsMeet(s, t)
  <1>1. PICK sizes, poly, vert, faces, pos :
          /\ sizes = SizesAt(s, t) /\ poly = TopoAt(s, t).face /\ vert = TopoAt(s, t).index
          /\ faces = RefFaces(s, t) /\ pos = RefNodes(s, t)
    OBVIOUS
  <1>2. /\ sizes \in Seq(Nat) /\ poly = Polys(sizes)
        /\ Len(vert) = SumTo(sizes, Len(sizes))
        /\ \A f \in 1 .. Len(sizes) : \A i \in 1 .. sizes[f] :
             vert[poly[f].off + i] = CornerAt(s, t, f, i)
    BY <1>1, TopoIs
  <1>3. PICK n, m \in Nat : n = Len(sizes) /\ m = Len(vert)
    <2>1. Len(sizes) \in Nat /\ SumTo(sizes, Len(sizes)) \in Nat
      BY <1>2, PolysAre
    <2> QED  BY <1>2, <2>1
  <1>4. n \in Nat /\ \A f \in 1 .. n : sizes[f] \in Nat
    BY <1>2, <1>3
  <1>5. /\ poly \in Seq(Ranges) /\ Len(poly) = n
        /\ \A f \in 1 .. n : poly[f].size = sizes[f] /\ poly[f].off + poly[f].size <= m
    BY <1>2, <1>3, PolysAre
  <1>6. \A f \in 1 .. n : poly[f] \in Ranges
    BY <1>5
  <1>7. /\ DOMAIN faces = 1 .. n
        /\ \A f \in 1 .. n : /\ Len(faces[f]) = sizes[f]
                             /\ \A i \in 1 .. sizes[f] : faces[f][i] = CornerAt(s, t, f, i)
    BY <1>1, <1>3, FacesAre
  <1>8. \A f \in 1 .. n : \A i \in 1 .. sizes[f] : faces[f][i] = vert[poly[f].off + i]
    BY <1>2, <1>3, <1>7
  <1> DEFINE ss == PartsOf(poly, "Tri_")
             tt == [f \in 1 .. n |-> TrianglesOf(pos, faces[f])]
             P == Prims(m)
             T == UNION {{tt[f][j] : j \in 1 .. Len(tt[f])} : f \in 1 .. n}
  <1>9. RefTriangles(s, t) = FlattenSeq(tt)
    BY <1>1, <1>7, RefIs
  <1>10. "Tri_" \in Kinds
    BY DEF Kinds
  <1>11. ss \in Seq(Seq(P)) /\ Len(ss) = n
    BY <1>3, <1>5, <1>10, PartsAre
  <1>12. ASSUME NEW f \in 1 .. n
         PROVE  /\ Len(tt[f]) = IF sizes[f] > 2 THEN sizes[f] - 2 ELSE 0
                /\ \A j \in 1 .. Len(tt[f]) :
                     tt[f][j] = <<pos[faces[f][1]], pos[faces[f][j + 1]], pos[faces[f][j + 2]]>>
                /\ tt[f] \in Seq(T)
    <2>1. PICK face, q, z : face = faces[f] /\ q = TrianglesOf(pos, face) /\ z = sizes[f]
      OBVIOUS
    <2>2. z \in Nat /\ Len(face) = z
      BY <1>4, <1>7, <2>1
    <2>3. /\ Len(q) = IF z > 2 THEN z - 2 ELSE 0
          /\ \A j \in 1 .. Len(q) : q[j] = <<pos[face[1]], pos[face[j + 1]], pos[face[j + 2]]>>
      <3>1. FannedOut(pos, face, z, q)
        BY <2>1, <2>2, TrianglesAre
      <3> QED  BY <3>1 DEF FannedOut
    <2>4. (\A j \in 1 .. Len(q) : q[j] \in T) => q \in Seq(T)
      <3> HIDE DEF T
      <3> QED  BY <2>1, <2>2, TrianglesAre
    <2>5. tt[f] = q
      BY <2>1
    <2> HIDE DEF tt
    <2>6. \A j \in 1 .. Len(q) : q[j] \in T
      BY <2>5
    <2> HIDE DEF T
    <2> QED  BY <2>1, <2>3, <2>4, <2>5, <2>6
  <1>13. tt \in Seq(Seq(T)) /\ Len(tt) = n
    <2>1. tt = [f \in 1 .. n |-> tt[f]]
      OBVIOUS
    <2> HIDE DEF tt, T
    <2>2. tt \in [1 .. n -> Seq(T)]
      BY <1>12, <2>1
    <2> QED  BY <1>4, <2>2
  <1> HIDE DEF tt, T
  <1>14. ASSUME NEW f \in 1 .. n
         PROVE  /\ Len(ss[f]) = Len(tt[f])
                /\ \A j \in 1 .. Len(ss[f]) :
                     tt[f][j] = [d \in 1 .. Len(ss[f][j].v) |-> pos[vert[ss[f][j].v[d]]]]
    <2>1. PICK g \in Ranges : g = poly[f]
      BY <1>6
    <2>2. PICK o, z : o = g.off /\ z = g.size
      OBVIOUS
    <2>3. o \in Nat /\ z \in Nat /\ z = sizes[f] /\ o + z <= m
      BY <1>5, <2>1, <2>2 DEF Ranges
    <2>4. CASE z \in {1, 2}
      <3>1. KindOf(g) # "Tri_"
        BY <2>2, <2>4 DEF KindOf
      <3>2. ss[f] = <<>>
        BY <1>5, <2>1, <3>1 DEF PartsOf
      <3>3. Len(ss[f]) = 0
        <4> HIDE DEF ss
        <4> QED  BY <3>2
      <3>4. Len(tt[f]) = 0
        BY <1>12, <2>3, <2>4
      <3> HIDE DEF ss
      <3> QED  BY <3>3, <3>4
    <2>5. CASE z \notin {1, 2}
      <3>1. KindOf(g) = "Tri_"
        BY <2>2, <2>5 DEF KindOf
      <3>2. PICK fan : fan = Fan(g)
        OBVIOUS
      <3>3. /\ Len(fan) = IF z > 2 THEN z - 2 ELSE 0
            /\ \A j \in 1 .. Len(fan) : fan[j] = <<o + 1, o + j + 1, o + j + 2>>
        BY <2>2, <2>3, <3>1, <3>2, FanIs
      <3>4. ss[f] = [j \in 1 .. Len(fan) |-> [v |-> fan[j], of |-> f]]
        BY <1>5, <2>1, <3>1, <3>2 DEF PartsOf
      <3> HIDE DEF ss
      <3>5. Len(fan) \in Nat
        BY <2>3, <3>3
      <3>6. Len(ss[f]) = Len(fan)
        BY <3>4, <3>5
      <3>7. Len(tt[f]) = Len(fan)
        BY <1>12, <2>3, <3>3
      <3>8. ASSUME NEW j \in 1 .. Len(fan)
            PROVE  tt[f][j] = [d \in 1 .. Len(ss[f][j].v) |-> pos[vert[ss[f][j].v[d]]]]
        <4>1. PICK x : x = ss[f][j].v
          OBVIOUS
        <4>2. x = <<o + 1, o + j + 1, o + j + 2>>
          BY <3>3, <3>4, <4>1
        <4>3. PICK a, b, c : a = o + 1 /\ b = o + j + 1 /\ c = o + j + 2
          OBVIOUS
        <4>4. z > 2 /\ j \in Nat /\ 1 \in 1 .. z /\ j + 1 \in 1 .. z /\ j + 2 \in 1 .. z
          BY <2>3, <3>3, SMTT(20)
        <4>5. b = o + (j + 1) /\ c = o + (j + 2)
          BY <2>3, <4>3, <4>4
        <4>6. faces[f][1] = vert[a] /\ faces[f][j + 1] = vert[b] /\ faces[f][j + 2] = vert[c]
          <5>1. PICK h, i \in 1 .. z : h = j + 1 /\ i = j + 2
            BY <4>4
          <5>2. a = o + 1 /\ b = o + h /\ c = o + i
            BY <4>3, <4>5, <5>1
          <5>3. \A y \in 1 .. z : faces[f][y] = vert[o + y]
            BY <1>8, <2>1, <2>2, <2>3
          <5>4. faces[f][1] = vert[o + 1] /\ faces[f][h] = vert[o + h] /\ faces[f][i] = vert[o + i]
            BY <4>4, <5>3
          <5> QED  BY <5>1, <5>2, <5>4, Zenon
        <4>7. tt[f][j] = <<pos[vert[a]], pos[vert[b]], pos[vert[c]]>>
          BY <1>12, <3>7, <4>6
        <4>8. x = <<a, b, c>>
          BY <4>2, <4>3
        <4>9. [d \in 1 .. Len(x) |-> pos[vert[x[d]]]]
                = <<pos[vert[a]], pos[vert[b]], pos[vert[c]]>>
          BY <4>8
        <4> QED  BY <4>1, <4>7, <4>9
      <3> QED  BY <3>6, <3>7, <3>8
    <2> QED  BY <2>4, <2>5
  <1> HIDE DEF ss
  <1>15. PICK tris, flat : tris = FlattenSeq(ss) /\ flat = FlattenSeq(tt)
    OBVIOUS
  <1>16. /\ Len(tris) = Len(flat) /\ Len(tris) \in Nat /\ flat \in Seq(T)
         /\ \A e \in 1 .. Len(tris) : \E i \in 1 .. Len(ss) : \E j \in 1 .. Len(ss[i]) :
              tris[e] = ss[i][j] /\ flat[e] = tt[i][j]
    <2> HIDE DEF P
    <2>1. \A i \in 1 .. Len(ss) : Len(ss[i]) = Len(tt[i])
      BY <1>11, <1>14
    <2>2. Len(ss) = Len(tt)
      BY <1>11, <1>13
    <2>3. SameParts(ss, tt, tris, flat) /\ flat \in Seq(T)
      BY <1>11, <1>13, <1>15, <2>1, <2>2, FlattenAlike
    <2> QED  BY <2>3, Zenon DEF SameParts
  <1>17. ASSUME NEW e \in 1 .. Len(tris)
         PROVE  flat[e] = [d \in 1 .. Len(tris[e].v) |-> pos[vert[tris[e].v[d]]]]
    <2>1. PICK i \in 1 .. Len(ss) : \E j \in 1 .. Len(ss[i])
               : tris[e] = ss[i][j] /\ flat[e] = tt[i][j]
      BY <1>16
    <2>2. PICK j \in 1 .. Len(ss[i]) : tris[e] = ss[i][j] /\ flat[e] = tt[i][j]
      BY <2>1
    <2>3. i \in 1 .. n
      BY <1>11
    <2>4. tt[i][j] = [d \in 1 .. Len(ss[i][j].v) |-> pos[vert[ss[i][j].v[d]]]]
      BY <1>14, <2>3
    <2> QED  BY <2>2, <2>4, Zenon
  <1>18. Placed(tris, vert, pos) = flat
    <2>1. flat = [e \in 1 .. Len(tris) |-> flat[e]]
      BY <1>16
    <2> QED  BY <1>17, <2>1, Zenon DEF Placed
  <1>19. SimpleAt(s, t)["Tri_"] = tris /\ VertAt(s, t) = vert
    BY <1>1, <1>10, <1>15 DEF SimpleAt, SimpleOf, VertAt, PolyAt, ss
  <1> QED  BY <1>1, <1>9, <1>15, <1>18, <1>19 DEF RefsMeet

\* What is drawn is what the source shows.
LEMMA ShownIs == WayInv => ShownIsCurrent
  <1> SUFFICES ASSUME WayInv, phase = "idle", shows > 0, HasSkel(src) => open /\ shown # NaN
               PROVE  Drawn(IF target = "zsmesh" THEN zs["Tri_"] ELSE TriMeshOf(visual))
                      = RefTriangles(src, shown)
    BY DEF ShownIsCurrent
  <1>1. src \in Sources /\ shown \in MeshTimes(src)
    BY MeshedIs DEF WayInv, MeshInv, Brought, Shaped
  <1>2. PICK s, t : s = src /\ t = shown
    OBVIOUS
  <1>3. RefsMeet(s, t)
    <2>1. s.form \in {"usd", "trimesh", "tris"}
      BY <1>1, <1>2, SourceIs
    <2> QED  BY <1>1, <1>2, <2>1, TrisMeet, PolysMeet
  <1> QED  BY <1>2, <1>3, DrawnIs DEF RefsMeet

-----------------------------------------------------------------------------
(* The theorems.                                                           *)

\* The variants of a point are different vertices of that point, and differ in the property
\* if only one tells them apart: for every source, in any order of the corners in the
\* parallel loops of zs/world/scene/PrimitiveTransform.cpp, and whatever was shown before.
THEOREM PointsAreSplit == Spec => []VariantsDiffer
  <1>1. IInv => VariantsDiffer
    BY DEF IInv
  <1> QED  BY <1>1, InvInit, InvNext, PTL DEF Spec
\* For every source, whatever was shown and painted before: the arrays of a primitive have the
\* lengths of what they belong to, and its vertices are at its points.
THEOREM ArraysFit == Spec => []TypeOK
  BY TypesAre, WayHolds, PTL

\* The loops of zs/world/scene/PrimitiveTransform.cpp visit every corner, in any order: no value
\* that a property has at a corner is lost when its point is split.
THEOREM CornersAreCarried == Spec => []NothingIsLost
  BY CarriedIs, WayHolds, PTL

\* No two nodes stand for the same vertex: when nodes are painted, each of them hands its color
\* to its own vertex (zs/world/scene/PrimitiveOperation.cpp) and none overwrites another.
THEOREM PaintIsHandedOn == Spec => []PaintReachesVerts
  <1>1. WayInv => PaintReachesVerts
    BY DEF WayInv
  <1> QED  BY <1>1, WayHolds, PTL

\* For every source and time code, whatever was shown before and however the loops interleave:
\* the triangles that are shown are those of the source at that time code, with the corners in
\* the order of its orientation, at the positions that its skeleton gives them.
THEOREM CurrentIsShown == Spec => []ShownIsCurrent
  BY ShownIs, WayHolds, PTL

-----------------------------------------------------------------------------
(* Meshes for other programs.                                              *)

\* The triangles that a primitive with polygons makes for a triangle mesh, polygon by polygon.
TrianglesMade(poly, vert) ==
  [f \in 1 .. Len(poly) |->
     IF poly[f].size < 3 THEN <<>>
     ELSE [j \in 1 .. Len(Fan(poly[f])) |-> [d \in 1 .. 3 |-> vert[Fan(poly[f])[j][d]]]]]

\* They are those of its simple mesh, at the points that the vertices name.
LEMMA TrianglesPlaced ==
  ASSUME NEW n \in Nat, NEW vert \in Seq(1 .. n), NEW poly \in Seq(Ranges),
         \A f \in 1 .. Len(poly) : poly[f].off + poly[f].size <= Len(vert),
         NEW elems, elems = FlattenSeq(TrianglesMade(poly, vert)),
         NEW tris, tris = FlattenSeq(PartsOf(poly, "Tri_")), NEW pos
  PROVE  [e \in DOMAIN elems |-> [d \in DOMAIN elems[e] |-> pos[elems[e][d]]]]
         = Placed(tris, vert, pos)
  <1>1. PICK m, k \in Nat : m = Len(vert) /\ k = Len(poly)
    OBVIOUS
  <1>2. /\ \A f \in 1 .. k : poly[f] \in Ranges /\ poly[f].off + poly[f].size <= m
        /\ \A x \in 1 .. m : vert[x] \in 1 .. n
    BY <1>1
  <1> DEFINE ss == PartsOf(poly, "Tri_")
             tt == TrianglesMade(poly, vert)
             P == Prims(m)
             T == [1 .. 3 -> 1 .. n]
  <1>3. ss \in Seq(Seq(P)) /\ Len(ss) = k
    <2>1. "Tri_" \in Kinds
      BY DEF Kinds
    <2> QED  BY <1>1, <2>1, PartsAre
  <1>4. tt = [f \in 1 .. k |-> tt[f]]
    BY <1>1 DEF TrianglesMade
  <1>5. ASSUME NEW f \in 1 .. k
        PROVE  /\ Len(ss[f]) = Len(tt[f]) /\ tt[f] \in Seq(T)
               /\ \A j \in 1 .. Len(ss[f]) :
                    /\ Len(ss[f][j].v) = 3
                    /\ \A d \in 1 .. 3 : tt[f][j][d] = vert[ss[f][j].v[d]]
    <2>1. PICK g \in Ranges : g = poly[f]
      BY <1>2
    <2>2. PICK o, z : o = g.off /\ z = g.size
      OBVIOUS
    <2>3. o \in Nat /\ z \in Nat /\ o + z <= m
      BY <1>2, <2>1, <2>2 DEF Ranges
    <2>4. CASE z \in {1, 2}
      <3>1. KindOf(g) # "Tri_"
        BY <2>2, <2>4 DEF KindOf
      <3>2. ss[f] = <<>>
        BY <1>1, <2>1, <3>1 DEF PartsOf
      <3>3. tt[f] = <<>>
        BY <1>1, <2>1, <2>2, <2>4 DEF TrianglesMade
      <3> HIDE DEF ss, tt
      <3>4. Len(<<>>) = 0 /\ <<>> \in Seq(T)
        OBVIOUS
      <3> QED  BY <3>2, <3>3, <3>4
    <2>5. CASE z \notin {1, 2}
      <3>1. KindOf(g) = "Tri_"
        BY <2>2, <2>5 DEF KindOf
      <3>2. PICK fan : fan = Fan(g)
        OBVIOUS
      <3>3. /\ Len(fan) = IF z > 2 THEN z - 2 ELSE 0
            /\ \A j \in 1 .. Len(fan) : fan[j] = <<o + 1, o + j + 1, o + j + 2>>
        BY <2>2, <2>3, <3>1, <3>2, FanIs
      <3>4. ss[f] = [j \in 1 .. Len(fan) |-> [v |-> fan[j], of |-> f]]
        BY <1>1, <2>1, <3>1, <3>2 DEF PartsOf
      <3>5. tt[f] = IF z < 3 THEN <<>>
                    ELSE [j \in 1 .. Len(fan) |-> [d \in 1 .. 3 |-> vert[fan[j][d]]]]
        BY <1>1, <2>1, <2>2, <3>2 DEF TrianglesMade
      <3> HIDE DEF ss, tt
      <3>6. PICK c \in Nat : c = Len(fan)
        BY <2>3, <3>3
      <3>7. tt[f] = [j \in 1 .. c |-> [d \in 1 .. 3 |-> vert[fan[j][d]]]]
        <4>1. CASE z < 3
          <5>1. c = 0 /\ 1 .. c = {}
            BY <2>3, <3>3, <3>6, <4>1
          <5>2. [j \in 1 .. c |-> [d \in 1 .. 3 |-> vert[fan[j][d]]]] = <<>>
            BY <5>1
          <5> QED  BY <3>5, <4>1, <5>2
        <4>2. CASE ~ (z < 3)
          BY <3>5, <3>6, <4>2
        <4> QED  BY <4>1, <4>2
      <3>8. ASSUME NEW j \in 1 .. c
            PROVE  Len(fan[j]) = 3 /\ \A d \in 1 .. 3 : vert[fan[j][d]] \in 1 .. n
        <4>1. z > 2 /\ j \in Nat /\ j <= z - 2
          BY <2>3, <3>3, <3>6
        <4>2. PICK a, b, x : a = o + 1 /\ b = o + j + 1 /\ x = o + j + 2
          OBVIOUS
        <4>3. a \in 1 .. m /\ b \in 1 .. m /\ x \in 1 .. m
          BY <2>3, <4>1, <4>2
        <4>4. fan[j] = <<a, b, x>>
          BY <3>3, <3>6, <4>2
        <4> QED  BY <1>2, <4>3, <4>4
      <3>9. \A j \in 1 .. c : [d \in 1 .. 3 |-> vert[fan[j][d]]] \in T
        BY <3>8
      <3> HIDE DEF T
      <3>10. tt[f] \in Seq(T) /\ Len(tt[f]) = c
        <4>1. PICK q : q = tt[f]
          OBVIOUS
        <4>2. q \in [1 .. c -> T]
          BY <3>7, <3>9, <4>1
        <4>3. q \in Seq(T) /\ Len(q) = c
          BY <4>2
        <4> QED  BY <4>1, <4>3
      <3>11. Len(ss[f]) = c
        BY <3>4, <3>6
      <3> QED  BY <3>4, <3>6, <3>7, <3>8, <3>10, <3>11
    <2> QED  BY <2>4, <2>5
  <1> HIDE DEF ss, tt, T, P
  <1>6. tt \in Seq(Seq(T)) /\ Len(tt) = k
    <2>1. tt \in [1 .. k -> Seq(T)]
      BY <1>4, <1>5
    <2> QED  BY <1>1, <2>1
  <1>7. SameParts(ss, tt, tris, elems) /\ elems \in Seq(T)
    <2>1. tris = FlattenSeq(ss) /\ elems = FlattenSeq(tt)
      BY DEF ss, tt
    <2>2. \A i \in 1 .. Len(ss) : Len(ss[i]) = Len(tt[i])
      BY <1>3, <1>5
    <2> QED  BY <1>3, <1>6, <2>1, <2>2, FlattenAlike
  <1>8. PICK c \in Nat : c = Len(tris) /\ c = Len(elems)
    BY <1>7 DEF SameParts
  <1>9. DOMAIN elems = 1 .. c /\ \A e \in 1 .. c : elems[e] \in T
    BY <1>7, <1>8
  <1>10. ASSUME NEW e \in 1 .. c
         PROVE  Len(tris[e].v) = 3 /\ \A d \in 1 .. 3 : elems[e][d] = vert[tris[e].v[d]]
    <2>1. PICK i \in 1 .. Len(ss) : \E j \in 1 .. Len(ss[i]) :
            tris[e] = ss[i][j] /\ elems[e] = tt[i][j]
      BY <1>7, <1>8 DEF SameParts
    <2>2. PICK j \in 1 .. Len(ss[i]) : tris[e] = ss[i][j] /\ elems[e] = tt[i][j]
      BY <2>1
    <2>3. i \in 1 .. k
      BY <1>3
    <2> QED  BY <1>5, <2>2, <2>3
  <1>11. ASSUME NEW e \in 1 .. c
         PROVE  [d \in DOMAIN elems[e] |-> pos[elems[e][d]]]
                = [d \in 1 .. Len(tris[e].v) |-> pos[vert[tris[e].v[d]]]]
    <2>1. DOMAIN elems[e] = 1 .. 3
      BY <1>9 DEF T
    <2> QED  BY <1>10, <2>1
  <1> QED  BY <1>8, <1>9, <1>11 DEF Placed

\* Read from USD at a time code, where its skeleton moves it, and exported to a triangle mesh, a
\* mesh has the triangles that it has in USD: the fans of all its faces, at the places of its
\* points (assign_usdmesh_to_primitive, primitive_to_trimesh).
THEOREM TrianglesAreExported ==
  ASSUME NEW s \in Sources, s.form = "usd", NEW t \in MeshTimes(s),
         \/ t # NaN
         \/ \A f \in {"points", "counts", "indices"} : TimeSamples(s[f]) = {}
  PROVE  Drawn(ToTriMesh(ImportAt(s, t))) = RefTriangles(s, t)
  <1>1. PICK pos, sizes, ids : pos = AsOf(s.points, t) /\ sizes = AsOf(s.counts, t)
                               /\ ids = AsOf(s.indices, t)
    OBVIOUS
  <1>2. PICK poly, vert : poly = Polys(sizes) /\ vert = Oriented(poly, ids, s.left)
    OBVIOUS
  <1>3. /\ PosAt(s, t) = pos
        /\ TopoAt(s, t).index = vert /\ TopoAt(s, t).face = poly
        /\ VertAt(s, t) = vert /\ PolyAt(s, t) = poly /\ SizesAt(s, t) = sizes
    BY <1>1, <1>2 DEF PosAt, TopoAt, VertAt, PolyAt, SizesAt
  <1>4. /\ pos \in Seq(Int) /\ vert \in Seq(1 .. Len(pos)) /\ sizes \in Seq(Nat)
        /\ Len(vert) = SumTo(sizes, Len(sizes))
    BY <1>3, TopoIs
  <1>5. pos # <<>> /\ sizes # <<>> /\ ids # <<>>
    <2>1. pos # <<>>
      BY <1>3, SourceIs
    <2> QED  BY <1>1, <2>1, UsdIs
  <1>6. PICK p, at : p = ImportAt(s, t) /\ at = RefNodes(s, t)
    OBVIOUS
  <1>7. at = Hanging(s, t)
    BY <1>1, <1>3, <1>6, HangingIs DEF AsOf
  <1>8. /\ p.pos = at /\ p.poly = poly /\ p.vert = vert
        /\ p.global = [f \in 1 .. Len(sizes) |-> <<"Poly_", f>>]
    <2>1. Held(s.points, t) = pos /\ Held(s.counts, t) = sizes /\ Held(s.indices, t) = ids
      BY <1>1 DEF AsOf
    <2>2. Holds(s, t, pos, sizes, ids)
      BY <1>5, <2>1, Zenon DEF Holds
    <2>3. MadeOf(p, at, sizes, ids, s.left)
      BY <1>6, <1>7, <2>2, ImportIs
    <2> QED  BY <1>2, <2>3, Zenon DEF MadeOf
  <1>9. PICK k \in Nat : k = Len(sizes)
    BY <1>4
  <1>10. poly \in Seq(Ranges) /\ Len(poly) = k
        /\ \A f \in 1 .. Len(poly) : poly[f].off + poly[f].size <= Len(vert)
    BY <1>2, <1>4, <1>9, PolysAre
  <1>11. PICK m : m = ToTriMesh(p)
    OBVIOUS
  <1>12. m.nodes = at /\ m.elems = FlattenSeq(TrianglesMade(poly, vert))
    <2> DEFINE Tris(g) == CASE g[1] = "Tri_" -> << p.simple["Tri_"][g[2]].v >>
                            [] g[1] = "Poly_" /\ p.poly[g[2]].size >= 3 ->
                                 [j \in 1 .. Len(Fan(p.poly[g[2]])) |->
                                    [d \in 1 .. 3 |-> p.vert[Fan(p.poly[g[2]])[j][d]]]]
                            [] OTHER -> <<>>
    <2>1. m.nodes = at /\ m.elems = FlattenSeq([i \in 1 .. Len(p.global) |-> Tris(p.global[i])])
      BY <1>8, <1>11 DEF ToTriMesh
    <2>2. Len(p.global) = k
      BY <1>8, <1>9
    <2>3. ASSUME NEW i \in 1 .. k  PROVE Tris(p.global[i]) = TrianglesMade(poly, vert)[i]
      <3>1. p.global[i] = <<"Poly_", i>>
        BY <1>8, <1>9
      <3>2. Tris(<<"Poly_", i>>)
            = IF poly[i].size >= 3
              THEN [j \in 1 .. Len(Fan(poly[i])) |-> [d \in 1 .. 3 |-> vert[Fan(poly[i])[j][d]]]]
              ELSE <<>>
        BY <1>8
      <3>3. poly[i].size \in Nat
        <4>1. poly[i] \in Ranges
          BY <1>10
        <4> QED  BY <4>1 DEF Ranges
      <3>4. poly[i].size >= 3 <=> ~ (poly[i].size < 3)
        BY <3>3
      <3> QED  BY <1>10, <3>1, <3>2, <3>4 DEF TrianglesMade
    <2> HIDE DEF Tris
    <2>4. [i \in 1 .. Len(p.global) |-> Tris(p.global[i])] = TrianglesMade(poly, vert)
      BY <1>10, <2>2, <2>3 DEF TrianglesMade
    <2> QED  BY <2>1, <2>4
  <1>13. PICK tris : tris = FlattenSeq(PartsOf(poly, "Tri_"))
    OBVIOUS
  <1>14. Drawn(m) = Placed(tris, vert, at)
    <2>1. PICK elems : elems = FlattenSeq(TrianglesMade(poly, vert))
      OBVIOUS
    <2>2. PICK n \in Nat : n = Len(pos)
      BY <1>4
    <2>4. vert \in Seq(1 .. n) /\ poly \in Seq(Ranges)
          /\ \A f \in 1 .. Len(poly) : poly[f].off + poly[f].size <= Len(vert)
      BY <1>4, <1>10, <2>2
    <2>3. [e \in DOMAIN elems |-> [d \in DOMAIN elems[e] |-> at[elems[e][d]]]]
          = Placed(tris, vert, at)
      BY <1>13, <2>1, <2>4, TrianglesPlaced
    <2> QED  BY <1>12, <2>1, <2>3 DEF Drawn
  <1>15. SimpleAt(s, t)["Tri_"] = tris
    BY <1>3, <1>13 DEF SimpleAt, SimpleOf, Kinds
  <1>16. RefsMeet(s, t)
    BY PolysMeet
  <1> QED  BY <1>3, <1>6, <1>11, <1>14, <1>15, <1>16 DEF RefsMeet
=============================================================================
