-------------------------- MODULE PythonRefsProofs --------------------------
(***************************************************************************)
(* PythonRefs for any number of calls, commands and references, and any    *)
(* width of the loop's index.  The argument is a balance: an operation of  *)
(* CPython changes the difference between an object's references and the   *)
(* slots that hold it by exactly the reference it takes over.              *)
(***************************************************************************)
EXTENDS PythonRefs, FiniteSetTheorems, TLAPS

Entries == Calls \X Turns
Items   == Calls \X Turns \X (0 .. 3)

(* The names of the objects do not collide.                                 *)
LEMMA Names ==
  /\ Tuples \subseteq Objects /\ Items \subseteq Objects /\ None \in Objects
  /\ Entries \subseteq Tuples
  /\ \A c \in Calls : <<c>> \in Tuples /\ <<c>> \notin Entries
  /\ \A c \in Calls, k \in Turns : <<c, k>> \in Entries
  /\ \A t \in Tuples : t \in Entries \/ \E c \in Calls : t = <<c>>
  /\ \A e \in Entries : \E c \in Calls, k \in Turns : e = <<c, k>>
  /\ \A x \in Items : x \notin Tuples
  /\ None \notin Tuples /\ None \notin Items
  /\ Null \notin Objects /\ Null \notin Tuples /\ Null # None
  <1>1. \A x \in Items : x \notin Tuples
    BY DEF Items, Tuples
  <1>2. \A c : <<c>> \notin Entries
    BY DEF Entries
  <1>3. None \notin Tuples /\ None \notin Items /\ Null \notin Objects
    BY NamesAssumption DEF Items
  <1>4. Tuples \subseteq Objects /\ Items \subseteq Objects /\ None \in Objects
    BY DEF Objects, Items
  <1> QED BY <1>1, <1>2, <1>3, <1>4 DEF Tuples, Entries

-----------------------------------------------------------------------------
(* Counting slots, for any contents f.                                      *)
Slots(f, D, o) ==
    {s \in D \X (0 .. MaxLen + 3) : s[2] \in DOMAIN f[s[1]] /\ f[s[1]][s[2]] = o}

Number(f, o) == Cardinality(Slots(f, Tuples, o))

LEMMA TuplesFinite == IsFiniteSet(Tuples)
  <1>1. IsFiniteSet(Calls) /\ IsFiniteSet(Turns)
    BY RefsAssumption, FS_Interval DEF Calls, Turns
  <1>2. IsFiniteSet(Calls \X Turns)
    BY <1>1, FS_Product
  <1>3. IsFiniteSet({<<c>> : c \in Calls})
    <2> DEFINE T == {<<c>> : c \in Calls}
               f == [c \in Calls |-> <<c>>]
    <2>1. f \in Surjection(Calls, T)
      BY DEF Surjection
    <2> QED BY <1>1, <2>1, FS_Surjection
  <1> QED BY <1>2, <1>3, FS_Union DEF Tuples

LEMMA SlotsFinite ==
  ASSUME NEW f, NEW D \in SUBSET Tuples, NEW o
  PROVE  /\ IsFiniteSet(Slots(f, D, o)) /\ Cardinality(Slots(f, D, o)) \in Nat
         /\ Slots(f, D, o) = {} <=> Cardinality(Slots(f, D, o)) = 0
  <1>1. IsFiniteSet(D)
    BY TuplesFinite, FS_Subset
  <1>2. IsFiniteSet(0 .. MaxLen + 3)
    BY RefsAssumption, FS_Interval
  <1>3. IsFiniteSet(D \X (0 .. MaxLen + 3))
    BY <1>1, <1>2, FS_Product
  <1>4. Slots(f, D, o) \subseteq D \X (0 .. MaxLen + 3)
    BY DEF Slots
  <1>5. IsFiniteSet(Slots(f, D, o))
    BY <1>3, <1>4, FS_Subset
  <1> QED BY <1>5, FS_CardinalityType, FS_EmptySet

(* Emptying the tuples of D takes away the slots of D.                      *)
LEMMA FreedSlots ==
  ASSUME NEW f, NEW D \in SUBSET Tuples, NEW g, NEW o,
         g = [t \in Tuples |-> IF t \in D THEN <<>> ELSE f[t]]
  PROVE  Number(g, o) = Number(f, o) - Cardinality(Slots(f, D, o))
  <1>1. Slots(g, Tuples, o) = Slots(f, Tuples, o) \ Slots(f, D, o)
    BY DEF Slots
  <1>2. Slots(f, D, o) \subseteq Slots(f, Tuples, o)
    BY DEF Slots
  <1>3. Slots(f, Tuples, o) \cap Slots(f, D, o) = Slots(f, D, o)
    BY <1>2
  <1>4. /\ IsFiniteSet(Slots(f, Tuples, o))
        /\ Cardinality(Slots(f, Tuples, o)) \in Nat /\ Cardinality(Slots(f, D, o)) \in Nat
    BY SlotsFinite
  <1> HIDE DEF Slots
  <1>5. Cardinality(Slots(f, Tuples, o) \ Slots(f, D, o))
          = Cardinality(Slots(f, Tuples, o)) - Cardinality(Slots(f, Tuples, o) \cap Slots(f, D, o))
    BY <1>4, FS_Difference
  <1> QED BY <1>1, <1>3, <1>5 DEF Number

(* Filling a slot.                                                          *)
Fills(f, g, t, s, new) ==
    /\ \A u \in Tuples : u # t => g[u] = f[u]
    /\ DOMAIN g[t] = DOMAIN f[t]
    /\ \A v \in DOMAIN f[t] : g[t][v] = IF v = s THEN new ELSE f[t][v]

LEMMA FilledSlot ==
  ASSUME NEW f, DOMAIN f = Tuples, NEW t \in Tuples, NEW s \in 0 .. MaxLen + 3,
         s \in DOMAIN f[t], NEW new, NEW o, NEW g, Fills(f, g, t, s, new)
  PROVE  Number(g, o) = Number(f, o) - (IF f[t][s] = o THEN 1 ELSE 0)
                                     + (IF new = o THEN 1 ELSE 0)
  <1> DEFINE here == <<t, s>>
             S == Slots(f, Tuples, o)
             R == Slots(g, Tuples, o)
  <1>1. IsFiniteSet(S) /\ Cardinality(S) \in Nat
    BY SlotsFinite
  <1>2. here \in S <=> f[t][s] = o
    BY DEF Slots
  <1>3. \A p \in Tuples \X (0 .. MaxLen + 3) : p # here => (p \in R <=> p \in S)
    BY DEF Slots, Fills
  <1>4. here \in R <=> new = o
    BY DEF Slots, Fills
  <1>5. S \subseteq Tuples \X (0 .. MaxLen + 3) /\ R \subseteq Tuples \X (0 .. MaxLen + 3)
    BY DEF Slots
  <1> HIDE DEF here, S, R
  <1>6. R = IF new = o THEN (S \ {here}) \cup {here} ELSE S \ {here}
    BY <1>3, <1>4, <1>5
  <1>7. /\ IsFiniteSet(S \ {here})
        /\ Cardinality(S \ {here}) = IF here \in S THEN Cardinality(S) - 1 ELSE Cardinality(S)
    BY <1>1, FS_RemoveElement
  <1>8. Cardinality((S \ {here}) \cup {here}) = Cardinality(S \ {here}) + 1
    BY <1>7, FS_AddElement
  <1>9. Cardinality(R) = IF new = o THEN Cardinality(S \ {here}) + 1 ELSE Cardinality(S \ {here})
    BY <1>6, <1>8
  <1>10. Cardinality(R) = Cardinality(S) - (IF f[t][s] = o THEN 1 ELSE 0)
                                         + (IF new = o THEN 1 ELSE 0)
    BY <1>1, <1>2, <1>7, <1>9
  <1> QED BY <1>10 DEF Number, S, R

-----------------------------------------------------------------------------
(* The inductive invariant.                                                 *)

Held(o) == held[o] + (IF o \in local THEN 1 ELSE 0) + (IF o \in lost THEN 1 ELSE 0)

(* Owners and references agree, but for the Nones of line 281.              *)
Balanced ==
    /\ \A o \in Objects \ {None} : refs[o] = Number(content, o) + Held(o)
    /\ refs[None] = NoneRefs + Number(content, None) + Held(None) - stored
    /\ up = (refs[None] > 0)

(* A result holds entries, an entry holds items.                            *)
Kinds ==
    /\ \A c \in Calls : Range(content[<<c>>]) \subseteq Entries \cup {Null}
    /\ \A e \in Entries : Range(content[e]) \subseteq Items \cup {None, Null}

(* How many slots of the entry are filled at each point of a turn.          *)
Filled == [exec |-> 0, out |-> 0, err |-> 1, close |-> 2, code |-> 2, signal |-> 3, store |-> 4]

(* The entries that are yet to be made; what is yet to be made is not there.*)
Later(c, k) ==
    \/ c > call
    \/ c = call /\ pc # "idle" /\ (k > turn \/ (k = turn /\ pc = "loop"))

Fresh ==
    /\ \A c \in Calls : c > call => refs[<<c>>] = 0 /\ content[<<c>>] = <<>>
    /\ \A c \in Calls, k \in Turns :
          Later(c, k) => /\ refs[<<c, k>>] = 0 /\ content[<<c, k>>] = <<>>
                         /\ \A s \in 0 .. 3 : refs[<<c, k, s>>] = 0
    /\ pc \in DOMAIN Filled =>
          \A s \in 0 .. 3 : s >= Filled[pc] => refs[<<call, turn, s>>] = 0

(* The tuples of the running call belong to it alone, and are filled as far *)
(* as the call has come.                                                    *)
Current ==
    /\ pc = "idle" => local = {}
    /\ pc # "idle" =>
          /\ call \in Calls
          /\ local = (IF count >= 0 THEN {<<call>>} ELSE {})
                       \cup (IF pc = "loop" THEN {} ELSE {<<call, turn>>})
          /\ \A o \in local : refs[o] = 1
          /\ count >= 0 =>
                /\ DOMAIN content[<<call>>] = 0 .. count - 1
                /\ \A s \in 0 .. count - 1 :
                      s < turn /\ s < IndexModulus => content[<<call>>][s] # Null
    /\ pc \in DOMAIN Filled =>
          /\ i < count /\ turn \in Turns
          /\ DOMAIN content[<<call, turn>>] = 0 .. 3
          /\ \A s \in 0 .. 3 : content[<<call, turn>>][s] = Null <=> s >= Filled[pc]

(* What the program or a tuple owns is whole.                               *)
WholeTuple(t) ==
    /\ Null \notin Range(content[t])
    /\ t \in Entries => DOMAIN content[t] = 0 .. 3

Whole ==
    \A t \in Tuples : held[t] > 0 \/ Number(content, t) > 0 => WholeTuple(t)

IInv == TypeOK /\ Balanced /\ Kinds /\ Fresh /\ Current /\ Whole

-----------------------------------------------------------------------------
LEMMA SlotsWithIs ==
  ASSUME NEW D, NEW o
  PROVE  SlotsWith(D, o) = Slots(content, D, o)
  BY DEF SlotsWith, Slots

LEMMA DoomedTuples ==
  ASSUME NEW r, NEW o
  PROVE  Doomed(r, o) \in SUBSET Tuples
  BY DEF Doomed

LEMMA NumberType ==
  ASSUME NEW f, NEW o
  PROVE  /\ Number(f, o) \in Nat
         /\ Number(f, o) = 0 <=> Slots(f, Tuples, o) = {}
  BY SlotsFinite DEF Number

(* The indexes of a tuple are among those that Slots looks at.              *)
LEMMA Indexes ==
  ASSUME TypeOK, NEW t \in Tuples
  PROVE  DOMAIN content[t] \subseteq 0 .. MaxLen + 3
  <1>1. DOMAIN content[t] \in {{}, 0 .. 3} \/ \E n \in 0 .. MaxLen : DOMAIN content[t] = 0 .. n - 1
    BY DEF TypeOK
  <1>2. MaxLen \in Nat
    BY RefsAssumption
  <1>3. 0 .. 3 \subseteq 0 .. MaxLen + 3 /\ \A n \in 0 .. MaxLen : 0 .. n - 1 \subseteq 0 .. MaxLen + 3
    BY <1>2
  <1> QED BY <1>1, <1>3

(* Giving up a reference to o, and with it what is freed, leaves the        *)
(* balance of every other object.                                           *)
LEMMA DecrefLaw ==
  ASSUME NEW r \in [Objects -> Int], NEW o, NEW q, NEW g,
         q = Decref(r, o), g = Freed(Doomed(r, o))
  PROVE  /\ q \in [Objects -> Int]
         /\ \A x \in Objects : q[x] - Number(g, x)
                                 = r[x] - Number(content, x) - (IF x = o THEN 1 ELSE 0)
         /\ \A x \in Objects : Number(g, x) <= Number(content, x)
  <1> DEFINE D == Doomed(r, o)
             cost(x) == Cardinality(Slots(content, D, x))
  <1>1. \A x : cost(x) \in Nat
    BY SlotsFinite, DoomedTuples
  <1>2. \A x \in Objects : q[x] = r[x] - (IF x = o THEN 1 ELSE 0) - cost(x)
    BY SlotsWithIs DEF Decref
  <1>3. q \in [Objects -> Int]
    BY <1>1, SlotsWithIs DEF Decref
  <1>4. \A x : Number(g, x) = Number(content, x) - cost(x)
    BY FreedSlots, DoomedTuples DEF Freed
  <1>5. \A x : Number(content, x) \in Nat /\ Number(g, x) \in Nat
    BY NumberType
  <1> HIDE DEF D, cost
  <1> QED BY <1>1, <1>2, <1>3, <1>4, <1>5

(* PyTuple_SetItem takes over one reference to o.                           *)
LEMMA SetItemLaw ==
  ASSUME TypeOK, NEW r \in [Objects -> Int], NEW t \in Tuples, NEW s, NEW o \in Objects,
         PyTuple_SetItem(r, t, s, o),
         r[t] = 1 /\ s \in DOMAIN content[t] => t \notin Doomed(r, content[t][s])
  PROVE  /\ refs' \in [Objects -> Int] /\ up' = (refs'[None] > 0)
         /\ \A x \in Objects : refs'[x] - Number(content', x)
                                 = r[x] - Number(content, x) - (IF x = o THEN 1 ELSE 0)
  <1> DEFINE fits == r[t] = 1 /\ s \in DOMAIN content[t]
             gone == IF fits THEN content[t][s] ELSE o
             g == Freed(Doomed(r, gone))
  <1>1. refs' = Decref(r, gone) /\ up' = (refs'[None] > 0)
    BY DEF PyTuple_SetItem, Survives
  <1>2. content' = IF fits THEN [g EXCEPT ![t][s] = o] ELSE g
    BY DEF PyTuple_SetItem
  <1>3. /\ refs' \in [Objects -> Int]
        /\ \A x \in Objects : refs'[x] - Number(g, x)
                                = r[x] - Number(content, x) - (IF x = gone THEN 1 ELSE 0)
    BY <1>1, DecrefLaw
  <1>4. CASE ~fits
    <2>1. gone = o /\ content' = g
      BY <1>2, <1>4
    <2> QED BY <1>1, <1>3, <2>1
  <1>5. CASE fits
    <2>1. gone = content[t][s] /\ content' = [g EXCEPT ![t][s] = o]
      BY <1>2, <1>5
    <2>2. DOMAIN g = Tuples /\ g[t] = content[t]
      BY <1>5, <2>1 DEF Freed
    <2>3. s \in 0 .. MaxLen + 3 /\ s \in DOMAIN g[t]
      BY <1>5, <2>2, Indexes
    <2>4. Fills(g, content', t, s, o)
      BY <2>1, <2>2, Zenon DEF Fills
    <2> HIDE DEF g, gone, fits
    <2>5. ASSUME NEW x \in Objects
          PROVE  Number(content', x) = Number(g, x) - (IF gone = x THEN 1 ELSE 0)
                                                    + (IF o = x THEN 1 ELSE 0)
      <3>1. g[t][s] = gone
        BY <2>1, <2>2
      <3>2. Number(content', x) = Number(g, x) - (IF g[t][s] = x THEN 1 ELSE 0)
                                               + (IF o = x THEN 1 ELSE 0)
        BY <2>2, <2>3, <2>4, FilledSlot
      <3> QED BY <3>1, <3>2
    <2>6. \A x : Number(g, x) \in Nat /\ Number(content, x) \in Nat
      BY NumberType
    <2> QED BY <1>1, <1>3, <2>5, <2>6
  <1> QED BY <1>4, <1>5

(* What is freed has no references any more.                                *)
LEMMA DoomedGone ==
  ASSUME NEW r \in [Objects -> Int], NEW o, NEW t \in Doomed(r, o), TypeOK
  PROVE  Decref(r, o)[t] <= 0
  <1> DEFINE cost == Cardinality(Slots(content, Doomed(r, o), t))
  <1>1. cost \in Nat /\ (Slots(content, Doomed(r, o), t) # {} => cost # 0)
    BY SlotsFinite, DoomedTuples
  <1>2. t \in Tuples /\ t \in Objects /\ r[t] \in Int
    BY DoomedTuples, Names
  <1>3. Decref(r, o)[t] = r[t] - (IF t = o THEN 1 ELSE 0) - cost
    BY <1>2, SlotsWithIs DEF Decref
  <1>4. CASE t = o
    <2>1. r[t] <= 1
      BY <1>2, <1>4 DEF Doomed
    <2> HIDE DEF cost
    <2> QED BY <1>1, <1>2, <1>3, <1>4, <2>1
  <1>5. CASE t # o
    <2>1. o \in Tuples /\ r[t] = 1 /\ o \in Doomed(r, o) /\ t \in Range(content[o])
      BY <1>5 DEF Doomed
    <2>2. PICK s \in DOMAIN content[o] : content[o][s] = t
      BY <2>1 DEF Range
    <2>3. <<o, s>> \in Slots(content, Doomed(r, o), t)
      BY <2>1, <2>2, Indexes DEF Slots
    <2> HIDE DEF cost
    <2> QED BY <1>1, <1>3, <1>5, <2>1, <2>3
  <1> QED BY <1>4, <1>5

-----------------------------------------------------------------------------
LEMMA Types ==
  ASSUME TypeOK
  PROVE  /\ \A x \in Objects : refs[x] \in Int /\ held[x] \in Nat
         /\ \A x \in Tuples : x \in Objects /\ x # None
         /\ \A x \in Items : x \in Objects /\ x # None
         /\ \A x : Number(content, x) \in Nat
         /\ call \in Nat /\ count \in Int /\ turn \in Nat /\ stored \in Nat
         /\ MaxCalls \in Nat /\ MaxRuns \in Nat /\ MaxLen \in Nat /\ NoneRefs \in Nat \ {0}
         /\ i \in 0 .. IndexModulus - 1 /\ i <= turn /\ (turn < IndexModulus => i = turn)
         /\ IndexModulus \in Nat \ {0}
  <1>1. turn \in Nat /\ IndexModulus \in Nat \ {0} /\ call \in Nat /\ count \in Int
    BY RefsAssumption DEF TypeOK
  <1>2. i \in 0 .. IndexModulus - 1 /\ i <= turn /\ (turn < IndexModulus => i = turn)
    BY <1>1 DEF i
  <1> QED BY <1>1, <1>2, Names, NumberType, RefsAssumption DEF TypeOK

(* An object with one reference that a variable of the call owns, and one   *)
(* without references.                                                      *)
LEMMA Alone ==
  ASSUME IInv, NEW o \in local, refs[o] = 1
  PROVE  o \in Tuples /\ Number(content, o) = 0 /\ held[o] = 0 /\ o \notin lost
  <1>1. o \in Tuples /\ o \in Objects /\ o # None /\ held[o] \in Nat /\ Number(content, o) \in Nat
    BY Types DEF IInv, TypeOK
  <1>2. refs[o] = Number(content, o) + Held(o)
    BY <1>1 DEF IInv, Balanced
  <1> QED BY <1>1, <1>2 DEF Held

LEMMA Absent ==
  ASSUME IInv, NEW o \in Objects \ {None}, refs[o] = 0
  PROVE  Number(content, o) = 0 /\ held[o] = 0 /\ o \notin local /\ o \notin lost
  <1>1. held[o] \in Nat /\ Number(content, o) \in Nat
    BY Types DEF IInv
  <1>2. refs[o] = Number(content, o) + Held(o)
    BY DEF IInv, Balanced
  <1> QED BY <1>1, <1>2 DEF Held

(* A new tuple: no slot holds anything yet.                                 *)
NewEffect(t, n) ==
    /\ refs' \in [Objects -> Int]
    /\ \A x \in Objects : refs'[x] = IF x = t THEN 1 ELSE refs[x]
    /\ DOMAIN content' = Tuples
    /\ \A u \in Tuples : u # t => content'[u] = content[u]
    /\ DOMAIN content'[t] = 0 .. n - 1 /\ Range(content'[t]) \subseteq {Null}
    /\ \A v \in 0 .. n - 1 : content'[t][v] = Null
    /\ \A x \in Objects : Number(content', x) = Number(content, x)

LEMMA NewTuple ==
  ASSUME TypeOK, NEW t \in Tuples, content[t] = <<>>, NEW n \in Int, PyTuple_New(t, n)
  PROVE  NewEffect(t, n)
  <1>1. t \in Objects /\ refs' = [refs EXCEPT ![t] = 1] /\ refs \in [Objects -> Int]
    BY Names DEF PyTuple_New, New, TypeOK
  <1>2. content' = [content EXCEPT ![t] = [s \in 0 .. n - 1 |-> Null]] /\ DOMAIN content = Tuples
    BY DEF PyTuple_New, Empty, TypeOK
  <1>3. /\ DOMAIN content' = Tuples
        /\ \A u \in Tuples : u # t => content'[u] = content[u]
        /\ content'[t] = [s \in 0 .. n - 1 |-> Null]
    BY <1>2
  <1>4. /\ DOMAIN content'[t] = 0 .. n - 1 /\ Range(content'[t]) \subseteq {Null}
        /\ \A v \in 0 .. n - 1 : content'[t][v] = Null
    BY <1>3 DEF Range
  <1>5. \A x \in Objects : Slots(content', Tuples, x) = Slots(content, Tuples, x)
    <2>1. ASSUME NEW x \in Objects, NEW p \in Tuples \X (0 .. MaxLen + 3)
          PROVE  p \in Slots(content', Tuples, x) <=> p \in Slots(content, Tuples, x)
      <3>1. x # Null
        BY Names
      <3>2. CASE p[1] = t
        BY <1>4, <3>1, <3>2 DEF Slots
      <3>3. CASE p[1] # t
        BY <1>3, <3>3 DEF Slots
      <3> QED BY <3>2, <3>3
    <2>2. \A x : /\ Slots(content', Tuples, x) \subseteq Tuples \X (0 .. MaxLen + 3)
                 /\ Slots(content, Tuples, x) \subseteq Tuples \X (0 .. MaxLen + 3)
      BY DEF Slots
    <2> HIDE DEF Slots
    <2> QED BY <2>1, <2>2
  <1> QED BY <1>1, <1>3, <1>4, <1>5 DEF NewEffect, Number

(* The new tuple belongs to the variable it is assigned to, and its slots   *)
(* are of the right kind.                                                   *)
LEMMA NewBalance ==
  ASSUME IInv, NEW t \in Tuples, NEW n, refs[t] = 0, NewEffect(t, n),
         local' = local \cup {t}, UNCHANGED <<up, lost, held, stored>>
  PROVE  Balanced'
  <1>1. t \in Objects \ {None}
    BY Names
  <1>2. Number(content, t) = 0 /\ held[t] = 0 /\ t \notin local /\ t \notin lost
    BY <1>1, Absent
  <1>3. \A x \in Objects : /\ refs'[x] = IF x = t THEN 1 ELSE refs[x]
                           /\ Number(content', x) = Number(content, x)
    BY DEF NewEffect
  <1>4. Held(t)' = 1
    BY <1>2 DEF Held
  <1>5. \A x : x # t => Held(x)' = Held(x)
    BY DEF Held
  <1>6. refs'[t] = Number(content', t) + Held(t)'
    BY <1>1, <1>2, <1>3, <1>4
  <1>7. ASSUME NEW x \in Objects \ {None}, x # t
        PROVE  refs'[x] = Number(content', x) + Held(x)'
    <2>1. refs[x] = Number(content, x) + Held(x)
      BY DEF IInv, Balanced
    <2> QED BY <1>3, <1>5, <1>7, <2>1
  <1>8. /\ refs'[None] = refs[None] /\ Number(content', None) = Number(content, None)
        /\ Held(None)' = Held(None)
    BY <1>1, <1>3, <1>5, Names
  <1>9. /\ refs[None] = NoneRefs + Number(content, None) + Held(None) - stored
        /\ up = (refs[None] > 0)
    BY DEF IInv, Balanced
  <1>10. /\ refs'[None] = NoneRefs + Number(content', None) + Held(None)' - stored'
         /\ up' = (refs'[None] > 0)
    BY <1>8, <1>9
  <1>11. \A x \in Objects \ {None} : refs'[x] = Number(content', x) + Held(x)'
    BY <1>6, <1>7
  <1> QED BY <1>10, <1>11 DEF Balanced

LEMMA NewContent ==
  ASSUME IInv, NEW t \in Tuples, NEW n, NewEffect(t, n),
         0 .. n - 1 \in IF t \in Calls \X Turns THEN {{}, 0 .. 3} ELSE {0 .. m - 1 : m \in 0 .. MaxLen}
  PROVE  \A u \in Tuples : /\ Range(content'[u]) \subseteq Objects \cup {Null}
                           /\ DOMAIN content'[u] \in IF u \in Calls \X Turns THEN {{}, 0 .. 3}
                                                   ELSE {0 .. m - 1 : m \in 0 .. MaxLen}
  <1> TAKE u \in Tuples
  <1>1. CASE u = t
    <2>1. DOMAIN content'[t] = 0 .. n - 1 /\ Range(content'[t]) \subseteq {Null}
      BY DEF NewEffect
    <2> QED BY <1>1, <2>1
  <1>2. CASE u # t
    <2>1. content'[u] = content[u]
      BY <1>2 DEF NewEffect
    <2>2. /\ Range(content[u]) \subseteq Objects \cup {Null}
          /\ DOMAIN content[u] \in IF u \in Calls \X Turns THEN {{}, 0 .. 3}
                                  ELSE {0 .. m - 1 : m \in 0 .. MaxLen}
      BY DEF IInv, TypeOK
    <2> QED BY <2>1, <2>2
  <1> QED BY <1>1, <1>2

(* A call begins.                                                           *)
LEMMA CallKeeps ==
  ASSUME IInv, Call
  PROVE  IInv'
  <1>1. /\ pc = "idle" /\ pc' = "loop" /\ up = TRUE /\ call < MaxCalls /\ call' = call + 1 /\ turn' = 0
        /\ count' \in -1 .. MaxLen /\ UNCHANGED <<up, lost, held, stored, blocks>>
    BY DEF Call, At, IInv, TypeOK
  <1>2. call' \in Calls /\ call' > call /\ call' \in Nat /\ call \in Nat /\ local = {}
    BY <1>1, Types DEF IInv, Calls, Current
  <1>12. count' \in Int /\ {MaxLen, MaxCalls, MaxRuns} \subseteq Nat
    BY <1>1, RefsAssumption
  <1>13. call' \in 0 .. MaxCalls /\ turn' \in 0 .. MaxRuns
    BY <1>1, <1>2, <1>12 DEF Calls
  <1> DEFINE t == <<call'>>
  <1>3. t \in Tuples /\ t \in Objects /\ t # None /\ t \notin Entries
    BY <1>2, Names
  <1>4. refs[t] = 0 /\ content[t] = <<>>
    BY <1>2 DEF IInv, Fresh
  <1>5. Number(content, t) = 0 /\ held[t] = 0 /\ t \notin lost
    BY <1>3, <1>4, Absent
  <1>6. \A c \in Calls, k \in Turns : Later(c, k)' => Later(c, k) /\ c > call
    BY <1>1, <1>2 DEF Later, Calls
  <1>7. ~(pc' \in DOMAIN Filled)
    BY <1>1 DEF Filled
  <1>8. CASE count' < 0
    <2>1. UNCHANGED <<refs, content, local>>
      BY <1>8 DEF Call
    <2>2. TypeOK'
      BY <1>1, <1>13, <2>1 DEF IInv, TypeOK
    <2>3. Balanced' /\ Kinds' /\ Whole'
      BY <1>1, <2>1 DEF IInv, Balanced, Kinds, Whole, WholeTuple, Held
    <2>4. Fresh'
      <3>1. \A c \in Calls : c > call' => c > call
        BY <1>2 DEF Calls
      <3> QED BY <1>6, <1>7, <2>1, <3>1 DEF IInv, Fresh
    <2>5. Current'
      <3>1. local' = {} /\ ~(count' >= 0)
        BY <1>2, <1>8, <1>12, <2>1
      <3> QED BY <1>1, <1>2, <1>7, <3>1 DEF Current
    <2> QED BY <2>2, <2>3, <2>4, <2>5 DEF IInv
  <1>9. CASE ~(count' < 0)
    <2>1. PyTuple_New(t, count') /\ local' = {t} /\ count' \in 0 .. MaxLen
      BY <1>1, <1>9, Types DEF Call, IInv
    <2>2. NewEffect(t, count')
      BY <1>1, <1>3, <1>4, <2>1, NewTuple DEF IInv
    <2> HIDE DEF t
    <2>3. TypeOK'
      <3>1. \A u \in Tuples : /\ Range(content'[u]) \subseteq Objects \cup {Null}
                              /\ DOMAIN content'[u] \in IF u \in Calls \X Turns THEN {{}, 0 .. 3}
                                                      ELSE {0 .. n - 1 : n \in 0 .. MaxLen}
        <4>1. 0 .. count' - 1 \in {0 .. m - 1 : m \in 0 .. MaxLen} /\ t \notin Calls \X Turns
          BY <1>3, <2>1 DEF Entries
        <4> QED BY <1>3, <2>2, <4>1, NewContent
      <3>2. local' \subseteq Tuples /\ refs' \in [Objects -> Int] /\ DOMAIN content' = Tuples
        BY <1>3, <2>1, <2>2 DEF NewEffect
      <3> QED BY <1>1, <1>13, <3>1, <3>2 DEF IInv, TypeOK
    <2>4. Balanced'
      BY <1>1, <1>2, <1>3, <1>4, <2>1, <2>2, NewBalance
    <2>5. Kinds'
      BY <1>3, <2>2, Names DEF NewEffect, IInv, Kinds, t
    <2>6. Fresh'
      <3>1. ASSUME NEW c \in Calls, c > call' PROVE refs'[<<c>>] = 0 /\ content'[<<c>>] = <<>>
        <4>1. <<c>> # t /\ <<c>> \in Tuples /\ <<c>> \in Objects /\ c > call
          BY <1>2, <3>1, Names DEF t, Calls
        <4> QED BY <2>2, <4>1 DEF NewEffect, IInv, Fresh
      <3>2. ASSUME NEW c \in Calls, NEW k \in Turns, c > call
            PROVE  /\ refs'[<<c, k>>] = 0 /\ content'[<<c, k>>] = <<>>
                   /\ \A s \in 0 .. 3 : refs'[<<c, k, s>>] = 0
        <4>1. /\ <<c, k>> \in Entries /\ <<c, k>> # t /\ <<c, k>> \in Tuples /\ <<c, k>> \in Objects
              /\ refs[<<c, k>>] = 0 /\ content[<<c, k>>] = <<>>
          BY <1>3, <3>2, Names DEF IInv, Fresh, Later
        <4>2. \A s \in 0 .. 3 : /\ <<c, k, s>> \in Objects /\ <<c, k, s>> # t
                                /\ refs[<<c, k, s>>] = 0
          BY <1>3, <3>2, Names DEF IInv, Fresh, Later, Items
        <4> QED BY <2>2, <4>1, <4>2 DEF NewEffect
      <3> QED BY <1>6, <1>7, <3>1, <3>2 DEF Fresh
    <2>7. Current'
      <3>1. refs'[t] = 1 /\ DOMAIN content'[t] = 0 .. count' - 1 /\ count' >= 0
        BY <1>3, <1>12, <2>1, <2>2 DEF NewEffect
      <3>2. \A s \in 0 .. count' - 1 : ~(s < turn')
        BY <1>1, <1>12
      <3> QED BY <1>1, <1>2, <1>7, <2>1, <3>1, <3>2 DEF Current, t
    <2>8. Whole'
      BY <1>1, <1>3, <1>5, <2>2, Names DEF Whole, WholeTuple, NewEffect, IInv
    <2> QED BY <2>3, <2>4, <2>5, <2>6, <2>7, <2>8 DEF IInv
  <1> QED BY <1>8, <1>9

(* A turn of the loop begins.                                               *)
LEMMA BeginKeeps ==
  ASSUME IInv, Begin
  PROVE  IInv'
  <1>1. /\ pc = "loop" /\ pc' = "exec" /\ LoopTest /\ turn < MaxRuns
        /\ local' = local \cup {<<call, turn>>}
        /\ UNCHANGED <<up, lost, held, stored, blocks, call, count, turn>>
    BY DEF Begin, At, py_command_response
  <1> DEFINE t == <<call, turn>>
  <1>2. call \in Calls /\ turn \in Turns /\ count >= 0 /\ local = {<<call>>}
    BY <1>1, Types DEF IInv, Current, Turns, LoopTest
  <1>3. t \in Tuples /\ t \in Objects /\ t # None /\ t \in Entries /\ t # <<call>>
    BY <1>2, Names
  <1>4. /\ refs[t] = 0 /\ content[t] = <<>> /\ Later(call, turn)
        /\ \A s \in 0 .. 3 : refs[<<call, turn, s>>] = 0
    BY <1>1, <1>2 DEF IInv, Fresh, Later
  <1>5. Number(content, t) = 0 /\ held[t] = 0 /\ t \notin lost /\ t \notin local
    BY <1>3, <1>4, Absent
  <1>6. NewEffect(t, 4)
    BY <1>3, <1>4, NewTuple DEF Begin, py_command_response, IInv
  <1>7. \A c \in Calls, k \in Turns : Later(c, k)' => Later(c, k) /\ <<c, k>> # t
    BY <1>1, <1>2 DEF Later, Calls, Turns
  <1>8. pc' \in DOMAIN Filled /\ Filled[pc'] = 0 /\ pc' # "idle" /\ pc' # "loop"
    BY <1>1 DEF Filled
  <1>9. i' = i /\ i < count
    BY <1>1 DEF i, LoopTest
  <1> HIDE DEF t
  <1>10. TypeOK'
    <2>1. \A u \in Tuples : /\ Range(content'[u]) \subseteq Objects \cup {Null}
                            /\ DOMAIN content'[u] \in IF u \in Calls \X Turns THEN {{}, 0 .. 3}
                                                    ELSE {0 .. n - 1 : n \in 0 .. MaxLen}
      <3>1. 0 .. 4 - 1 \in {{}, 0 .. 3} /\ t \in Calls \X Turns
        BY <1>3 DEF Entries
      <3> QED BY <1>3, <1>6, <3>1, NewContent
    <2>2. local' \subseteq Tuples /\ refs' \in [Objects -> Int] /\ DOMAIN content' = Tuples
      BY <1>1, <1>3, <1>6 DEF NewEffect, IInv, TypeOK, t
    <2> QED BY <1>1, <2>1, <2>2 DEF IInv, TypeOK
  <1>11. Balanced'
    <2>1. local' = local \cup {t}
      BY <1>1 DEF t
    <2> QED BY <1>1, <1>3, <1>4, <1>6, <2>1, NewBalance
  <1>12. Kinds'
    BY <1>3, <1>6, Names DEF NewEffect, IInv, Kinds
  <1>13. Fresh'
    <2>1. ASSUME NEW c \in Calls, c > call PROVE refs'[<<c>>] = 0 /\ content'[<<c>>] = <<>>
      <3>1. <<c>> # t /\ <<c>> \in Tuples /\ <<c>> \in Objects
        BY <1>3, Names
      <3> QED BY <1>6, <2>1, <3>1 DEF NewEffect, IInv, Fresh
    <2>2. ASSUME NEW c \in Calls, NEW k \in Turns, Later(c, k), <<c, k>> # t
          PROVE  /\ refs'[<<c, k>>] = 0 /\ content'[<<c, k>>] = <<>>
                 /\ \A s \in 0 .. 3 : refs'[<<c, k, s>>] = 0
      <3>1. <<c, k>> \in Tuples /\ <<c, k>> \in Objects
        BY Names
      <3>2. \A s \in 0 .. 3 : <<c, k, s>> \in Objects /\ <<c, k, s>> # t
        BY <1>3, Names DEF Items
      <3> QED BY <1>6, <2>2, <3>1, <3>2 DEF NewEffect, IInv, Fresh
    <2>3. \A s \in 0 .. 3 : refs'[<<call, turn, s>>] = 0
      <3>1. \A s \in 0 .. 3 : <<call, turn, s>> \in Objects /\ <<call, turn, s>> # t
        BY <1>2, <1>3, Names DEF Items
      <3> QED BY <1>4, <1>6, <3>1 DEF NewEffect
    <2> QED BY <1>1, <1>7, <2>1, <2>2, <2>3 DEF Fresh
  <1>14. Current'
    <2>1. refs'[t] = 1 /\ refs'[<<call>>] = 1 /\ content'[<<call>>] = content[<<call>>]
      BY <1>1, <1>2, <1>3, <1>6, Names DEF NewEffect, IInv, Current
    <2>2. /\ DOMAIN content'[t] = 0 .. 3
          /\ \A s \in 0 .. 3 : content'[t][s] = Null /\ s >= Filled[pc']
      BY <1>6, <1>8 DEF NewEffect
    <2> QED BY <1>1, <1>2, <1>8, <1>9, <2>1, <2>2 DEF IInv, Current, t
  <1>15. Whole'
    BY <1>1, <1>3, <1>5, <1>6, Names DEF Whole, WholeTuple, NewEffect, IInv
  <1> QED BY <1>10, <1>11, <1>12, <1>13, <1>14, <1>15 DEF IInv

(* The steps that touch no object.                                          *)
LEMMA QuietKeeps ==
  ASSUME IInv, Exec \/ Close
  PROVE  IInv'
  <1>1. /\ UNCHANGED <<up, refs, content, local, lost, held, stored, call, count, turn>>
        /\ \/ pc = "exec" /\ pc' = "out"
           \/ pc = "close" /\ pc' = "code"
    BY DEF Exec, Close, At
  <1>2. /\ pc \in DOMAIN Filled /\ pc' \in DOMAIN Filled /\ Filled[pc'] = Filled[pc]
        /\ pc \notin {"idle", "loop"} /\ pc' \notin {"idle", "loop"}
    BY <1>1 DEF Filled
  <1>3. blocks' \subseteq Blocks
    BY <1>1, <1>2 DEF IInv, TypeOK, Current, Exec, Close, Blocks
  <1>4. TypeOK'
    BY <1>1, <1>3 DEF IInv, TypeOK
  <1>5. Balanced' /\ Kinds' /\ Whole'
    BY <1>1 DEF IInv, Balanced, Kinds, Whole, WholeTuple, Held
  <1>6. Fresh'
    BY <1>1, <1>2 DEF IInv, Fresh, Later
  <1>7. Current'
    BY <1>1, <1>2 DEF IInv, Current, i
  <1> QED BY <1>4, <1>5, <1>6, <1>7 DEF IInv

(* An error return forgets the tuples of the call.                          *)
LEMMA FailKeeps ==
  ASSUME IInv, Fail
  PROVE  IInv'
  <1>1. /\ UNCHANGED <<up, refs, content, held, stored, blocks, call, count, turn>>
        /\ pc = "exec" /\ pc' = "idle" /\ local' = {} /\ lost' = lost \cup local
    BY DEF Fail, At
  <1>2. \A o \in local : o \notin lost
    BY <1>1, Alone DEF IInv, Current
  <1>3. \A o \in Objects : Held(o)' = Held(o)
    BY <1>1, <1>2, Types DEF Held, IInv
  <1>4. TypeOK'
    BY <1>1 DEF IInv, TypeOK
  <1>5. Balanced' /\ Kinds' /\ Whole'
    BY <1>1, <1>3, Names DEF IInv, Balanced, Kinds, Whole, WholeTuple
  <1>6. Fresh'
    BY <1>1 DEF IInv, Fresh, Later, Filled
  <1>7. Current'
    BY <1>1 DEF Current, Filled
  <1> QED BY <1>4, <1>5, <1>6, <1>7 DEF IInv

-----------------------------------------------------------------------------
(* An empty slot of the entry is filled.                                    *)
FillEffect(r, t, s, o) ==
    /\ refs' \in [Objects -> Int] /\ up' = (refs'[None] > 0)
    /\ \A x \in Objects : refs'[x] = r[x]
    /\ DOMAIN content' = Tuples /\ Fills(content, content', t, s, o)
    /\ \A x \in Objects : Number(content', x) = Number(content, x) + IF x = o THEN 1 ELSE 0

LEMMA FillSlot ==
  ASSUME TypeOK, NEW r \in [Objects -> Int], NEW t \in Tuples, NEW s \in DOMAIN content[t],
         content[t][s] = Null, r[t] = 1, NEW o \in Objects, PyTuple_SetItem(r, t, s, o)
  PROVE  FillEffect(r, t, s, o)
  <1>1. Doomed(r, Null) = {}
    BY Names DEF Doomed
  <1>2. DOMAIN Freed({}) = Tuples /\ \A u \in Tuples : Freed({})[u] = content[u]
    BY DEF Freed
  <1>3. /\ refs' = Decref(r, Null) /\ up' = (refs'[None] > 0)
        /\ content' = [Freed(Doomed(r, Null)) EXCEPT ![t][s] = o]
    BY Zenon DEF PyTuple_SetItem, Survives
  <1>4. \A x \in Objects : refs'[x] = r[x]
    <2>1. \A x : SlotsWith({}, x) = {}
      BY DEF SlotsWith
    <2>2. \A x \in Objects : refs'[x] = r[x] - (IF x = Null THEN 1 ELSE 0) - Cardinality(SlotsWith({}, x))
      BY <1>1, <1>3 DEF Decref
    <2>3. \A x \in Objects : x # Null /\ r[x] \in Int
      BY Names
    <2>4. \A x : Cardinality(SlotsWith({}, x)) = 0
      BY <2>1, FS_EmptySet
    <2> QED BY <2>2, <2>3, <2>4
  <1>5. refs' \in [Objects -> Int]
    BY <1>3, DecrefLaw
  <1>6. content' = [Freed({}) EXCEPT ![t][s] = o] /\ DOMAIN content = Tuples
    BY <1>1, <1>3, Zenon DEF TypeOK
  <1>7. DOMAIN content' = Tuples /\ Fills(content, content', t, s, o)
    <2>1. DOMAIN content' = Tuples /\ Fills(Freed({}), content', t, s, o)
      BY <1>2, <1>6, Zenon DEF Fills
    <2> QED BY <1>2, <2>1 DEF Fills
  <1>8. ASSUME NEW x \in Objects
        PROVE  Number(content', x) = Number(content, x) + IF x = o THEN 1 ELSE 0
    <2>1. content[t][s] # x /\ s \in 0 .. MaxLen + 3
      BY Names, Indexes
    <2>2. Number(content', x) = Number(content, x) - (IF content[t][s] = x THEN 1 ELSE 0)
                                                   + (IF o = x THEN 1 ELSE 0)
      BY <1>6, <1>7, <2>1, FilledSlot
    <2> QED BY <2>1, <2>2, NumberType
  <1> QED BY <1>3, <1>4, <1>5, <1>7, <1>8 DEF FillEffect

(* The call puts an item, or None, in the next slot of its entry.           *)
LEMMA FillKeeps ==
  ASSUME IInv, NEW r \in [Objects -> Int], NEW s \in 0 .. 3, NEW o,
         pc \in DOMAIN Filled, pc' \in DOMAIN Filled, Filled[pc] = s, Filled[pc'] = s + 1,
         PyTuple_SetItem(r, py_command_response, s, o),
         UNCHANGED <<local, lost, held, call, count, turn>>, blocks' \subseteq Blocks,
         \/ o = <<call, turn, s>> /\ r = New(o) /\ stored' = stored
         \/ o = None /\ r = refs /\ stored' = stored + 1
  PROVE  IInv'
  <1> DEFINE t == <<call, turn>>
  <1>1. /\ pc \notin {"idle", "loop"} /\ pc' \notin {"idle", "loop"}
        /\ pc' \in {"err", "close", "code", "signal", "store", "out", "exec"}
    BY DEF Filled
  <1>2. /\ call \in Calls /\ turn \in Turns /\ i < count /\ t \in local /\ refs[t] = 1
        /\ DOMAIN content[t] = 0 .. 3 /\ content[t][s] = Null
        /\ \A v \in 0 .. 3 : content[t][v] = Null <=> v >= s
    <2>1. s >= s
      OBVIOUS
    <2> QED BY <1>1, <2>1 DEF IInv, Current
  <1>3. t \in Tuples /\ t \in Objects /\ t # None /\ t \in Entries /\ t \notin Items
    BY <1>2, Names
  <1>4. <<call, turn, s>> \in Items
    BY <1>2 DEF Items
  <1>5. o \in Items \cup {None} /\ o \in Objects /\ o # t /\ o # Null /\ o \notin Tuples
    BY <1>3, <1>4, Names
  <1>6. refs[<<call, turn, s>>] = 0
    <2>1. s >= Filled[pc]
      OBVIOUS
    <2> QED BY <2>1 DEF IInv, Fresh
  <1>7. \A x \in Objects : r[x] = IF x = o /\ o # None THEN 1 ELSE refs[x]
    BY <1>4, Names DEF New, IInv, TypeOK
  <1>8. FillEffect(r, t, s, o)
    <2>1. r[t] = 1
      BY <1>2, <1>3, <1>5, <1>7
    <2> QED BY <1>2, <1>3, <1>5, <2>1, FillSlot DEF IInv, py_command_response
  <1>9. /\ \A u \in Tuples : u # t => content'[u] = content[u]
        /\ DOMAIN content'[t] = 0 .. 3
        /\ \A v \in 0 .. 3 : content'[t][v] = IF v = s THEN o ELSE content[t][v]
    BY <1>2, <1>8 DEF FillEffect, Fills
  <1> HIDE DEF t
  <1>10. Range(content'[t]) \subseteq Range(content[t]) \cup {o}
    BY <1>2, <1>9 DEF Range
  <1>11. \A x \in Objects : refs'[x] = IF x = o /\ o # None THEN 1 ELSE refs[x]
    BY <1>7, <1>8 DEF FillEffect
  <1>12. Kinds'
    BY <1>3, <1>5, <1>9, <1>10, Names DEF IInv, Kinds
  <1>13. TypeOK'
    <2>1. \A u \in Tuples : /\ Range(content'[u]) \subseteq Objects \cup {Null}
                            /\ DOMAIN content'[u] \in IF u \in Calls \X Turns THEN {{}, 0 .. 3}
                                                    ELSE {0 .. n - 1 : n \in 0 .. MaxLen}
      <3>1. \A u \in Tuples : /\ Range(content[u]) \subseteq Objects \cup {Null}
                              /\ DOMAIN content[u] \in IF u \in Calls \X Turns THEN {{}, 0 .. 3}
                                                      ELSE {0 .. n - 1 : n \in 0 .. MaxLen}
        BY DEF IInv, TypeOK
      <3>2. /\ Range(content'[t]) \subseteq Objects \cup {Null}
            /\ DOMAIN content'[t] \in {{}, 0 .. 3} /\ t \in Calls \X Turns
        BY <1>3, <1>5, <1>9, <1>10, <3>1 DEF Entries
      <3> TAKE u \in Tuples
      <3>3. CASE u = t
        BY <3>2, <3>3
      <3>4. CASE u # t
        BY <1>9, <3>1, <3>4
      <3> QED BY <3>3, <3>4
    <2>2. stored' \in Nat /\ up' \in BOOLEAN
      BY <1>8, Types DEF IInv, FillEffect
    <2> QED BY <1>1, <1>8, <2>1, <2>2 DEF IInv, TypeOK, FillEffect
  <1>14. Balanced'
    <2>1. \A x \in Objects : Held(x)' = Held(x) /\ Held(x) \in Nat /\ Number(content, x) \in Nat
      BY Types DEF Held, IInv
    <2>2. ASSUME NEW x \in Objects \ {None} PROVE refs'[x] = Number(content', x) + Held(x)
      <3>1. refs[x] = Number(content, x) + Held(x)
        BY DEF IInv, Balanced
      <3> QED BY <1>6, <1>8, <1>11, <2>1, <3>1 DEF FillEffect
    <2>3. refs'[None] = NoneRefs + Number(content', None) + Held(None) - stored'
      BY <1>4, <1>8, <1>11, <2>1, Names, Types DEF FillEffect, IInv, Balanced
    <2> QED BY <1>8, <2>1, <2>2, <2>3, Names DEF Balanced, FillEffect
  <1>15. Fresh'
    <2>1. ASSUME NEW c \in Calls, c > call PROVE refs'[<<c>>] = 0 /\ content'[<<c>>] = <<>>
      <3>1. <<c>> # t /\ <<c>> # o /\ <<c>> \in Tuples /\ <<c>> \in Objects
        BY <1>3, <1>5, Names
      <3> QED BY <1>9, <1>11, <2>1, <3>1 DEF IInv, Fresh
    <2>2. ASSUME NEW c \in Calls, NEW k \in Turns, Later(c, k)
          PROVE  /\ refs'[<<c, k>>] = 0 /\ content'[<<c, k>>] = <<>>
                 /\ \A v \in 0 .. 3 : refs'[<<c, k, v>>] = 0
      <3>1. <<c, k>> \in Tuples /\ <<c, k>> \in Objects /\ <<c, k>> # o /\ <<c, k>> # t
        BY <1>1, <1>2, <1>5, <2>2, Names DEF Later, t, Calls, Turns
      <3>2. \A v \in 0 .. 3 : <<c, k, v>> \in Objects /\ (<<c, k, v>> # o \/ o = None)
        BY <2>2, <1>1, <1>2, Names DEF Items, Later, Calls, Turns
      <3> QED BY <1>9, <1>11, <2>2, <3>1, <3>2 DEF IInv, Fresh
    <2>3. ASSUME NEW v \in 0 .. 3, v >= Filled[pc'] PROVE refs'[<<call, turn, v>>] = 0
      <3>1. <<call, turn, v>> \in Objects /\ (<<call, turn, v>> # o \/ o = None) /\ v >= Filled[pc]
        BY <1>2, <2>3, Names DEF Items
      <3> QED BY <1>11, <3>1 DEF IInv, Fresh
    <2>4. \A c, k : Later(c, k)' => Later(c, k)
      BY <1>1 DEF Later
    <2> QED BY <2>1, <2>2, <2>3, <2>4 DEF Fresh
  <1>16. Current'
    <2>1. \A x \in local : x \in Tuples /\ x \in Objects /\ x # o
      BY <1>5, Types DEF IInv, TypeOK
    <2>2. \A x \in local : refs'[x] = 1
      BY <1>1, <1>11, <2>1 DEF IInv, Current
    <2>3. <<call>> \in Tuples /\ <<call>> # t /\ content'[<<call>>] = content[<<call>>]
      BY <1>2, <1>3, <1>9, Names
    <2>4. \A v \in 0 .. 3 : content'[t][v] = Null <=> v >= s + 1
      BY <1>2, <1>5, <1>9 DEF t
    <2>5. i' = i
      BY DEF i
    <2> QED BY <1>1, <1>2, <1>9, <2>2, <2>3, <2>4, <2>5 DEF IInv, Current, t
  <1>17. Whole'
    <2>1. Number(content, t) = 0 /\ held[t] = 0
      BY <1>2, Alone DEF t
    <2>2. \A u \in Tuples : Number(content', u) = Number(content, u)
      BY <1>5, <1>8, Names, Types DEF FillEffect, IInv
    <2> QED BY <1>9, <2>1, <2>2 DEF IInv, Whole, WholeTuple
  <1> QED BY <1>12, <1>13, <1>14, <1>15, <1>16, <1>17 DEF IInv

LEMMA NewType ==
  ASSUME IInv, NEW o
  PROVE  New(o) \in [Objects -> Int]
  <1>1. refs \in [Objects -> Int]
    BY DEF IInv, TypeOK
  <1>2. 1 \in Int
    OBVIOUS
  <1> QED BY <1>1, <1>2, Zenon DEF New

LEMMA SetOutKeeps ==
  ASSUME IInv, SetOut
  PROVE  IInv'
  <1>1. /\ pc = "out" /\ pc' = "err" /\ SetNew(0)
        /\ blocks' = (blocks \ {<<"stdout", call, turn>>}) \cup {<<"stderr", call, turn>>}
        /\ UNCHANGED <<local, lost, held, stored, call, count, turn>>
    BY DEF SetOut, At
  <1>2. pc \in DOMAIN Filled /\ pc' \in DOMAIN Filled /\ Filled[pc] = 0 /\ Filled[pc'] = 1
    BY <1>1 DEF Filled
  <1>3. blocks' \subseteq Blocks /\ call \in Calls /\ turn \in Turns
    BY <1>1, <1>2 DEF IInv, TypeOK, Current, Blocks
  <1>4. PyTuple_SetItem(New(<<call, turn, 0>>), py_command_response, 0, <<call, turn, 0>>)
    BY <1>1 DEF SetNew
  <1>5. New(<<call, turn, 0>>) \in [Objects -> Int]
    BY NewType
  <1> QED BY <1>1, <1>2, <1>3, <1>4, <1>5, FillKeeps

LEMMA SetErrKeeps ==
  ASSUME IInv, SetErr
  PROVE  IInv'
  <1>1. /\ pc = "err" /\ pc' = "close" /\ SetNew(1)
        /\ blocks' = blocks \ {<<"stderr", call, turn>>}
        /\ UNCHANGED <<local, lost, held, stored, call, count, turn>>
    BY DEF SetErr, At
  <1>2. pc \in DOMAIN Filled /\ pc' \in DOMAIN Filled /\ Filled[pc] = 1 /\ Filled[pc'] = 1 + 1
    BY <1>1 DEF Filled
  <1>3. blocks' \subseteq Blocks
    BY <1>1 DEF IInv, TypeOK
  <1>4. PyTuple_SetItem(New(<<call, turn, 1>>), py_command_response, 1, <<call, turn, 1>>)
    BY <1>1 DEF SetNew
  <1>5. New(<<call, turn, 1>>) \in [Objects -> Int]
    BY NewType
  <1> QED BY <1>1, <1>2, <1>3, <1>4, <1>5, FillKeeps

LEMMA SetCodeKeeps ==
  ASSUME IInv, SetCode
  PROVE  IInv'
  <1>1. /\ pc = "code" /\ pc' = "signal" /\ SetNew(2)
        /\ UNCHANGED <<local, lost, held, stored, blocks, call, count, turn>>
    BY DEF SetCode, At
  <1>2. pc \in DOMAIN Filled /\ pc' \in DOMAIN Filled /\ Filled[pc] = 2 /\ Filled[pc'] = 2 + 1
    BY <1>1 DEF Filled
  <1>3. blocks' \subseteq Blocks
    BY <1>1 DEF IInv, TypeOK
  <1>4. PyTuple_SetItem(New(<<call, turn, 2>>), py_command_response, 2, <<call, turn, 2>>)
    BY <1>1 DEF SetNew
  <1>5. New(<<call, turn, 2>>) \in [Objects -> Int]
    BY NewType
  <1> QED BY <1>1, <1>2, <1>3, <1>4, <1>5, FillKeeps

LEMMA SetSignalKeeps ==
  ASSUME IInv, SetSignal
  PROVE  IInv'
  <1>1. /\ pc = "signal" /\ pc' = "store"
        /\ UNCHANGED <<local, lost, held, blocks, call, count, turn>>
    BY DEF SetSignal, At
  <1>2. pc \in DOMAIN Filled /\ pc' \in DOMAIN Filled /\ Filled[pc] = 3 /\ Filled[pc'] = 3 + 1
    BY <1>1 DEF Filled
  <1>3. blocks' \subseteq Blocks
    BY <1>1 DEF IInv, TypeOK
  <1>4. refs \in [Objects -> Int] /\ New(<<call, turn, 3>>) \in [Objects -> Int]
    BY NewType DEF IInv, TypeOK
  <1>5. CASE <<"signal", call, turn>> \in blocks
    <2>1. /\ PyTuple_SetItem(New(<<call, turn, 3>>), py_command_response, 3, <<call, turn, 3>>)
          /\ stored' = stored
      BY <1>5 DEF SetSignal, SetNew
    <2> QED BY <1>1, <1>2, <1>3, <1>4, <2>1, FillKeeps
  <1>6. CASE <<"signal", call, turn>> \notin blocks
    <2>1. PyTuple_SetItem(refs, py_command_response, 3, None) /\ stored' = stored + 1
      BY <1>6 DEF SetSignal
    <2> QED BY <1>1, <1>2, <1>3, <1>4, <2>1, FillKeeps
  <1> QED BY <1>5, <1>6

-----------------------------------------------------------------------------
(* What a program gives up or a slot loses: counts only fall, and a result  *)
(* is in no slot.                                                           *)
LEMMA DecrefLess ==
  ASSUME NEW r \in [Objects -> Int], NEW o, NEW x \in Objects
  PROVE  Decref(r, o)[x] <= r[x]
  <1>1. Cardinality(SlotsWith(Doomed(r, o), x)) \in Nat
    BY SlotsFinite, DoomedTuples, SlotsWithIs
  <1> QED BY <1>1 DEF Decref

LEMMA ResultsUnslotted ==
  ASSUME NEW f, NEW c \in Calls,
         \A d \in Calls : Range(f[<<d>>]) \subseteq Entries \cup {Null},
         \A e \in Entries : Range(f[e]) \subseteq Items \cup {None, Null}
  PROVE  Number(f, <<c>>) = 0
  <1>1. <<c>> \in Tuples /\ <<c>> \notin Entries /\ <<c>> # Null /\ <<c>> \notin Items /\ <<c>> # None
    BY Names
  <1>2. \A t \in Tuples : <<c>> \notin Range(f[t])
    BY <1>1, Names
  <1>3. Slots(f, Tuples, <<c>>) = {}
    BY <1>2 DEF Slots, Range
  <1> QED BY <1>3, NumberType

(* Where counts only fall and still match the owners, what was not there is *)
(* not there, and what lost every reference has no owner.                   *)
LEMMA Ownerless ==
  ASSUME TypeOK', Balanced', NEW x \in Objects \ {None}, refs'[x] <= 0
  PROVE  /\ refs'[x] = 0 /\ Number(content', x) = 0 /\ held'[x] = 0
         /\ x \notin local' /\ x \notin lost'
  <1>1. held'[x] \in Nat /\ Number(content', x) \in Nat
    BY NumberType DEF TypeOK
  <1>2. refs'[x] = Number(content', x) + Held(x)'
    BY DEF Balanced
  <1> QED BY <1>1, <1>2 DEF Held

LEMMA Reach ==
  ASSUME IInv, NEW o \in Reachable
  PROVE  /\ o \in Objects /\ o # Null
         /\ held[o] > 0 \/ Number(content, o) > 0
  <1> DEFINE Direct == {x \in Objects : held[x] > 0}
             Inside(S) == UNION {Range(content[t]) : t \in S \cap Tuples}
  <1>1. ASSUME NEW t \in Tuples, held[t] > 0 \/ Number(content, t) > 0, NEW x \in Range(content[t])
        PROVE  x \in Objects /\ x # Null /\ Number(content, x) > 0
    <2>1. x # Null /\ x \in Objects
      BY <1>1 DEF IInv, Whole, WholeTuple, TypeOK
    <2>2. PICK s \in DOMAIN content[t] : content[t][s] = x
      BY DEF Range
    <2>3. <<t, s>> \in Slots(content, Tuples, x)
      BY <2>2, Indexes DEF Slots, IInv
    <2>4. Number(content, x) \in Nat /\ Number(content, x) # 0
      BY <2>3, NumberType
    <2> QED BY <2>1, <2>4
  <1>2. o \in Direct \cup Inside(Direct) \cup Inside(Inside(Direct))
    BY DEF Reachable
  <1>3. CASE o \in Direct
    BY <1>3, Names
  <1>4. \A x \in Inside(Direct) : x \in Objects /\ x # Null /\ Number(content, x) > 0
    BY <1>1
  <1>5. \A x \in Inside(Inside(Direct)) : x \in Objects /\ x # Null /\ Number(content, x) > 0
    <2>1. ASSUME NEW t \in Inside(Direct) \cap Tuples, NEW x \in Range(content[t])
          PROVE  x \in Objects /\ x # Null /\ Number(content, x) > 0
      <3>1. t \in Tuples /\ Number(content, t) > 0
        BY <1>4
      <3> HIDE DEF Inside, Direct
      <3> QED BY <1>1, <3>1
    <2> QED BY <2>1
  <1> QED BY <1>2, <1>3, <1>4, <1>5

-----------------------------------------------------------------------------
(* The result goes to the program, with every slot filled.                  *)
LEMMA ReturnKeeps ==
  ASSUME IInv, Return
  PROVE  IInv'
  <1>1. /\ UNCHANGED <<up, refs, content, lost, stored, blocks, call, count, turn>>
        /\ pc = "loop" /\ pc' = "idle" /\ ~LoopTest /\ local' = {}
        /\ held' = [o \in Objects |-> held[o] + IF o \in local THEN 1 ELSE 0]
    BY DEF Return, At
  <1>2. local \subseteq {<<call>>} /\ call \in Calls
    BY <1>1 DEF IInv, Current
  <1>3. \A o \in Objects : held'[o] \in Nat /\ Held(o)' = Held(o)
    BY <1>1, Types DEF Held, IInv
  <1>4. TypeOK'
    BY <1>1, <1>3 DEF IInv, TypeOK
  <1>5. Balanced'
    BY <1>1, <1>3, Names DEF IInv, Balanced
  <1>6. Kinds'
    BY <1>1 DEF IInv, Kinds
  <1>7. Fresh'
    BY <1>1 DEF IInv, Fresh, Later, Filled
  <1>8. Current'
    BY <1>1 DEF Current, Filled
  <1>9. ASSUME NEW t \in local PROVE WholeTuple(t)
    <2>1. t = <<call>> /\ count >= 0
      BY <1>1, <1>9 DEF IInv, Current
    <2>2. \A s \in 0 .. count - 1 : s < turn /\ s < IndexModulus
      BY <1>1, Types DEF IInv, LoopTest
    <2>3. DOMAIN content[t] = 0 .. count - 1 /\ \A s \in 0 .. count - 1 : content[t][s] # Null
      BY <1>1, <2>1, <2>2 DEF IInv, Current
    <2> QED BY <1>2, <2>1, <2>3, Names DEF WholeTuple, Range
  <1>10. \A t \in Tuples : held'[t] > 0 => held[t] > 0 \/ t \in local
    BY <1>1, Types DEF IInv
  <1>11. Whole'
    BY <1>1, <1>9, <1>10 DEF IInv, Whole, WholeTuple
  <1> QED BY <1>4, <1>5, <1>6, <1>7, <1>8, <1>11 DEF IInv

(* The program takes a reference: never to what the call still builds.      *)
LEMMA KeepKeeps ==
  ASSUME IInv, Keep
  PROVE  IInv'
  <1>1. PICK o \in Reachable \ {Null} :
          /\ refs' = [refs EXCEPT ![o] = @ + 1]
          /\ held' = [held EXCEPT ![o] = @ + 1]
    BY DEF Keep
  <1>2. UNCHANGED <<up, content, local, lost, stored, blocks, pc, call, count, turn>> /\ up
    BY DEF Keep
  <1>3. o \in Objects /\ (held[o] > 0 \/ Number(content, o) > 0)
    BY Reach
  <1>4. /\ refs' \in [Objects -> Int] /\ held' \in [Objects -> Nat]
        /\ \A x \in Objects : /\ refs'[x] = refs[x] + (IF x = o THEN 1 ELSE 0)
                              /\ held'[x] = held[x] + (IF x = o THEN 1 ELSE 0)
    BY <1>1, <1>3, Types DEF IInv, TypeOK
  <1>5. \A x \in Objects \ {None} : refs[x] = 0 => x # o
    BY <1>3, Absent
  <1>6. pc # "idle" => \A x \in local : x # o
    BY <1>3, Alone DEF IInv, Current
  <1>7. TypeOK'
    BY <1>2, <1>4 DEF IInv, TypeOK
  <1>8. \A x \in Objects : Held(x)' = Held(x) + IF x = o THEN 1 ELSE 0
    BY <1>2, <1>4, Types DEF Held, IInv
  <1>9. Balanced'
    <2>1. \A x \in Objects : Held(x) \in Nat
      BY Types DEF Held, IInv
    <2>2. ASSUME NEW x \in Objects \ {None} PROVE refs'[x] = Number(content, x) + Held(x)'
      <3>1. refs[x] = Number(content, x) + Held(x)
        BY DEF IInv, Balanced
      <3> QED BY <1>4, <1>8, <2>1, <3>1, Types DEF IInv
    <2>3. refs'[None] = NoneRefs + Number(content, None) + Held(None)' - stored
      BY <1>4, <1>8, <2>1, Names, Types DEF IInv, Balanced
    <2>4. up' = (refs'[None] > 0)
      <3>1. up = TRUE /\ up' = TRUE /\ refs[None] > 0
        BY <1>2 DEF IInv, Balanced, TypeOK
      <3>2. refs[None] \in Int /\ refs'[None] = refs[None] + IF None = o THEN 1 ELSE 0
        BY <1>4, Names, Types DEF IInv
      <3>3. refs'[None] > 0
        BY <3>1, <3>2
      <3> QED BY <3>1, <3>3
    <2> QED BY <1>2, <2>2, <2>3, <2>4 DEF Balanced
  <1>10. Kinds'
    BY <1>2 DEF IInv, Kinds
  <1>11. \A x \in Objects \ {None} : refs[x] = 0 => refs'[x] = 0
    BY <1>4, <1>5
  <1>12. Fresh'
    <2>1. \A c \in Calls : <<c>> \in Objects \ {None}
      BY Names
    <2>2. \A c \in Calls, k \in Turns : <<c, k>> \in Objects \ {None}
      BY Names
    <2>3. \A c \in Calls, k \in Turns, s \in 0 .. 3 : <<c, k, s>> \in Objects \ {None}
      BY Names DEF Items
    <2>4. pc \in DOMAIN Filled => call \in Calls /\ turn \in Turns
      BY DEF IInv, Current, Filled
    <2> QED BY <1>2, <1>11, <2>1, <2>2, <2>3, <2>4 DEF IInv, Fresh, Later
  <1>13. pc # "idle" => \A x \in local : refs'[x] = 1
    <2>1. \A x \in local : x \in Objects
      BY Types DEF IInv, TypeOK
    <2>2. pc # "idle" => \A x \in local : refs[x] = 1
      BY DEF IInv, Current
    <2> QED BY <1>4, <1>6, <2>1, <2>2
  <1>14. Current'
    BY <1>2, <1>13 DEF IInv, Current, i
  <1>15. Whole'
    BY <1>2, <1>3, <1>4, Types DEF IInv, Whole, WholeTuple
  <1> QED BY <1>7, <1>9, <1>10, <1>12, <1>14, <1>15 DEF IInv

(* The program gives a reference back.                                      *)
LEMMA DropKeeps ==
  ASSUME IInv, Drop
  PROVE  IInv'
  <1>1. PICK o \in Objects : /\ held[o] > 0
                             /\ held' = [held EXCEPT ![o] = @ - 1]
                             /\ refs' = Decref(refs, o)
                             /\ content' = Freed(Doomed(refs, o))
    BY DEF Drop
  <1> DEFINE D == Doomed(refs, o)
  <1>2. UNCHANGED <<local, lost, stored, blocks, pc, call, count, turn>> /\ up' = (refs'[None] > 0)
    BY DEF Drop, Survives
  <1>3. refs \in [Objects -> Int]
    BY DEF IInv, TypeOK
  <1>4. /\ refs' \in [Objects -> Int]
        /\ \A x \in Objects : refs'[x] - Number(content', x)
                                = refs[x] - Number(content, x) - (IF x = o THEN 1 ELSE 0)
        /\ \A x \in Objects : Number(content', x) <= Number(content, x)
    BY <1>1, <1>3, DecrefLaw
  <1>5. /\ held' \in [Objects -> Nat]
        /\ \A x \in Objects : held'[x] = held[x] - (IF x = o THEN 1 ELSE 0)
    BY <1>1, Types DEF IInv, TypeOK
  <1>6. \A x \in Objects : refs'[x] <= refs[x]
    BY <1>1, <1>3, DecrefLess
  <1>7. \A t \in D : refs'[t] <= 0
    BY <1>1, <1>3, DoomedGone DEF IInv
  <1>8. D \subseteq Tuples
    BY DoomedTuples
  <1>9. DOMAIN content' = Tuples /\ \A t \in Tuples : content'[t] = IF t \in D THEN <<>> ELSE content[t]
    BY <1>1 DEF Freed
  <1> HIDE DEF D
  <1>10. DOMAIN <<>> = {} /\ Range(<<>>) = {} /\ {} \in {0 .. n - 1 : n \in 0 .. MaxLen}
    <2>1. {} = 0 .. 0 - 1 /\ 0 \in 0 .. MaxLen
      BY RefsAssumption
    <2> QED BY <2>1 DEF Range
  <1>11. TypeOK'
    <2>1. \A u \in Tuples : /\ Range(content'[u]) \subseteq Objects \cup {Null}
                            /\ DOMAIN content'[u] \in IF u \in Calls \X Turns THEN {{}, 0 .. 3}
                                                    ELSE {0 .. n - 1 : n \in 0 .. MaxLen}
      BY <1>9, <1>10 DEF IInv, TypeOK
    <2>2. up' \in BOOLEAN
      BY <1>2
    <2> QED BY <1>2, <1>4, <1>5, <1>9, <2>1, <2>2 DEF IInv, TypeOK
  <1>12. \A x \in Objects : Held(x)' = Held(x) - IF x = o THEN 1 ELSE 0
    BY <1>2, <1>5, Types DEF Held, IInv
  <1>13. Balanced'
    <2>1. \A x \in Objects : Held(x) \in Nat /\ refs'[x] \in Int /\ Number(content', x) \in Nat
      BY <1>4, NumberType, Types DEF Held, IInv
    <2>2. ASSUME NEW x \in Objects \ {None} PROVE refs'[x] = Number(content', x) + Held(x)'
      <3>1. refs[x] = Number(content, x) + Held(x)
        BY DEF IInv, Balanced
      <3> QED BY <1>4, <1>12, <2>1, <3>1, Types DEF IInv
    <2>3. refs'[None] = NoneRefs + Number(content', None) + Held(None)' - stored
      <3>1. refs[None] = NoneRefs + Number(content, None) + Held(None) - stored
        BY DEF IInv, Balanced
      <3>2. None \in Objects /\ refs[None] \in Int /\ Number(content, None) \in Nat
        BY Names, Types DEF IInv
      <3>3. NoneRefs \in Int /\ stored \in Int
        BY Types DEF IInv
      <3>4. /\ refs'[None] - Number(content', None)
               = refs[None] - Number(content, None) - (IF None = o THEN 1 ELSE 0)
            /\ Held(None)' = Held(None) - (IF None = o THEN 1 ELSE 0)
        BY <1>4, <1>12, <3>2
      <3> QED BY <2>1, <3>1, <3>2, <3>3, <3>4
    <2> QED BY <1>2, <2>2, <2>3 DEF Balanced
  <1>14. Kinds'
    BY <1>9, <1>10, Names DEF IInv, Kinds
  <1>15. \A x \in Objects \ {None} : refs[x] = 0 => refs'[x] = 0
    BY <1>6, <1>11, <1>13, Ownerless
  <1>16. Fresh'
    <2>1. \A c \in Calls : <<c>> \in Objects \ {None} /\ <<c>> \in Tuples
      BY Names
    <2>2. \A c \in Calls, k \in Turns : <<c, k>> \in Objects \ {None} /\ <<c, k>> \in Tuples
      BY Names
    <2>3. \A c \in Calls, k \in Turns, s \in 0 .. 3 : <<c, k, s>> \in Objects \ {None}
      BY Names DEF Items
    <2>4. pc \in DOMAIN Filled => call \in Calls /\ turn \in Turns
      BY DEF IInv, Current, Filled
    <2>5. \A t \in Tuples : content[t] = <<>> => content'[t] = <<>>
      BY <1>9
    <2> QED BY <1>2, <1>15, <2>1, <2>2, <2>3, <2>4, <2>5 DEF IInv, Fresh, Later
  <1>17. ASSUME NEW x \in local, pc # "idle" PROVE refs'[x] = 1 /\ content'[x] = content[x]
    <2>1. x \in Tuples /\ x \in Objects \ {None} /\ refs[x] = 1
      BY <1>17, Types DEF IInv, TypeOK, Current
    <2>2. Number(content, x) = 0 /\ held[x] = 0
      BY <2>1, Alone
    <2>3. x # o /\ Number(content', x) = 0 /\ refs'[x] \in Int
      BY <1>1, <1>4, <2>1, <2>2, NumberType
    <2>4. refs'[x] = 1
      BY <1>4, <2>1, <2>2, <2>3
    <2>5. x \notin D
      BY <1>7, <2>4
    <2> QED BY <1>9, <2>1, <2>4, <2>5
  <1>18. Current'
    <2>1. pc \in DOMAIN Filled => <<call, turn>> \in local
      BY DEF IInv, Current, Filled
    <2>2. pc # "idle" /\ count >= 0 => <<call>> \in local
      BY DEF IInv, Current
    <2>3. i' = i /\ (pc \in DOMAIN Filled => pc # "idle")
      BY <1>2 DEF i, Filled
    <2> QED BY <1>2, <1>17, <2>1, <2>2, <2>3 DEF IInv, Current
  <1>19. Whole'
    <2>1. ASSUME NEW t \in Tuples, held'[t] > 0 \/ Number(content', t) > 0
          PROVE  WholeTuple(t)'
      <3>1. t \in Objects \ {None}
        BY Types DEF IInv
      <3>2. t \notin D
        BY <1>7, <1>11, <1>13, <2>1, <3>1, Ownerless
      <3>3. held[t] > 0 \/ Number(content, t) > 0
        BY <1>4, <1>5, <2>1, <3>1, NumberType, Types DEF IInv
      <3> QED BY <1>9, <3>2, <3>3 DEF IInv, Whole, WholeTuple
    <2> QED BY <2>1 DEF Whole
  <1> QED BY <1>11, <1>13, <1>14, <1>16, <1>18, <1>19 DEF IInv

(* The entry goes to the result, where it may replace an earlier one when   *)
(* the index has wrapped.                                                   *)
LEMMA StoreKeeps ==
  ASSUME IInv, Store
  PROVE  IInv'
  <1> DEFINE t == <<call>>
             e == <<call, turn>>
             gone == content[t][i]
             D == Doomed(refs, gone)
  <1>1. /\ pc = "store" /\ pc' = "loop" /\ turn' = turn + 1 /\ local' = local \ {e}
        /\ PyTuple_SetItem(refs, t, i, e)
        /\ UNCHANGED <<lost, held, stored, blocks, call, count>>
    BY DEF Store, At, py_response, py_command_response
  <1>2. /\ call \in Calls /\ turn \in Turns /\ i < count /\ count >= 0
        /\ local = {t, e} /\ refs[t] = 1 /\ refs[e] = 1
        /\ DOMAIN content[t] = 0 .. count - 1 /\ DOMAIN content[e] = 0 .. 3
        /\ \A s \in 0 .. 3 : content[e][s] # Null
    <2>1. pc \in DOMAIN Filled /\ Filled[pc] = 4 /\ pc # "idle" /\ pc # "loop"
      BY <1>1 DEF Filled
    <2>2. i < count /\ count >= 0
      BY <2>1, Types DEF IInv, Current
    <2>3. \A s \in 0 .. 3 : ~(s >= Filled[pc])
      BY <2>1
    <2> QED BY <2>1, <2>2, <2>3 DEF IInv, Current
  <1>3. /\ t \in Tuples /\ t \in Objects \ {None} /\ t \notin Entries
        /\ e \in Tuples /\ e \in Objects \ {None} /\ e \in Entries /\ e # t /\ e # Null
    BY <1>2, Names
  <1>4. i \in DOMAIN content[t] /\ turn \in Nat /\ IndexModulus \in Nat
    BY <1>2, Types DEF IInv
  <1>5. /\ Number(content, e) = 0 /\ held[e] = 0 /\ e \notin lost
        /\ Number(content, t) = 0 /\ held[t] = 0 /\ t \notin lost
    BY <1>2, Alone
  <1>6. gone \in Range(content[t])
    BY <1>4 DEF Range
  <1>7. gone \in Entries \cup {Null} /\ gone # e
    <2>1. gone \in Entries \cup {Null}
      BY <1>2, <1>6 DEF IInv, Kinds
    <2>2. Slots(content, Tuples, e) = {}
      BY <1>5, NumberType
    <2>3. gone = e => <<t, i>> \in Slots(content, Tuples, e)
      BY <1>3, <1>4, Indexes DEF Slots, IInv
    <2> QED BY <2>1, <2>2, <2>3
  <1>8. D \subseteq {gone} /\ D \subseteq Entries /\ t \notin D /\ e \notin D /\ D \subseteq Tuples
    <2>1. gone \in Entries => Range(content[gone]) \cap Tuples = {}
      BY Names DEF IInv, Kinds
    <2>2. gone = Null => D = {}
      BY Names DEF Doomed
    <2>3. D \subseteq {gone} /\ D \subseteq Entries
      BY <1>7, <2>1, <2>2 DEF Doomed
    <2> QED BY <1>3, <1>7, <2>3, DoomedTuples
  <1>9. refs \in [Objects -> Int] /\ TypeOK
    BY DEF IInv, TypeOK
  <1>10. /\ refs' = Decref(refs, gone)
         /\ content' = [Freed(D) EXCEPT ![t][i] = e]
    BY <1>1, <1>2, <1>4, Zenon DEF PyTuple_SetItem
  <1>11. /\ refs' \in [Objects -> Int] /\ up' = (refs'[None] > 0)
         /\ \A x \in Objects : refs'[x] - Number(content', x)
                                 = refs[x] - Number(content, x) - (IF x = e THEN 1 ELSE 0)
    <2>1. t \notin Doomed(refs, content[t][i])
      BY <1>8
    <2> QED BY <1>1, <1>3, <1>9, <2>1, SetItemLaw
  <1>12. /\ DOMAIN content' = Tuples
         /\ \A u \in Tuples : u # t => content'[u] = IF u \in D THEN <<>> ELSE content[u]
         /\ DOMAIN content'[t] = DOMAIN content[t]
         /\ \A v \in DOMAIN content[t] : content'[t][v] = IF v = i THEN e ELSE content[t][v]
    <2>1. DOMAIN Freed(D) = Tuples /\ \A u \in Tuples : Freed(D)[u] = IF u \in D THEN <<>> ELSE content[u]
      BY DEF Freed
    <2> HIDE DEF D
    <2>2. DOMAIN content' = Tuples /\ Fills(Freed(D), content', t, i, e)
      BY <1>3, <1>10, <2>1, Zenon DEF Fills
    <2>3. Freed(D)[t] = content[t]
      BY <1>3, <1>8, <2>1
    <2> QED BY <2>1, <2>2, <2>3 DEF Fills
  <1>13. \A x \in Objects : refs'[x] <= refs[x]
    BY <1>9, <1>10, DecrefLess
  <1>14. \A u \in D : refs'[u] <= 0
    BY <1>9, <1>10, DoomedGone
  <1>15. Range(content'[t]) \subseteq Range(content[t]) \cup {e}
    BY <1>12 DEF Range
  <1>16. i' = (turn + 1) % IndexModulus /\ turn + 1 \in 0 .. MaxRuns
    BY <1>1, <1>2, RefsAssumption DEF i, Turns
  <1> HIDE DEF t, e, D, gone
  <1>17. DOMAIN <<>> = {} /\ Range(<<>>) = {}
    BY DEF Range
  <1>18. TypeOK'
    <2>1. ASSUME NEW u \in Tuples
          PROVE  /\ Range(content'[u]) \subseteq Objects \cup {Null}
                 /\ DOMAIN content'[u] \in IF u \in Calls \X Turns THEN {{}, 0 .. 3}
                                         ELSE {0 .. n - 1 : n \in 0 .. MaxLen}
      <3>1. CASE u = t
        BY <1>3, <1>9, <1>12, <1>15, <3>1 DEF TypeOK
      <3>2. CASE u \in D
        BY <1>3, <1>8, <1>12, <1>17, <3>2 DEF Entries
      <3>3. CASE u # t /\ u \notin D
        BY <1>9, <1>12, <3>3 DEF TypeOK
      <3> QED BY <3>1, <3>2, <3>3
    <2>2. up' \in BOOLEAN /\ local' \subseteq Tuples
      BY <1>1, <1>9, <1>11 DEF TypeOK
    <2> QED BY <1>1, <1>9, <1>11, <1>12, <1>16, <2>1, <2>2 DEF TypeOK
  <1>19. \A x \in Objects : Held(x)' = Held(x) - IF x = e THEN 1 ELSE 0
    <2>1. \A x : x \in local' <=> x \in local /\ x # e
      BY <1>1
    <2>2. e \in local /\ held' = held /\ lost' = lost
      BY <1>1, <1>2
    <2>3. \A x \in Objects : held[x] \in Nat
      BY Types DEF IInv
    <2> QED BY <2>1, <2>2, <2>3 DEF Held
  <1>20. Balanced'
    <2>1. \A x \in Objects : Held(x) \in Nat /\ refs'[x] \in Int /\ Number(content', x) \in Nat
      BY <1>11, NumberType, Types DEF Held, IInv
    <2>2. ASSUME NEW x \in Objects \ {None} PROVE refs'[x] = Number(content', x) + Held(x)'
      <3>1. refs[x] = Number(content, x) + Held(x)
        BY DEF IInv, Balanced
      <3> QED BY <1>11, <1>19, <2>1, <3>1, Types DEF IInv
    <2>3. refs'[None] = NoneRefs + Number(content', None) + Held(None)' - stored
      <3>1. refs[None] = NoneRefs + Number(content, None) + Held(None) - stored
        BY DEF IInv, Balanced
      <3>2. None \in Objects /\ refs[None] \in Int /\ Number(content, None) \in Nat
        BY Names, Types DEF IInv
      <3>3. NoneRefs \in Int /\ stored \in Int
        BY Types DEF IInv
      <3>4. /\ refs'[None] - Number(content', None) = refs[None] - Number(content, None)
            /\ Held(None)' = Held(None)
        BY <1>3, <1>11, <1>19, <2>1, <3>2
      <3> QED BY <2>1, <3>1, <3>2, <3>3, <3>4
    <2> QED BY <1>1, <1>11, <2>2, <2>3 DEF Balanced
  <1>21. Kinds'
    <2>1. ASSUME NEW c \in Calls PROVE Range(content'[<<c>>]) \subseteq Entries \cup {Null}
      <3>1. <<c>> \in Tuples /\ <<c>> \notin D
        BY <1>8, Names
      <3> QED BY <1>3, <1>12, <1>15, <3>1 DEF IInv, Kinds
    <2>2. ASSUME NEW u \in Entries PROVE Range(content'[u]) \subseteq Items \cup {None, Null}
      BY <1>3, <1>12, <1>17, Names DEF IInv, Kinds
    <2> QED BY <2>1, <2>2 DEF Kinds
  <1>22. \A x \in Objects \ {None} : refs[x] = 0 => refs'[x] = 0
    BY <1>13, <1>18, <1>20, Ownerless
  <1>23. Fresh'
    <2>1. \A c \in Calls : c > call => /\ <<c>> \in Objects \ {None} /\ <<c>> \in Tuples /\ <<c>> # t
                                       /\ refs[<<c>>] = 0 /\ content[<<c>>] = <<>>
      BY <1>2, Names DEF t, Calls, IInv, Fresh
    <2>2. \A c \in Calls, k \in Turns : <<c, k>> \in Objects \ {None} /\ <<c, k>> \in Tuples /\ <<c, k>> # t
      BY <1>3, Names
    <2>3. \A c \in Calls, k \in Turns, s \in 0 .. 3 : <<c, k, s>> \in Objects \ {None}
      BY Names DEF Items
    <2>4. \A c \in Calls, k \in Turns : Later(c, k)' => Later(c, k)
      BY <1>1, <1>4 DEF Later, Calls, Turns
    <2>5. pc' \notin DOMAIN Filled
      BY <1>1 DEF Filled
    <2>6. \A u \in Tuples : u # t /\ content[u] = <<>> => content'[u] = <<>>
      BY <1>12
    <2>7. \A c \in Calls : c > call => refs'[<<c>>] = 0 /\ content'[<<c>>] = <<>>
      BY <1>22, <2>1, <2>6
    <2>8. \A c \in Calls, k \in Turns :
             Later(c, k) => /\ refs'[<<c, k>>] = 0 /\ content'[<<c, k>>] = <<>>
                            /\ \A s \in 0 .. 3 : refs'[<<c, k, s>>] = 0
      BY <1>22, <2>2, <2>3, <2>6 DEF IInv, Fresh
    <2> QED BY <1>1, <2>4, <2>5, <2>7, <2>8 DEF Fresh
  <1>24. refs'[t] = 1 /\ Number(content', t) = 0
    <2>1. Number(content', t) = 0
      BY <1>2, <1>21, ResultsUnslotted DEF t, Kinds
    <2>2. refs'[t] \in Int /\ refs'[t] - Number(content', t) = 1
      BY <1>2, <1>3, <1>5, <1>11
    <2> QED BY <2>1, <2>2
  <1>25. Current'
    <2>1. local' = {t}
      BY <1>1, <1>2, <1>3
    <2>2. ASSUME NEW s \in 0 .. count - 1, s < turn + 1, s < IndexModulus
          PROVE  content'[t][s] # Null
      <3>1. s \in DOMAIN content[t] /\ (s < turn \/ s = turn)
        BY <1>2, <1>4, <2>2
      <3>2. CASE s = i
        BY <1>3, <1>12, <3>1, <3>2
      <3>3. CASE s # i
        <4>1. s < turn
          BY <1>4, <2>2, <3>1, <3>3, Types DEF IInv
        <4>2. content[t][s] # Null
          BY <1>1, <1>2, <2>2, <4>1 DEF IInv, Current, t
        <4> QED BY <1>12, <3>1, <3>3, <4>2
      <3> QED BY <3>2, <3>3
    <2>3. pc' \notin DOMAIN Filled
      BY <1>1 DEF Filled
    <2> QED BY <1>1, <1>2, <1>12, <1>24, <2>1, <2>2, <2>3 DEF Current, t
  <1>26. Whole'
    <2>1. ASSUME NEW u \in Tuples, held'[u] > 0 \/ Number(content', u) > 0
          PROVE  WholeTuple(u)'
      <3>1. u \in Objects \ {None}
        BY Types DEF IInv
      <3>2. u \notin D
        BY <1>14, <1>18, <1>20, <2>1, <3>1, Ownerless
      <3>3. u # t
        BY <1>1, <1>5, <1>24, <2>1
      <3>4. content'[u] = content[u]
        BY <1>12, <3>2, <3>3
      <3>5. CASE u = e
        <4>1. DOMAIN content'[u] = 0 .. 3 /\ \A s \in 0 .. 3 : content'[u][s] # Null
          BY <1>2, <3>4, <3>5
        <4> QED BY <4>1 DEF WholeTuple, Range
      <3>6. CASE u # e
        <4>1. /\ Number(content', u) \in Nat /\ Number(content, u) \in Nat
              /\ refs'[u] \in Int /\ refs[u] \in Int /\ refs'[u] <= refs[u]
              /\ refs'[u] - Number(content', u) = refs[u] - Number(content, u)
          BY <1>9, <1>11, <1>13, <3>1, <3>6, NumberType
        <4>2. held[u] > 0 \/ Number(content, u) > 0
          BY <1>1, <2>1, <4>1
        <4> QED BY <3>4, <4>2 DEF IInv, Whole, WholeTuple
      <3> QED BY <3>5, <3>6
    <2> QED BY <2>1 DEF Whole
  <1> QED BY <1>18, <1>20, <1>21, <1>23, <1>25, <1>26 DEF IInv

-----------------------------------------------------------------------------
LEMMA InitHolds ==
  ASSUME Init
  PROVE  IInv
  <1>1. /\ \A o \in Objects : refs[o] = (IF o = None THEN NoneRefs ELSE 0) /\ held[o] = 0
        /\ DOMAIN content = Tuples /\ \A t \in Tuples : content[t] = <<>>
        /\ local = {} /\ lost = {} /\ stored = 0 /\ pc = "idle" /\ call = 0 /\ up = TRUE
    BY DEF Init
  <1>2. DOMAIN <<>> = {} /\ Range(<<>>) = {} /\ {} \in {0 .. n - 1 : n \in 0 .. MaxLen}
    <2>1. {} = 0 .. 0 - 1 /\ 0 \in 0 .. MaxLen
      BY RefsAssumption
    <2> QED BY <2>1 DEF Range
  <1>3. TypeOK
    <2>1. \A u \in Tuples : /\ Range(content[u]) \subseteq Objects \cup {Null}
                            /\ DOMAIN content[u] \in IF u \in Calls \X Turns THEN {{}, 0 .. 3}
                                                   ELSE {0 .. n - 1 : n \in 0 .. MaxLen}
      BY <1>1, <1>2
    <2>2. refs \in [Objects -> Int] /\ held \in [Objects -> Nat]
      BY RefsAssumption DEF Init
    <2>3. /\ call \in 0 .. MaxCalls /\ count \in -1 .. MaxLen /\ turn \in 0 .. MaxRuns
          /\ stored \in Nat /\ blocks \subseteq Blocks /\ up \in BOOLEAN
      BY RefsAssumption DEF Init
    <2> QED BY <1>1, <2>1, <2>2, <2>3 DEF TypeOK
  <1>4. \A o : Number(content, o) = 0
    <2>1. \A o : Slots(content, Tuples, o) = {}
      BY <1>1, <1>2 DEF Slots
    <2> QED BY <2>1, NumberType
  <1>5. Balanced
    <2>1. \A o \in Objects : Held(o) = 0
      BY <1>1 DEF Held
    <2>2. None \in Objects /\ refs[None] = NoneRefs /\ NoneRefs \in Nat /\ NoneRefs > 0
      BY <1>1, Names, RefsAssumption
    <2>3. up = (refs[None] > 0)
      BY <1>1, <2>2
    <2> QED BY <1>1, <1>4, <2>1, <2>2, <2>3 DEF Balanced
  <1>6. Kinds
    BY <1>1, <1>2, Names DEF Kinds
  <1>7. Fresh
    <2>1. \A c \in Calls : <<c>> \in Objects \ {None} /\ <<c>> \in Tuples
      BY Names
    <2>2. \A c \in Calls, k \in Turns : <<c, k>> \in Objects \ {None} /\ <<c, k>> \in Tuples
      BY Names
    <2>3. \A c \in Calls, k \in Turns, s \in 0 .. 3 : <<c, k, s>> \in Objects \ {None}
      BY Names DEF Items
    <2> QED BY <1>1, <2>1, <2>2, <2>3 DEF Fresh, Filled
  <1>8. Current
    BY <1>1 DEF Current, Filled
  <1>9. Whole
    BY <1>1, <1>4, Names DEF Whole
  <1> QED BY <1>3, <1>5, <1>6, <1>7, <1>8, <1>9 DEF IInv

LEMMA StutterKeeps ==
  ASSUME IInv, UNCHANGED vars
  PROVE  IInv'
  <1> USE DEF vars
  <1>1. TypeOK'
    BY DEF IInv, TypeOK
  <1>2. Balanced'
    BY DEF IInv, Balanced, Held
  <1>3. Kinds'
    BY DEF IInv, Kinds
  <1>4. Fresh'
    BY DEF IInv, Fresh, Later
  <1>5. Current'
    BY DEF IInv, Current, i
  <1>6. Whole'
    BY DEF IInv, Whole, WholeTuple
  <1> QED BY <1>1, <1>2, <1>3, <1>4, <1>5, <1>6 DEF IInv

(* The inductive invariant: for any number of calls, commands and references*)
(* the program keeps, the counts of the objects made by lines 183-297 agree *)
(* with their owners, results hold entries and entries hold items, what a   *)
(* call still builds belongs to it alone, and what left it is whole.        *)
THEOREM Invariance == Spec => []IInv
  <1>1. Init => IInv
    BY InitHolds
  <1>2. IInv /\ [Next]_vars => IInv'
    <2> SUFFICES ASSUME IInv, [Next]_vars PROVE IInv'
      OBVIOUS
    <2>1. CASE Call BY <2>1, CallKeeps
    <2>2. CASE Begin BY <2>2, BeginKeeps
    <2>3. CASE Exec \/ Close BY <2>3, QuietKeeps
    <2>4. CASE Fail BY <2>4, FailKeeps
    <2>5. CASE SetOut BY <2>5, SetOutKeeps
    <2>6. CASE SetErr BY <2>6, SetErrKeeps
    <2>7. CASE SetCode BY <2>7, SetCodeKeeps
    <2>8. CASE SetSignal BY <2>8, SetSignalKeeps
    <2>9. CASE Store BY <2>9, StoreKeeps
    <2>10. CASE Return BY <2>10, ReturnKeeps
    <2>11. CASE Keep BY <2>11, KeepKeeps
    <2>12. CASE Drop BY <2>12, DropKeeps
    <2>13. CASE UNCHANGED vars BY <2>13, StutterKeeps
    <2> QED BY <2>1, <2>2, <2>3, <2>4, <2>5, <2>6, <2>7, <2>8, <2>9, <2>10, <2>11, <2>12, <2>13
            DEF Next
  <1> QED BY <1>1, <1>2, PTL DEF Spec

(* Counts, slots, owners and C variables keep their types; a result has a   *)
(* slot for each command and an entry four (lines 187 and 191).             *)
THEOREM TypeCorrect == Spec => []TypeOK
  <1>1. IInv => TypeOK
    BY DEF IInv
  <1> QED BY <1>1, Invariance, PTL

LEMMA OwnersAre ==
  ASSUME IInv, NEW o \in Objects
  PROVE  Owners(o) = Number(content, o) + Held(o) /\ Owners(o) \in Nat
  <1>1. Cardinality(SlotsWith(Tuples, o)) = Number(content, o)
    BY SlotsWithIs DEF Number
  <1>2. Number(content, o) \in Nat /\ held[o] \in Nat
    BY Types DEF IInv
  <1> QED BY <1>1, <1>2 DEF Owners, Held

(* Lines 183-297: every object but None has exactly as many references as   *)
(* owners, however calls run, fail and wrap their index and whatever the    *)
(* program keeps and drops meanwhile: nothing is freed too early, and only  *)
(* the error returns of lines 202 and 217 leak.                             *)
THEOREM NoLeakNoDangling == Spec => []CountsMatchOwners
  <1>1. IInv => CountsMatchOwners
    BY OwnersAre DEF IInv, Balanced, CountsMatchOwners
  <1> QED BY <1>1, Invariance, PTL

(* Line 281: None loses exactly one reference per None put in a slot once   *)
(* the slots are gone, so the interpreter only gives up after at least as   *)
(* many commands without a signal as None has references elsewhere.         *)
THEOREM NoneCostsOneEach == Spec => []NoneShortage
  <1>1. IInv => NoneShortage
    <2> SUFFICES ASSUME IInv PROVE NoneShortage
      OBVIOUS
    <2>1. Owners(None) = Number(content, None) + Held(None) /\ Owners(None) \in Nat /\ None \in Objects
      BY Names, OwnersAre
    <2>2. refs[None] = NoneRefs + Number(content, None) + Held(None) - stored /\ up = (refs[None] > 0)
      BY DEF IInv, Balanced
    <2>3. Number(content, None) \in Nat /\ Held(None) \in Nat /\ NoneRefs \in Nat /\ stored \in Nat
      BY <2>1, Types DEF IInv, Held
    <2>4. refs[None] = NoneRefs + Owners(None) - stored
      BY <2>1, <2>2, <2>3
    <2>5. ~up => stored >= NoneRefs
      <3>1. ~up => ~(refs[None] > 0)
        BY <2>2
      <3>2. ~(refs[None] > 0) => stored >= NoneRefs
        BY <2>1, <2>3, <2>4
      <3> QED BY <3>1, <3>2
    <2> QED BY <2>4, <2>5 DEF NoneShortage
  <1> QED BY <1>1, Invariance, PTL

(* Lines 242, 258, 275, 282 and 290: a program never gets at an empty slot, *)
(* a dead object or an entry without its four slots.                        *)
THEOREM ProgramSeesWhole == Spec => []HeldIsWhole
  <1>1. IInv => HeldIsWhole
    <2> SUFFICES ASSUME IInv, up, NEW o \in Reachable
                 PROVE  /\ o # Null /\ refs[o] > 0
                        /\ o \in Calls \X Turns => DOMAIN content[o] = 0 .. 3
      BY DEF HeldIsWhole
    <2>1. o \in Objects /\ o # Null /\ (held[o] > 0 \/ Number(content, o) > 0)
      BY Reach
    <2>2. refs[o] > 0
      <3>1. CASE o = None
        BY <3>1 DEF IInv, Balanced
      <3>2. CASE o # None
        <4>1. refs[o] = Number(content, o) + Held(o)
          BY <2>1, <3>2 DEF IInv, Balanced
        <4>2. Number(content, o) \in Nat /\ held[o] \in Nat
          BY <2>1, Types DEF IInv
        <4> QED BY <2>1, <4>1, <4>2 DEF Held
      <3> QED BY <3>1, <3>2
    <2>3. o \in Calls \X Turns => DOMAIN content[o] = 0 .. 3
      BY <2>1, Names DEF IInv, Whole, WholeTuple, Entries
    <2> QED BY <2>1, <2>2, <2>3
  <1> QED BY <1>1, Invariance, PTL

=============================================================================
