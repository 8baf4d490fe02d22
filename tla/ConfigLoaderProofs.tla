-------------------------- MODULE ConfigLoaderProofs --------------------------
(***************************************************************************)
(* Proofs about config.Loader.Load (ConfigLoader): for every struct type,  *)
(* file, environment and flag map, what a returned config holds, and what  *)
(* a rejection may blame.                                                  *)
(***************************************************************************)
EXTENDS ConfigLoader, NaturalsInduction, WellFoundedInduction, TLAPS

Phases == {"collect", "defaults", "file", "entries", "env", "flags", "validate", "returned"}
BeforeEntries == {"collect", "defaults", "file"}
AfterEnv == {"flags", "validate", "returned"}

\* Load has not turned the configuration down.
Going == phase # "returned" \/ result = "config"

-----------------------------------------------------------------------------
(* The inductive invariant *)

Shape ==
  /\ typ \in Types /\ phase \in Phases
  /\ phase = "collect" => errs = {}
  /\ phase # "returned" => result = "none"
  /\ result = "config" => errs = {}
  /\ DOMAIN out = 1..Len(typ)

\* What is still to be applied, and the flat map of a file that was read.
Pending ==
  /\ phase = "entries" => FileUsable /\ todo \subseteq DOMAIN vals
  /\ phase = "flags" => todo \subseteq {n \in DOMAIN flags : flags[n] # Empty}
  /\ Going /\ phase \in {"validate", "returned"} => todo = {}
  /\ phase \in BeforeEntries => vals = <<>>
  /\ Going /\ phase \notin BeforeEntries =>
       IF FileUsable THEN vals \in Flatten(file.leaves) ELSE vals = <<>>

\* The raw values that each layer has handed to a field so far.
TakenDefault(i) ==
  IF phase \in {"collect", "defaults"} \/ typ[i].def = NoDefault THEN {} ELSE {typ[i].def}
TakenFile(i) ==
  {vals[k] : k \in {x \in DOMAIN vals : /\ x = FileKey(Path(typ, i))
                                        /\ phase = "entries" => x \notin todo}}
TakenEnv(i) == IF phase \in AfterEnv /\ EnvSet(i) THEN {env[EnvKey(typ, i)]} ELSE {}
TakenFlag(i) ==
  {flags[n] : n \in {m \in DOMAIN flags : /\ Lower[m] = FileKey(Path(typ, i))
                                          /\ flags[m] # Empty
                                          /\ phase \in AfterEnv /\ m \notin todo}}
Taken(i) == <<TakenDefault(i), TakenFile(i), TakenEnv(i), TakenFlag(i)>>

\* A field that no layer may touch keeps its zero value; a field that alone
\* answers to its name holds what the layers applied so far leave in it.
Untouched == \A i \in 1..Len(typ) : i \notin Specs(typ) => out[i] = Zero(typ[i].kind)

Layered ==
  Going => \A i \in Specs(typ) :
             Sole(i) => LeftBy(Readable(typ[i].kind, Taken(i)), typ[i].kind, out[i])

\* As long as there is no problem, everything applied so far was fine.
Accepted ==
  Going /\ errs = {} =>
    /\ \A i \in Specs(typ) :
         Sole(i) => \A l \in 1..4 : \A raw \in Taken(i)[l] : Parses(typ[i].kind, raw)
    /\ phase \notin BeforeEntries => file.state = "off" \/ FileUsable
    /\ \A k \in DOMAIN vals :
         (phase = "entries" => k \notin todo) =>
           \E i \in Specs(typ) : FileKey(Path(typ, i)) = k /\ Parses(typ[i].kind, vals[k])
    /\ phase \in AfterEnv =>
         /\ \A i \in Specs(typ) : EnvSet(i) => Parses(typ[i].kind, env[EnvKey(typ, i)])
         /\ \A n \in DOMAIN flags :
              flags[n] # Empty /\ n \notin todo =>
                \E i \in Specs(typ) : FileKey(Path(typ, i)) = Lower[n] /\ Parses(typ[i].kind, flags[n])

\* What each kind of problem is about.
Unparsed(e, i) ==
  \/ e.layer = "default" /\ \E raw \in Offered(i)[1] : ~Parses(typ[i].kind, raw)
  \/ e.layer = "file" /\ \E raw \in Offered(i)[2] : ~Parses(typ[i].kind, raw)
  \/ e.layer = "env" /\ \E raw \in Offered(i)[3] : ~Parses(typ[i].kind, raw)
  \/ e.layer = "flag" /\ \E raw \in Offered(i)[4] : ~Parses(typ[i].kind, raw)

Missing(i) ==
  /\ typ[i].required
  /\ Sole(i) => \E layers \in Sources(i) :
                  LeftBy(Readable(typ[i].kind, layers), typ[i].kind, Zero(typ[i].kind))

Blame(e) ==
  \/ e.kind \in {"unsupported_type", "file_read", "unknown_extension", "validation"}
  \/ e.kind = "parse_failed" /\ \E i \in Specs(typ) : e.field = Path(typ, i) /\ Unparsed(e, i)
  \/ e.kind = "missing_required" /\ \E i \in Specs(typ) : e.field = Path(typ, i) /\ Missing(i)
  \/ e.kind = "unknown_field" /\ \A j \in Specs(typ) : FileKey(Path(typ, j)) # Lower[e.field[1]]
  \/ e.kind = "file_decode" /\ (FileUsable => \A j \in Specs(typ) : FileKey(Path(typ, j)) # e.key)

Blamed == \A e \in errs : Blame(e)

IInv == Shape /\ Pending /\ Untouched /\ Layered /\ Accepted /\ Blamed

-----------------------------------------------------------------------------
(* The specs of a type *)

LEMMA SpecsBound ==
  ASSUME NEW t
  PROVE  Specs(t) \subseteq 1..Len(t) /\ Specs(t) \subseteq Leaves(t)
<1>1. Visited(t) \subseteq 1..Len(t)
  BY DEF Visited
<1> QED
  BY <1>1 DEF Specs, Leaves

\* A non-empty set of natural numbers has a least element, and a greatest one if
\* it is bounded.
LEMMA LeastNat ==
  ASSUME NEW T \in SUBSET Nat, T # {}
  PROVE  \E n \in T : \A m \in T : n <= m
<1>1. PICK n \in T : \A m \in T : <<m, n>> \notin OpToRel(<, Nat)
  BY NatLessThanWellFounded, WFMin
<1>2. \A m \in T : ~(m < n)
  BY <1>1 DEF OpToRel
<1> QED
  BY <1>2

LEMMA GreatestNat ==
  ASSUME NEW b \in Nat, NEW T \in SUBSET (0..b), T # {}
  PROVE  \E n \in T : \A m \in T : m <= n
<1> DEFINE U == {b - m : m \in T}
<1>1. U \in SUBSET Nat /\ U # {}
  <2>1. \A m \in T : b - m \in Nat
    OBVIOUS
  <2>2. PICK m \in T : TRUE
    OBVIOUS
  <2>3. b - m \in U
    OBVIOUS
  <2> QED
    BY <2>1, <2>3
<1>2. PICK u \in U : \A m \in U : u <= m
  BY <1>1, LeastNat
<1>3. PICK n \in T : u = b - n
  BY <1>2
<1>4. \A m \in T : b - n <= b - m
  BY <1>2, <1>3
<1> QED
  BY <1>4

\* byFileKey and specByPath find a spec whenever there is one, and for a key to
\* which one field alone answers, that field.
LEMMA FileKeyFound ==
  ASSUME typ \in Types, NEW key
  PROVE  /\ ByFileKey(key) \subseteq Specs(typ)
         /\ \A i \in ByFileKey(key) : FileKey(Path(typ, i)) = key
         /\ ByFileKey(key) = {} => \A i \in Specs(typ) : FileKey(Path(typ, i)) # key
         /\ \A i \in Specs(typ) : Sole(i) /\ FileKey(Path(typ, i)) = key => ByFileKey(key) = {i}
<1>1. Len(typ) \in Nat /\ Specs(typ) \subseteq 1..Len(typ)
  <2>1. typ \in Seq(Fields)
    BY TypesAssumption
  <2> QED
    BY <2>1, SpecsBound
<1> DEFINE S == {i \in Specs(typ) : FileKey(Path(typ, i)) = key}
<1>2. S # {} => ByFileKey(key) # {}
  <2> SUFFICES ASSUME S # {} PROVE ByFileKey(key) # {}
    OBVIOUS
  <2>1. S \in SUBSET (0..Len(typ))
    BY <1>1
  <2>2. PICK n \in S : \A m \in S : m <= n
    <3> HIDE DEF S
    <3> QED
      BY <1>1, <2>1, GreatestNat
  <2>3. n \in ByFileKey(key)
    BY <2>2 DEF ByFileKey
  <2> QED
    BY <2>3
<1>3. \A i \in Specs(typ) : Sole(i) /\ FileKey(Path(typ, i)) = key => S = {i} /\ i <= i
  BY <1>1 DEF Sole
<1>4. ByFileKey(key) \subseteq S
  BY DEF ByFileKey
<1> QED
  BY <1>2, <1>3, <1>4

LEMMA PathFound ==
  ASSUME typ \in Types, NEW name
  PROVE  /\ SpecByPath(name) \subseteq Specs(typ)
         /\ \A i \in SpecByPath(name) : FileKey(Path(typ, i)) = Lower[name]
         /\ SpecByPath(name) = {} => \A i \in Specs(typ) : FileKey(Path(typ, i)) # Lower[name]
         /\ \A i \in Specs(typ) :
              Sole(i) /\ FileKey(Path(typ, i)) = Lower[name] => SpecByPath(name) = {i}
<1>1. Len(typ) \in Nat /\ Specs(typ) \subseteq 1..Len(typ)
  <2>1. typ \in Seq(Fields)
    BY TypesAssumption
  <2> QED
    BY <2>1, SpecsBound
<1> DEFINE S == {i \in Specs(typ) : FileKey(Path(typ, i)) = Lower[name]}
<1>2. S # {} => SpecByPath(name) # {}
  <2> SUFFICES ASSUME S # {} PROVE SpecByPath(name) # {}
    OBVIOUS
  <2>1. S \in SUBSET Nat
    BY <1>1
  <2>2. PICK n \in S : \A m \in S : n <= m
    <3> HIDE DEF S
    <3> QED
      BY <2>1, LeastNat
  <2>3. n \in SpecByPath(name)
    BY <2>2 DEF SpecByPath
  <2> QED
    BY <2>3
<1>3. \A i \in Specs(typ) : Sole(i) /\ FileKey(Path(typ, i)) = Lower[name] => S = {i}
  BY <1>1 DEF Sole
<1>4. SpecByPath(name) \subseteq S
  BY DEF SpecByPath
<1> QED
  BY <1>2, <1>3, <1>4

-----------------------------------------------------------------------------
(* The layers *)

\* One layer hands a raw value to a field, or none, while the layers above it
\* are empty: the field then holds what the layers leave in it.
LEMMA LayerAdded ==
  ASSUME NEW kind, NEW v, NEW w, NEW l \in 1..4, NEW S, NEW L, NEW M,
         LeftBy(Readable(kind, L), kind, v),
         \A m \in 1..4 : m > l => L[m] = {},
         \A m \in 1..4 : m # l => M[m] = L[m],
         M[l] = L[l] \cup S,
         \/ S = {} /\ w = v
         \/ \E raw : /\ S = {raw}
                     /\ w = IF Parses(kind, raw) THEN ParseValue(kind, raw) ELSE v
  PROVE  LeftBy(Readable(kind, M), kind, w)
<1>1. \A m \in 1..4 : m # l => Readable(kind, M)[m] = Readable(kind, L)[m]
  BY DEF Readable
<1>2. Readable(kind, M)[l] = Readable(kind, L)[l] \cup {raw \in S : Parses(kind, raw)}
  BY DEF Readable
<1>3. \A m \in 1..4 : m > l => Readable(kind, M)[m] = {}
  BY DEF Readable
<1>4. CASE {raw \in S : Parses(kind, raw)} = {}
  <2>1. w = v
    BY <1>4
  <2>2. \A m \in 1..4 : Readable(kind, M)[m] = Readable(kind, L)[m]
    BY <1>1, <1>2, <1>4
  <2> QED
    BY <2>1, <2>2 DEF LeftBy
<1>5. CASE {raw \in S : Parses(kind, raw)} # {}
  <2>1. PICK raw : S = {raw} /\ Parses(kind, raw) /\ w = ParseValue(kind, raw)
    BY <1>5
  <2>2. raw \in Readable(kind, M)[l]
    BY <1>2, <2>1
  <2> QED
    BY <1>3, <2>1, <2>2 DEF LeftBy
<1> QED
  BY <1>4, <1>5

\* Of the layers, what counts is the values each of them has.
LEMMA LayersSame ==
  ASSUME NEW kind, NEW v, NEW L, NEW M, LeftBy(Readable(kind, L), kind, v),
         \A m \in 1..4 : M[m] = L[m]
  PROVE  LeftBy(Readable(kind, M), kind, v)
<1>1. \A m \in 1..4 : Readable(kind, M)[m] = Readable(kind, L)[m]
  BY DEF Readable
<1> QED
  BY <1>1 DEF LeftBy

LEMMA SetParsedFacts ==
  ASSUME NEW set, NEW raw, NEW key, NEW layer, SetParsed(set, raw, key, layer)
  PROVE  /\ DOMAIN out' = DOMAIN out
         /\ \A i \in DOMAIN out :
              out'[i] = IF i \in set /\ Parses(typ[i].kind, raw[i])
                        THEN ParseValue(typ[i].kind, raw[i]) ELSE out[i]
         /\ errs' = {} => errs = {} /\ \A i \in set : Parses(typ[i].kind, raw[i])
         /\ \A e \in errs' : \/ e \in errs
                             \/ \E i \in set : /\ ~Parses(typ[i].kind, raw[i])
                                              /\ e.kind = "parse_failed" /\ e.layer = layer
                                              /\ e.field = Path(typ, i)
<1>1. /\ DOMAIN out' = DOMAIN out
      /\ \A i \in DOMAIN out :
              out'[i] = IF i \in set /\ Parses(typ[i].kind, raw[i])
                        THEN ParseValue(typ[i].kind, raw[i]) ELSE out[i]
  BY DEF SetParsed
<1>2. errs' = errs \cup {Problem(Path(typ, i), key[i], "parse_failed", layer) :
                           i \in {j \in set : ~Parses(typ[j].kind, raw[j])}}
  BY DEF SetParsed
<1>3. \A e \in errs' : \/ e \in errs
                       \/ \E i \in set : /\ ~Parses(typ[i].kind, raw[i])
                                        /\ e = Problem(Path(typ, i), key[i], "parse_failed", layer)
  BY <1>2
<1>4. errs' = {} => errs = {} /\ \A i \in set : Parses(typ[i].kind, raw[i])
  BY <1>2
<1> QED
  BY <1>1, <1>3, <1>4 DEF Problem

-----------------------------------------------------------------------------
(* Steps: what they keep, and what one layer adds *)

LEMMA InputsKept ==
  ASSUME UNCHANGED input
  PROVE  /\ typ' = typ /\ file' = file /\ env' = env /\ flags' = flags
         /\ FileUsable' <=> FileUsable
         /\ \A i : Sole(i)' <=> Sole(i)
         /\ \A i : EnvSet(i)' <=> EnvSet(i)
         /\ \A i : Offered(i)' = Offered(i)
         /\ \A e : Blame(e)' <=> Blame(e)
<1>1. typ' = typ /\ file' = file /\ env' = env /\ flags' = flags
  BY DEF input
<1>2. /\ FileUsable' <=> FileUsable
      /\ \A i : Sole(i)' <=> Sole(i)
      /\ \A i : EnvSet(i)' <=> EnvSet(i)
  BY <1>1 DEF FileUsable, Sole, EnvSet
<1>3. \A i : Offered(i)' = Offered(i)
  BY <1>1, <1>2 DEF Offered
<1>4. \A i : Missing(i)' <=> Missing(i)
  BY <1>1, <1>2, <1>3 DEF Missing, Sources
<1>5. \A e, i : Unparsed(e, i)' <=> Unparsed(e, i)
  BY <1>1, <1>3 DEF Unparsed
<1>6. \A e : Blame(e)' <=> Blame(e)
  BY <1>1, <1>2, <1>4, <1>5 DEF Blame
<1> QED
  BY <1>1, <1>2, <1>3, <1>6

LEMMA TakenParts ==
  ASSUME NEW i
  PROVE  /\ Taken(i)[1] = TakenDefault(i) /\ Taken(i)[2] = TakenFile(i)
         /\ Taken(i)[3] = TakenEnv(i) /\ Taken(i)[4] = TakenFlag(i)
         /\ Taken(i)'[1] = TakenDefault(i)' /\ Taken(i)'[2] = TakenFile(i)'
         /\ Taken(i)'[3] = TakenEnv(i)' /\ Taken(i)'[4] = TakenFlag(i)'
  BY DEF Taken

LEMMA OfferedParts ==
  ASSUME NEW i
  PROVE  /\ Offered(i)[1] = IF typ[i].def = NoDefault THEN {} ELSE {typ[i].def}
         /\ Offered(i)[2] = IF ~FileUsable THEN {}
              ELSE {ValueToString(l.val) :
                      l \in {x \in file.leaves : FileKey(x.path) = FileKey(Path(typ, i))}}
         /\ Offered(i)[3] = IF EnvSet(i) THEN {env[EnvKey(typ, i)]} ELSE {}
         /\ Offered(i)[4] = {flags[n] : n \in {m \in DOMAIN flags :
                                Lower[m] = FileKey(Path(typ, i)) /\ flags[m] # Empty}}
  BY DEF Offered

\* In this step layer l hands the values of S to field i, the layers above it
\* have handed on none, and the others hand on none.
Gains(i, l, S) ==
  /\ \A m \in 1..4 : m > l => Taken(i)[m] = {}
  /\ \A m \in 1..4 : m # l => Taken(i)'[m] = Taken(i)[m]
  /\ Taken(i)'[l] = Taken(i)[l] \cup S

\* What a layer applied to the specs of a set hands to field i.
Handed(i, set, raw) == IF i \in set THEN {raw[i]} ELSE {}

AllTakenParse ==
  \A i \in Specs(typ) :
    Sole(i) => \A l \in 1..4 : \A raw \in Taken(i)[l] : Parses(typ[i].kind, raw)

LayerName == <<"default", "file", "env", "flag">>

\* A layer is applied to the specs of a set.
LEMMA LayerApplied ==
  ASSUME IInv, UNCHANGED input, Going,
         NEW l \in 1..4, NEW set \in SUBSET Specs(typ), NEW raw, NEW key,
         SetParsed(set, raw, key, LayerName[l]),
         \A i \in Specs(typ) : Sole(i) => Gains(i, l, Handed(i, set, raw)),
         \A i \in set : raw[i] \in Offered(i)[l]
  PROVE  /\ DOMAIN out' = 1..Len(typ')
         /\ Untouched' /\ Layered' /\ Blamed'
         /\ errs' = {} => errs = {} /\ AllTakenParse'
         /\ errs' = {} => \A i \in set : Parses(typ[i].kind, raw[i])
<1>1. /\ typ \in Types /\ DOMAIN out = 1..Len(typ) /\ typ' = typ
      /\ \A i : Sole(i)' <=> Sole(i)
  BY InputsKept DEF IInv, Shape
<1>2. Specs(typ) \subseteq DOMAIN out /\ Specs(typ) \subseteq 1..Len(typ)
  BY <1>1, SpecsBound
<1>3. /\ DOMAIN out' = DOMAIN out
      /\ \A i \in DOMAIN out :
           out'[i] = IF i \in set /\ Parses(typ[i].kind, raw[i])
                     THEN ParseValue(typ[i].kind, raw[i]) ELSE out[i]
      /\ errs' = {} => errs = {} /\ \A i \in set : Parses(typ[i].kind, raw[i])
      /\ \A e \in errs' : \/ e \in errs
                          \/ \E i \in set : /\ ~Parses(typ[i].kind, raw[i])
                                           /\ e.kind = "parse_failed" /\ e.layer = LayerName[l]
                                           /\ e.field = Path(typ, i)
  BY SetParsedFacts
<1>4. Untouched'
  BY <1>1, <1>2, <1>3 DEF Untouched, IInv
<1>5. ASSUME NEW i \in Specs(typ), Sole(i)
      PROVE  LeftBy(Readable(typ[i].kind, Taken(i)'), typ[i].kind, out'[i])
  <2> DEFINE S == Handed(i, set, raw)
  <2>1. LeftBy(Readable(typ[i].kind, Taken(i)), typ[i].kind, out[i])
    BY <1>5 DEF IInv, Layered
  <2>2. /\ \A m \in 1..4 : m > l => Taken(i)[m] = {}
        /\ \A m \in 1..4 : m # l => Taken(i)'[m] = Taken(i)[m]
        /\ Taken(i)'[l] = Taken(i)[l] \cup S
    BY <1>5 DEF Gains
  <2>3. \/ S = {} /\ out'[i] = out[i]
        \/ \E r : /\ S = {r}
                  /\ out'[i] = IF Parses(typ[i].kind, r) THEN ParseValue(typ[i].kind, r) ELSE out[i]
    BY <1>2, <1>3 DEF Handed
  <2> HIDE DEF S
  <2> DEFINE L == Taken(i)
             M == Taken(i)'
  <2>4. /\ LeftBy(Readable(typ[i].kind, L), typ[i].kind, out[i])
        /\ \A m \in 1..4 : m > l => L[m] = {}
        /\ \A m \in 1..4 : m # l => M[m] = L[m]
        /\ M[l] = L[l] \cup S
    BY <2>1, <2>2
  <2> HIDE DEF L, M
  <2>5. LeftBy(Readable(typ[i].kind, M), typ[i].kind, out'[i])
    BY <2>3, <2>4, LayerAdded
  <2> QED
    BY <2>5 DEF M
<1>6. Layered'
  BY <1>1, <1>5 DEF Layered
<1>7. Blamed'
  <2>1. ASSUME NEW e, NEW i \in set, ~Parses(typ[i].kind, raw[i]),
               e.kind = "parse_failed", e.layer = LayerName[l], e.field = Path(typ, i)
        PROVE  Blame(e)
    <3>1. raw[i] \in Offered(i)[l]
      OBVIOUS
    <3>2. Unparsed(e, i)
      BY <2>1, <3>1 DEF Unparsed, LayerName
    <3> QED
      BY <2>1, <3>2 DEF Blame
  <2>2. \A e \in errs' : Blame(e)
    BY <1>3, <2>1 DEF IInv, Blamed
  <2> QED
    BY <2>2, InputsKept DEF Blamed
<1>8. ASSUME errs' = {} PROVE errs = {} /\ AllTakenParse'
  <2>1. errs = {} /\ AllTakenParse
    BY <1>3, <1>8 DEF IInv, Accepted, AllTakenParse
  <2>2. ASSUME NEW i \in Specs(typ), Sole(i), NEW m \in 1..4, NEW r \in Taken(i)'[m]
        PROVE  Parses(typ[i].kind, r)
    BY <1>3, <1>8, <2>1, <2>2 DEF AllTakenParse, Gains, Handed
  <2> QED
    BY <1>1, <2>1, <2>2 DEF AllTakenParse
<1> QED
  BY <1>1, <1>3, <1>4, <1>6, <1>7, <1>8

\* A step that applies nothing.
LEMMA NothingApplied ==
  ASSUME IInv, UNCHANGED input, out' = out, Going,
         \A i \in Specs(typ) : Sole(i) => \A m \in 1..4 : Taken(i)'[m] = Taken(i)[m]
  PROVE  /\ DOMAIN out' = 1..Len(typ')
         /\ Untouched' /\ Layered'
         /\ errs = {} => AllTakenParse'
<1>1. /\ DOMAIN out = 1..Len(typ) /\ typ' = typ
      /\ \A i : Sole(i)' <=> Sole(i)
  BY InputsKept DEF IInv, Shape
<1>2. Untouched'
  BY <1>1 DEF Untouched, IInv
<1>3. ASSUME NEW i \in Specs(typ), Sole(i)
      PROVE  LeftBy(Readable(typ[i].kind, Taken(i)'), typ[i].kind, out[i])
  <2>1. LeftBy(Readable(typ[i].kind, Taken(i)), typ[i].kind, out[i])
    BY <1>3 DEF IInv, Layered
  <2>2. \A m \in 1..4 : Taken(i)'[m] = Taken(i)[m]
    BY <1>3
  <2> QED
    BY <2>1, <2>2, LayersSame
<1>4. Layered'
  BY <1>1, <1>3 DEF Layered
<1>5. errs = {} => AllTakenParse'
  BY <1>1 DEF AllTakenParse, IInv, Accepted
<1> QED
  BY <1>1, <1>2, <1>4, <1>5

-----------------------------------------------------------------------------
(* One lemma per action *)

\* What an action leaves to show once the fields are accounted for.
LEMMA Reassembled ==
  ASSUME Shape', Pending', Untouched', Layered', Blamed',
         Going' /\ errs' = {} => Accepted'
  PROVE  IInv'
<1>1. Accepted'
  BY DEF Accepted
<1> QED
  BY <1>1 DEF IInv

\* A readable file yields no errors, and only a readable one does.
LEMMA ReadErrorsFacts ==
  /\ FileUsable => ReadErrors(file) = {}
  /\ file.state = "ok" /\ ReadErrors(file) = {} => FileUsable
  /\ \A e \in ReadErrors(file) : e.kind \in {"file_read", "unknown_extension", "file_decode"}
<1>1. file.state = "ok" => ReadErrors(file) = FlattenErrors(file.leaves)
  BY DEF ReadErrors
<1>2. \A e \in FlattenErrors(file.leaves) : e.kind = "file_decode"
  BY DEF FlattenErrors, Problem
<1>3. FlattenErrors(file.leaves) = {} <=> \A x \in file.leaves : Rendered(x.val)
  BY DEF FlattenErrors
<1>4. \A e \in ReadErrors(file) : e.kind \in {"file_read", "unknown_extension", "file_decode"}
  BY <1>2 DEF ReadErrors, Problem
<1> QED
  BY <1>1, <1>3, <1>4 DEF FileUsable

LEMMA CollectInv ==
  ASSUME IInv, Collect
  PROVE  IInv'
<1>1. /\ phase = "collect" /\ UNCHANGED input /\ vals' = vals /\ todo' = todo /\ out' = out
      /\ vals = <<>> /\ errs = {} /\ result = "none" /\ typ \in Types
  BY DEF Collect, IInv, Shape, Pending, BeforeEntries
<1>2. \/ phase' = "returned" /\ result' \in {"panic", "rejected"}
      \/ phase' = "defaults" /\ result' = result /\ errs' = {}
  BY DEF Collect, Finish
<1>3. \A e \in errs' : e.kind = "unsupported_type"
  <2>1. \A e \in CollectErrors(typ) : e.kind = "unsupported_type"
    BY DEF CollectErrors, Problem
  <2> QED
    BY <1>1, <2>1 DEF Collect
<1>4. Blamed'
  BY <1>3 DEF Blamed, Blame
<1>5. \A i \in Specs(typ) : Sole(i) => \A m \in 1..4 :
        phase' = "defaults" => Taken(i)'[m] = Taken(i)[m]
  <2>1. ASSUME NEW i, phase' = "defaults"
        PROVE  /\ TakenDefault(i)' = TakenDefault(i) /\ TakenFile(i)' = TakenFile(i)
               /\ TakenEnv(i)' = TakenEnv(i) /\ TakenFlag(i)' = TakenFlag(i)
    BY <1>1, <2>1, InputsKept DEF TakenDefault, TakenFile, TakenEnv, TakenFlag, AfterEnv
  <2> QED
    BY <2>1, TakenParts
<1>6. CASE phase' = "returned"
  BY <1>1, <1>2, <1>4, <1>6, InputsKept
     DEF IInv, Shape, Phases, Pending, BeforeEntries, Untouched, Layered, Accepted, Going
<1>7. CASE phase' = "defaults"
  <2>1. Going
    BY <1>1 DEF Going
  <2>2. DOMAIN out' = 1..Len(typ') /\ Untouched' /\ Layered' /\ AllTakenParse'
    <3>1. \A i \in Specs(typ) : Sole(i) => \A m \in 1..4 : Taken(i)'[m] = Taken(i)[m]
      BY <1>5, <1>7
    <3> QED
      BY <1>1, <2>1, <3>1, NothingApplied
  <2>3. Shape' /\ Pending'
    BY <1>1, <1>2, <1>7, <2>2, InputsKept DEF Shape, Phases, Pending, BeforeEntries
  <2>4. Accepted'
    BY <1>1, <1>7, <2>2 DEF Accepted, AllTakenParse, BeforeEntries, AfterEnv
  <2> QED
    BY <1>4, <2>2, <2>3, <2>4, Reassembled
<1> QED
  BY <1>2, <1>6, <1>7

LEMMA ApplyDefaultsInv ==
  ASSUME IInv, ApplyDefaults
  PROVE  IInv'
<1>0. PICK set, raw, key : /\ set = {i \in Specs(typ) : typ[i].def # NoDefault}
                          /\ raw = [i \in set |-> typ[i].def]
                          /\ key = [i \in set |-> EnvKey(typ, i)]
  OBVIOUS
<1>1. /\ phase = "defaults" /\ phase' = "file" /\ UNCHANGED input
      /\ vals' = vals /\ todo' = todo /\ result' = result
      /\ SetParsed(set, raw, key, LayerName[1])
  BY <1>0 DEF ApplyDefaults, LayerName
<1>2. vals = <<>> /\ result = "none" /\ typ \in Types /\ Going
  BY <1>1 DEF IInv, Shape, Pending, BeforeEntries, Going
<1>3. ASSUME NEW i \in Specs(typ)
      PROVE  Gains(i, 1, Handed(i, set, raw))
  <2>1. /\ TakenDefault(i) = {} /\ TakenFile(i) = {} /\ TakenEnv(i) = {} /\ TakenFlag(i) = {}
    BY <1>1, <1>2 DEF TakenDefault, TakenFile, TakenEnv, TakenFlag, AfterEnv
  <2>2. /\ TakenFile(i)' = {} /\ TakenEnv(i)' = {} /\ TakenFlag(i)' = {}
    BY <1>1, <1>2 DEF TakenFile, TakenEnv, TakenFlag, AfterEnv
  <2>3. TakenDefault(i)' = Handed(i, set, raw)
    BY <1>0, <1>1, InputsKept DEF TakenDefault, Handed
  <2> QED
    BY <2>1, <2>2, <2>3, TakenParts DEF Gains
<1>4. \A i \in set : raw[i] \in Offered(i)[1]
  BY <1>0, OfferedParts
<1>5. set \in SUBSET Specs(typ)
  BY <1>0
<1>6. /\ DOMAIN out' = 1..Len(typ') /\ Untouched' /\ Layered' /\ Blamed'
      /\ errs' = {} => AllTakenParse'
  <2>1. \A i \in Specs(typ) : Sole(i) => Gains(i, 1, Handed(i, set, raw))
    BY <1>3
  <2>2. UNCHANGED input /\ Going /\ SetParsed(set, raw, key, LayerName[1]) /\ 1 \in 1..4
    BY <1>1, <1>2
  <2> QED
    BY <1>4, <1>5, <2>1, <2>2, LayerApplied
<1>7. Shape' /\ Pending'
  BY <1>1, <1>2, <1>6, InputsKept DEF Shape, Phases, Pending, BeforeEntries
<1>8. errs' = {} => Accepted'
  BY <1>1, <1>2, <1>6 DEF Accepted, AllTakenParse, BeforeEntries, AfterEnv
<1> QED
  BY <1>6, <1>7, <1>8, Reassembled

LEMMA SkipFileInv ==
  ASSUME IInv, SkipFile
  PROVE  IInv'
<1>1. /\ phase = "file" /\ phase' = "env" /\ UNCHANGED input /\ out' = out
      /\ vals' = vals /\ todo' = todo /\ result' = result
      /\ file.state = "off" \/ ReadErrors(file) # {}
      /\ errs' = IF file.state = "off" THEN errs ELSE errs \cup ReadErrors(file)
  BY DEF SkipFile
<1>2. vals = <<>> /\ result = "none" /\ typ \in Types /\ Going
  BY <1>1 DEF IInv, Shape, Pending, BeforeEntries, Going
<1>3. ~FileUsable
  <2>1. file.state = "off" => ~FileUsable
    BY DEF FileUsable
  <2> QED
    BY <1>1, <2>1, ReadErrorsFacts
<1>4. ASSUME NEW i PROVE \A m \in 1..4 : Taken(i)'[m] = Taken(i)[m]
  <2>1. /\ TakenDefault(i)' = TakenDefault(i) /\ TakenFile(i)' = TakenFile(i)
        /\ TakenEnv(i)' = TakenEnv(i) /\ TakenFlag(i)' = TakenFlag(i)
    BY <1>1, <1>2, InputsKept DEF TakenDefault, TakenFile, TakenEnv, TakenFlag, AfterEnv
  <2> QED
    BY <2>1, TakenParts
<1>5. /\ DOMAIN out' = 1..Len(typ') /\ Untouched' /\ Layered'
      /\ errs = {} => AllTakenParse'
  BY <1>1, <1>2, <1>4, NothingApplied
<1>6. Blamed'
  <2>1. \A e \in ReadErrors(file) : Blame(e)
    BY <1>3, ReadErrorsFacts DEF Blame
  <2>2. \A e \in errs' : Blame(e)
    BY <1>1, <2>1 DEF IInv, Blamed
  <2> QED
    BY <1>1, <2>2, InputsKept DEF Blamed
<1>7. Shape' /\ Pending'
  BY <1>1, <1>2, <1>3, <1>5, InputsKept DEF Shape, Phases, Pending, BeforeEntries
<1>8. errs' = {} => Accepted'
  <2>1. errs' = {} => errs = {} /\ file'.state = "off"
    BY <1>1, InputsKept
  <2> QED
    BY <1>1, <1>2, <1>5, <2>1 DEF Accepted, AllTakenParse, BeforeEntries, AfterEnv
<1> QED
  BY <1>5, <1>6, <1>7, <1>8, Reassembled

LEMMA ReadFileInv ==
  ASSUME IInv, ReadFile
  PROVE  IInv'
<1>1. /\ phase = "file" /\ phase' = "entries" /\ UNCHANGED input /\ out' = out
      /\ result' = result /\ errs' = errs /\ vals' \in Flatten(file.leaves) /\ todo' = DOMAIN vals'
      /\ file.state = "ok" /\ ReadErrors(file) = {}
  BY DEF ReadFile
<1>2. vals = <<>> /\ result = "none" /\ typ \in Types /\ Going /\ FileUsable
  BY <1>1, ReadErrorsFacts DEF IInv, Shape, Pending, BeforeEntries, Going
<1>3. ASSUME NEW i PROVE \A m \in 1..4 : Taken(i)'[m] = Taken(i)[m]
  <2>1. /\ TakenDefault(i)' = TakenDefault(i)
        /\ TakenEnv(i)' = TakenEnv(i) /\ TakenFlag(i)' = TakenFlag(i)
    BY <1>1, <1>2, InputsKept DEF TakenDefault, TakenEnv, TakenFlag, AfterEnv
  <2>2. TakenFile(i)' = {} /\ TakenFile(i) = {}
    BY <1>1, <1>2 DEF TakenFile
  <2> QED
    BY <2>1, <2>2, TakenParts
<1>4. /\ DOMAIN out' = 1..Len(typ') /\ Untouched' /\ Layered'
      /\ errs = {} => AllTakenParse'
  BY <1>1, <1>2, <1>3, NothingApplied
<1>5. Blamed'
  BY <1>1, InputsKept DEF Blamed, IInv
<1>6. Shape' /\ Pending'
  BY <1>1, <1>2, <1>4, InputsKept DEF Shape, Phases, Pending, BeforeEntries
<1>7. errs' = {} => Accepted'
  BY <1>1, <1>2, <1>4, InputsKept DEF Accepted, AllTakenParse, BeforeEntries, AfterEnv
<1> QED
  BY <1>4, <1>5, <1>6, <1>7, Reassembled

\* An entry of the flat map stems from an entry of the file.
LEMMA FlatEntry ==
  ASSUME vals \in Flatten(file.leaves), FileUsable, NEW key \in DOMAIN vals,
         NEW i, FileKey(Path(typ, i)) = key
  PROVE  vals[key] \in Offered(i)[2]
<1>1. PICK l \in file.leaves : FileKey(l.path) = key /\ ValueToString(l.val) = vals[key]
  BY DEF Flatten
<1>2. Offered(i)[2] = {ValueToString(x.val) :
                         x \in {y \in file.leaves : FileKey(y.path) = FileKey(Path(typ, i))}}
  BY OfferedParts
<1>3. l \in {y \in file.leaves : FileKey(y.path) = FileKey(Path(typ, i))}
  BY <1>1
<1>4. ValueToString(l.val) \in Offered(i)[2]
  BY <1>2, <1>3
<1> QED
  BY <1>1, <1>4

LEMMA FileEntryInv ==
  ASSUME IInv, FileEntry
  PROVE  IInv'
<1>1. PICK key \in todo :
        /\ todo' = todo \ {key}
        /\ IF ByFileKey(key) = {}
           THEN /\ errs' = errs \cup {Problem(FileToken, key, "file_decode", "file")}
                /\ out' = out
           ELSE SetParsed(ByFileKey(key), [i \in ByFileKey(key) |-> vals[key]],
                          [i \in ByFileKey(key) |-> key], "file")
  BY DEF FileEntry
<1>2. /\ phase = "entries" /\ phase' = "entries" /\ UNCHANGED input
      /\ vals' = vals /\ result' = result
  BY DEF FileEntry
<1>3. /\ result = "none" /\ typ \in Types /\ Going /\ FileUsable /\ vals \in Flatten(file.leaves)
      /\ todo \subseteq DOMAIN vals /\ key \in DOMAIN vals
  BY <1>1, <1>2 DEF IInv, Shape, Pending, BeforeEntries, Going
<1>4. /\ ByFileKey(key) \subseteq Specs(typ)
      /\ \A i \in ByFileKey(key) : FileKey(Path(typ, i)) = key
      /\ ByFileKey(key) = {} => \A i \in Specs(typ) : FileKey(Path(typ, i)) # key
      /\ \A i \in Specs(typ) : Sole(i) /\ FileKey(Path(typ, i)) = key => ByFileKey(key) = {i}
  BY <1>3, FileKeyFound
<1>5. Pending'
  BY <1>1, <1>2, <1>3, InputsKept DEF Pending, BeforeEntries
<1>6. ASSUME NEW i
      PROVE  /\ TakenDefault(i)' = TakenDefault(i)
             /\ TakenEnv(i) = {} /\ TakenEnv(i)' = {} /\ TakenFlag(i) = {} /\ TakenFlag(i)' = {}
             /\ FileKey(Path(typ, i)) = key => TakenFile(i)' = TakenFile(i) \cup {vals[key]}
             /\ FileKey(Path(typ, i)) # key => TakenFile(i)' = TakenFile(i)
  <2>1. /\ TakenDefault(i)' = TakenDefault(i)
        /\ TakenEnv(i) = {} /\ TakenEnv(i)' = {} /\ TakenFlag(i) = {} /\ TakenFlag(i)' = {}
    BY <1>2, InputsKept DEF TakenDefault, TakenEnv, TakenFlag, AfterEnv
  <2>2. /\ FileKey(Path(typ, i)) = key => TakenFile(i)' = TakenFile(i) \cup {vals[key]}
        /\ FileKey(Path(typ, i)) # key => TakenFile(i)' = TakenFile(i)
    BY <1>1, <1>2, <1>3, InputsKept DEF TakenFile
  <2> QED
    BY <2>1, <2>2
<1>7. CASE ByFileKey(key) = {}
  <2>1. errs' = errs \cup {Problem(FileToken, key, "file_decode", "file")} /\ out' = out
    BY <1>1, <1>7
  <2>2. \A i \in Specs(typ) : Sole(i) => \A m \in 1..4 : Taken(i)'[m] = Taken(i)[m]
    BY <1>4, <1>6, <1>7, TakenParts
  <2>3. DOMAIN out' = 1..Len(typ') /\ Untouched' /\ Layered'
    BY <1>2, <1>3, <2>1, <2>2, NothingApplied
  <2>4. Blamed'
    <3>1. Blame(Problem(FileToken, key, "file_decode", "file"))
      BY <1>4, <1>7 DEF Blame, Problem
    <3>2. \A e \in errs' : Blame(e)
      BY <2>1, <3>1 DEF IInv, Blamed
    <3> QED
      BY <1>2, <3>2, InputsKept DEF Blamed
  <2>5. Shape' /\ errs' # {}
    BY <1>2, <1>3, <2>1, <2>3, InputsKept DEF Shape, Phases
  <2> QED
    BY <1>5, <2>3, <2>4, <2>5, Reassembled
<1>8. CASE ByFileKey(key) # {}
  <2>0. PICK set, raw, blame : /\ set = ByFileKey(key)
                               /\ raw = [i \in set |-> vals[key]]
                               /\ blame = [i \in set |-> key]
    OBVIOUS
  <2>1. /\ SetParsed(set, raw, blame, LayerName[2]) /\ 2 \in 1..4
        /\ set \in SUBSET Specs(typ)
    BY <1>1, <1>4, <1>8, <2>0 DEF LayerName
  <2>2. ASSUME NEW i \in Specs(typ), Sole(i)
        PROVE  Gains(i, 2, Handed(i, set, raw))
    <3>1. Handed(i, set, raw) = IF FileKey(Path(typ, i)) = key THEN {vals[key]} ELSE {}
      BY <1>4, <2>0, <2>2 DEF Handed
    <3>2. TakenFile(i)' = TakenFile(i) \cup Handed(i, set, raw)
      BY <1>6, <3>1
    <3> QED
      BY <1>6, <3>2, TakenParts DEF Gains
  <2>3. \A i \in set : raw[i] \in Offered(i)[2]
    BY <1>3, <1>4, <2>0, FlatEntry
  <2>4. \A i \in Specs(typ) : Sole(i) => Gains(i, 2, Handed(i, set, raw))
    BY <2>2
  <2>5. /\ DOMAIN out' = 1..Len(typ') /\ Untouched' /\ Layered' /\ Blamed'
        /\ errs' = {} => errs = {} /\ AllTakenParse'
        /\ errs' = {} => \A i \in set : Parses(typ[i].kind, raw[i])
    BY <1>2, <1>3, <2>1, <2>3, <2>4, LayerApplied
  <2>6. Shape'
    BY <1>2, <1>3, <2>5, InputsKept DEF Shape, Phases
  <2>7. errs' = {} => Accepted'
    <3> SUFFICES ASSUME errs' = {} PROVE Accepted'
      OBVIOUS
    <3>1. errs = {} /\ AllTakenParse'
      BY <2>5
    <3>2. \A k \in DOMAIN vals : k \notin todo =>
            \E i \in Specs(typ) : FileKey(Path(typ, i)) = k /\ Parses(typ[i].kind, vals[k])
      BY <1>2, <1>3, <3>1 DEF IInv, Accepted
    <3>3. \E i \in Specs(typ) : FileKey(Path(typ, i)) = key /\ Parses(typ[i].kind, vals[key])
      BY <1>4, <1>8, <2>0, <2>5
    <3>4. \A k \in DOMAIN vals' : k \notin todo' =>
            \E i \in Specs(typ') : FileKey(Path(typ', i)) = k /\ Parses(typ'[i].kind, vals'[k])
      BY <1>1, <1>2, <3>2, <3>3, InputsKept
    <3> QED
      BY <1>2, <1>3, <3>1, <3>4, InputsKept DEF Accepted, AllTakenParse, AfterEnv
  <2> QED
    BY <1>5, <2>5, <2>6, <2>7, Reassembled
<1> QED
  BY <1>7, <1>8

LEMMA FileDoneInv ==
  ASSUME IInv, FileDone
  PROVE  IInv'
<1>1. /\ phase = "entries" /\ phase' = "env" /\ UNCHANGED input /\ out' = out /\ todo = {}
      /\ vals' = vals /\ todo' = todo /\ result' = result /\ errs' = errs
  BY DEF FileDone
<1>2. /\ result = "none" /\ typ \in Types /\ Going /\ FileUsable /\ vals \in Flatten(file.leaves)
  BY <1>1 DEF IInv, Shape, Pending, BeforeEntries, Going
<1>3. ASSUME NEW i PROVE \A m \in 1..4 : Taken(i)'[m] = Taken(i)[m]
  <2>1. /\ TakenDefault(i)' = TakenDefault(i)
        /\ TakenEnv(i)' = TakenEnv(i) /\ TakenFlag(i)' = TakenFlag(i)
    BY <1>1, <1>2, InputsKept DEF TakenDefault, TakenEnv, TakenFlag, AfterEnv
  <2>2. TakenFile(i)' = TakenFile(i)
    BY <1>1, InputsKept DEF TakenFile
  <2> QED
    BY <2>1, <2>2, TakenParts
<1>4. /\ DOMAIN out' = 1..Len(typ') /\ Untouched' /\ Layered'
      /\ errs = {} => AllTakenParse'
  BY <1>1, <1>2, <1>3, NothingApplied
<1>5. Blamed'
  BY <1>1, InputsKept DEF Blamed, IInv
<1>6. Shape' /\ Pending'
  BY <1>1, <1>2, <1>4, InputsKept DEF Shape, Phases, Pending, BeforeEntries
<1>7. errs' = {} => Accepted'
  <2>1. errs = {} => \A k \in DOMAIN vals : \E i \in Specs(typ) :
             FileKey(Path(typ, i)) = k /\ Parses(typ[i].kind, vals[k])
    BY <1>1, <1>2 DEF IInv, Accepted
  <2> QED
    BY <1>1, <1>2, <1>4, <2>1, InputsKept DEF Accepted, AllTakenParse, AfterEnv
<1> QED
  BY <1>4, <1>5, <1>6, <1>7, Reassembled

LEMMA ApplyEnvInv ==
  ASSUME IInv, ApplyEnv
  PROVE  IInv'
<1>0. PICK set, raw, key : /\ set = {i \in Specs(typ) : EnvSet(i)}
                          /\ raw = [i \in set |-> env[EnvKey(typ, i)]]
                          /\ key = [i \in set |-> EnvKey(typ, i)]
  OBVIOUS
<1>1. /\ phase = "env" /\ phase' = "flags" /\ UNCHANGED input
      /\ vals' = vals /\ todo' = {n \in DOMAIN flags : flags[n] # Empty} /\ result' = result
      /\ SetParsed(set, raw, key, LayerName[3])
  BY <1>0 DEF ApplyEnv, LayerName
<1>2. /\ result = "none" /\ typ \in Types /\ Going
      /\ IF FileUsable THEN vals \in Flatten(file.leaves) ELSE vals = <<>>
  BY <1>1 DEF IInv, Shape, Pending, BeforeEntries, Going
<1>3. ASSUME NEW i \in Specs(typ)
      PROVE  Gains(i, 3, Handed(i, set, raw))
  <2>1. TakenDefault(i)' = TakenDefault(i) /\ TakenFile(i)' = TakenFile(i)
    BY <1>1, InputsKept DEF TakenDefault, TakenFile
  <2>2. TakenEnv(i) = {} /\ TakenFlag(i) = {} /\ TakenFlag(i)' = {}
    BY <1>1, InputsKept DEF TakenEnv, TakenFlag, AfterEnv
  <2>3. TakenEnv(i)' = Handed(i, set, raw)
    BY <1>0, <1>1, InputsKept DEF TakenEnv, Handed, AfterEnv
  <2> QED
    BY <2>1, <2>2, <2>3, TakenParts DEF Gains
<1>4. \A i \in set : raw[i] \in Offered(i)[3]
  BY <1>0, OfferedParts
<1>5. set \in SUBSET Specs(typ)
  BY <1>0
<1>6. /\ DOMAIN out' = 1..Len(typ') /\ Untouched' /\ Layered' /\ Blamed'
      /\ errs' = {} => errs = {} /\ AllTakenParse'
      /\ errs' = {} => \A i \in set : Parses(typ[i].kind, raw[i])
  <2>1. \A i \in Specs(typ) : Sole(i) => Gains(i, 3, Handed(i, set, raw))
    BY <1>3
  <2>2. UNCHANGED input /\ Going /\ SetParsed(set, raw, key, LayerName[3]) /\ 3 \in 1..4
    BY <1>1, <1>2
  <2> QED
    BY <1>4, <1>5, <2>1, <2>2, LayerApplied
<1>7. Shape' /\ Pending'
  BY <1>1, <1>2, <1>6, InputsKept DEF Shape, Phases, Pending, BeforeEntries
<1>8. errs' = {} => Accepted'
  <2> SUFFICES ASSUME errs' = {} PROVE Accepted'
    OBVIOUS
  <2>1. AllTakenParse' /\ errs = {}
    BY <1>6
  <2>2. /\ file.state = "off" \/ FileUsable
        /\ \A k \in DOMAIN vals : \E i \in Specs(typ) :
             FileKey(Path(typ, i)) = k /\ Parses(typ[i].kind, vals[k])
    BY <1>1, <1>2, <2>1 DEF IInv, Accepted, BeforeEntries
  <2>3. \A i \in Specs(typ) : EnvSet(i) => Parses(typ[i].kind, env[EnvKey(typ, i)])
    BY <1>0, <1>6
  <2> QED
    BY <1>1, <2>1, <2>2, <2>3, InputsKept DEF Accepted, AllTakenParse
<1> QED
  BY <1>6, <1>7, <1>8, Reassembled

LEMMA FlagOffered ==
  ASSUME NEW name \in DOMAIN flags, flags[name] # Empty,
         NEW i, FileKey(Path(typ, i)) = Lower[name]
  PROVE  flags[name] \in Offered(i)[4]
<1>1. name \in {m \in DOMAIN flags : Lower[m] = FileKey(Path(typ, i)) /\ flags[m] # Empty}
  OBVIOUS
<1>2. Offered(i)[4] = {flags[n] : n \in {m \in DOMAIN flags :
                        Lower[m] = FileKey(Path(typ, i)) /\ flags[m] # Empty}}
  BY OfferedParts
<1> QED
  BY <1>1, <1>2

LEMMA ApplyValueInv ==
  ASSUME IInv, ApplyValue
  PROVE  IInv'
<1>1. PICK name \in todo :
        /\ todo' = todo \ {name}
        /\ IF SpecByPath(name) = {}
           THEN /\ errs' = errs \cup {Problem(<<name>>, <<name>>, "unknown_field", "flag")}
                /\ out' = out
           ELSE SetParsed(SpecByPath(name), [i \in SpecByPath(name) |-> flags[name]],
                          [i \in SpecByPath(name) |-> <<name>>], "flag")
  BY DEF ApplyValue
<1>2. /\ phase = "flags" /\ phase' = "flags" /\ UNCHANGED input
      /\ vals' = vals /\ result' = result
  BY DEF ApplyValue
<1>3. /\ result = "none" /\ typ \in Types /\ Going
      /\ IF FileUsable THEN vals \in Flatten(file.leaves) ELSE vals = <<>>
      /\ todo \subseteq {n \in DOMAIN flags : flags[n] # Empty}
      /\ name \in DOMAIN flags /\ flags[name] # Empty
  BY <1>1, <1>2 DEF IInv, Shape, Pending, BeforeEntries, Going
<1>4. /\ SpecByPath(name) \subseteq Specs(typ)
      /\ \A i \in SpecByPath(name) : FileKey(Path(typ, i)) = Lower[name]
      /\ SpecByPath(name) = {} => \A i \in Specs(typ) : FileKey(Path(typ, i)) # Lower[name]
      /\ \A i \in Specs(typ) :
           Sole(i) /\ FileKey(Path(typ, i)) = Lower[name] => SpecByPath(name) = {i}
  BY <1>3, PathFound
<1>5. Pending'
  BY <1>1, <1>2, <1>3, InputsKept DEF Pending, BeforeEntries
<1>6. ASSUME NEW i
      PROVE  /\ TakenDefault(i)' = TakenDefault(i) /\ TakenFile(i)' = TakenFile(i)
             /\ TakenEnv(i)' = TakenEnv(i)
             /\ FileKey(Path(typ, i)) = Lower[name] =>
                  TakenFlag(i)' = TakenFlag(i) \cup {flags[name]}
             /\ FileKey(Path(typ, i)) # Lower[name] => TakenFlag(i)' = TakenFlag(i)
  <2>1. TakenDefault(i)' = TakenDefault(i) /\ TakenFile(i)' = TakenFile(i)
    BY <1>2, InputsKept DEF TakenDefault, TakenFile
  <2>2. TakenEnv(i)' = TakenEnv(i)
    BY <1>2, InputsKept DEF TakenEnv
  <2>3. /\ FileKey(Path(typ, i)) = Lower[name] =>
             TakenFlag(i)' = TakenFlag(i) \cup {flags[name]}
        /\ FileKey(Path(typ, i)) # Lower[name] => TakenFlag(i)' = TakenFlag(i)
    BY <1>1, <1>2, <1>3, InputsKept DEF TakenFlag, AfterEnv
  <2> QED
    BY <2>1, <2>2, <2>3
<1>7. CASE SpecByPath(name) = {}
  <2>1. errs' = errs \cup {Problem(<<name>>, <<name>>, "unknown_field", "flag")} /\ out' = out
    BY <1>1, <1>7
  <2>2. \A i \in Specs(typ) : Sole(i) => \A m \in 1..4 : Taken(i)'[m] = Taken(i)[m]
    BY <1>4, <1>6, <1>7, TakenParts
  <2>3. DOMAIN out' = 1..Len(typ') /\ Untouched' /\ Layered'
    BY <1>2, <1>3, <2>1, <2>2, NothingApplied
  <2>4. Blamed'
    <3>1. Blame(Problem(<<name>>, <<name>>, "unknown_field", "flag"))
      BY <1>4, <1>7 DEF Blame, Problem
    <3>2. \A e \in errs' : Blame(e)
      BY <2>1, <3>1 DEF IInv, Blamed
    <3> QED
      BY <1>2, <3>2, InputsKept DEF Blamed
  <2>5. Shape' /\ errs' # {}
    BY <1>2, <1>3, <2>1, <2>3, InputsKept DEF Shape, Phases
  <2> QED
    BY <1>5, <2>3, <2>4, <2>5, Reassembled
<1>8. CASE SpecByPath(name) # {}
  <2>0. PICK set, raw, blame : /\ set = SpecByPath(name)
                               /\ raw = [i \in set |-> flags[name]]
                               /\ blame = [i \in set |-> <<name>>]
    OBVIOUS
  <2>1. /\ SetParsed(set, raw, blame, LayerName[4]) /\ 4 \in 1..4
        /\ set \in SUBSET Specs(typ)
    BY <1>1, <1>4, <1>8, <2>0 DEF LayerName
  <2>2. ASSUME NEW i \in Specs(typ), Sole(i)
        PROVE  Gains(i, 4, Handed(i, set, raw))
    <3>1. Handed(i, set, raw) = IF FileKey(Path(typ, i)) = Lower[name] THEN {flags[name]} ELSE {}
      BY <1>4, <2>0, <2>2 DEF Handed
    <3>2. TakenFlag(i)' = TakenFlag(i) \cup Handed(i, set, raw)
      BY <1>6, <3>1
    <3> QED
      BY <1>6, <3>2, TakenParts DEF Gains
  <2>3. \A i \in set : raw[i] \in Offered(i)[4]
    BY <1>3, <1>4, <2>0, FlagOffered
  <2>4. \A i \in Specs(typ) : Sole(i) => Gains(i, 4, Handed(i, set, raw))
    BY <2>2
  <2>5. /\ DOMAIN out' = 1..Len(typ') /\ Untouched' /\ Layered' /\ Blamed'
        /\ errs' = {} => errs = {} /\ AllTakenParse'
        /\ errs' = {} => \A i \in set : Parses(typ[i].kind, raw[i])
    BY <1>2, <1>3, <2>1, <2>3, <2>4, LayerApplied
  <2>6. Shape'
    BY <1>2, <1>3, <2>5, InputsKept DEF Shape, Phases
  <2>7. errs' = {} => Accepted'
    <3> SUFFICES ASSUME errs' = {} PROVE Accepted'
      OBVIOUS
    <3>1. errs = {} /\ AllTakenParse'
      BY <2>5
    <3>2. /\ file.state = "off" \/ FileUsable
          /\ \A k \in DOMAIN vals : \E i \in Specs(typ) :
             FileKey(Path(typ, i)) = k /\ Parses(typ[i].kind, vals[k])
          /\ \A i \in Specs(typ) : EnvSet(i) => Parses(typ[i].kind, env[EnvKey(typ, i)])
          /\ \A n \in DOMAIN flags : flags[n] # Empty /\ n \notin todo =>
                \E i \in Specs(typ) : FileKey(Path(typ, i)) = Lower[n] /\ Parses(typ[i].kind, flags[n])
      BY <1>2, <1>3, <3>1 DEF IInv, Accepted, BeforeEntries, AfterEnv
    <3>3. \E i \in Specs(typ) : FileKey(Path(typ, i)) = Lower[name] /\ Parses(typ[i].kind, flags[name])
      BY <1>4, <1>8, <2>0, <2>5
    <3>4. \A n \in DOMAIN flags' : flags'[n] # Empty /\ n \notin todo' =>
            \E i \in Specs(typ') : FileKey(Path(typ', i)) = Lower[n] /\ Parses(typ'[i].kind, flags'[n])
      BY <1>1, <1>2, <3>2, <3>3, InputsKept
    <3> QED
      BY <1>2, <3>1, <3>2, <3>4, InputsKept DEF Accepted, AllTakenParse
  <2> QED
    BY <1>5, <2>5, <2>6, <2>7, Reassembled
<1> QED
  BY <1>7, <1>8

\* Once every flag is applied, the layers have handed on what they offer, the
\* file one of the spellings of a key.
AllApplied == Going /\ todo = {} /\ phase \in AfterEnv

LEMMA AllTaken ==
  ASSUME IInv, AllApplied, NEW i \in Specs(typ)
  PROVE  /\ \A m \in {1, 3, 4} : Taken(i)[m] = Offered(i)[m]
         /\ Taken(i)[2] \subseteq Offered(i)[2]
         /\ Taken(i)[2] = {} => Offered(i)[2] = {}
         /\ Taken(i)[2] # {} => \E raw \in Offered(i)[2] : Taken(i)[2] = {raw}
<1>1. TakenDefault(i) = Offered(i)[1] /\ TakenEnv(i) = Offered(i)[3]
  BY OfferedParts DEF TakenDefault, TakenEnv, AllApplied, AfterEnv
<1>2. TakenFlag(i) = Offered(i)[4]
  BY OfferedParts DEF TakenFlag, AllApplied
<1>3. IF FileUsable THEN vals \in Flatten(file.leaves) ELSE vals = <<>>
  BY DEF AllApplied, IInv, Pending, BeforeEntries, AfterEnv
<1>4. TakenFile(i) = {vals[k] : k \in {x \in DOMAIN vals : x = FileKey(Path(typ, i))}}
  BY DEF TakenFile, AllApplied, AfterEnv
<1>5. CASE ~FileUsable
  <2>1. Offered(i)[2] = {} /\ TakenFile(i) = {}
    <3>1. Offered(i)[2] = {}
      BY <1>5, OfferedParts
    <3>2. DOMAIN vals = {}
      BY <1>3, <1>5
    <3> QED
      BY <1>4, <3>1, <3>2
  <2> QED
    BY <1>1, <1>2, <2>1, TakenParts
<1>6. CASE FileUsable
  <2> DEFINE k == FileKey(Path(typ, i))
  <2>1. DOMAIN vals = {FileKey(l.path) : l \in file.leaves}
    BY <1>3, <1>6 DEF Flatten
  <2>2. Offered(i)[2] = {ValueToString(l.val) : l \in {x \in file.leaves : FileKey(x.path) = k}}
    BY <1>6, OfferedParts
  <2>3. CASE k \in DOMAIN vals
    <3>1. TakenFile(i) = {vals[k]}
      BY <1>4, <2>3
    <3>2. vals[k] \in Offered(i)[2]
      BY <1>3, <1>6, <2>3, FlatEntry
    <3> QED
      BY <1>1, <1>2, <3>1, <3>2, TakenParts
  <2>4. CASE k \notin DOMAIN vals
    <3>1. TakenFile(i) = {}
      BY <1>4, <2>4
    <3>2. Offered(i)[2] = {}
      BY <2>1, <2>2, <2>4
    <3> QED
      BY <1>1, <1>2, <3>1, <3>2, TakenParts
  <2> QED
    BY <2>3, <2>4
<1> QED
  BY <1>5, <1>6

LEMMA TakenIsSource ==
  ASSUME IInv, AllApplied, NEW i \in Specs(typ)
  PROVE  \E layers \in Sources(i) : \A m \in 1..4 : layers[m] = Taken(i)[m]
<1>1. /\ Taken(i)[1] = Offered(i)[1] /\ Taken(i)[3] = Offered(i)[3] /\ Taken(i)[4] = Offered(i)[4]
      /\ Taken(i)[2] \subseteq Offered(i)[2]
      /\ Taken(i)[2] = {} => Offered(i)[2] = {}
      /\ Taken(i)[2] # {} => \E raw \in Offered(i)[2] : Taken(i)[2] = {raw}
  BY AllTaken
<1>2. CASE Offered(i)[2] = {}
  <2>1. Offered(i) \in Sources(i)
    BY <1>2 DEF Sources
  <2>2. \A m \in 1..4 : Offered(i)[m] = Taken(i)[m]
    BY <1>1, <1>2
  <2> QED
    BY <2>1, <2>2
<1>3. CASE Offered(i)[2] # {}
  <2>1. PICK raw \in Offered(i)[2] : Taken(i)[2] = {raw}
    BY <1>1, <1>3
  <2> DEFINE L == [Offered(i) EXCEPT ![2] = {raw}]
  <2>2. L \in Sources(i)
    BY <1>3 DEF Sources
  <2>3. DOMAIN Offered(i) = 1..4
    BY DEF Offered
  <2>4. L[2] = {raw} /\ L[1] = Offered(i)[1] /\ L[3] = Offered(i)[3] /\ L[4] = Offered(i)[4]
    BY <2>3
  <2> HIDE DEF L
  <2>5. \A m \in 1..4 : L[m] = Taken(i)[m]
    BY <1>1, <2>1, <2>4
  <2> QED
    BY <2>2, <2>5
<1> QED
  BY <1>2, <1>3

LEMMA CheckRequiredInv ==
  ASSUME IInv, CheckRequired
  PROVE  IInv'
<1>1. /\ phase = "flags" /\ phase' = "validate" /\ UNCHANGED input /\ out' = out /\ todo = {}
      /\ vals' = vals /\ todo' = todo /\ result' = result
      /\ errs' = errs \cup
           {Problem(Path(typ, i), EnvKey(typ, i), "missing_required", "required") :
              i \in {j \in Specs(typ) : typ[j].required /\ out[j] = Zero(typ[j].kind)}}
  BY DEF CheckRequired
<1>2. /\ result = "none" /\ typ \in Types /\ Going /\ AllApplied
      /\ IF FileUsable THEN vals \in Flatten(file.leaves) ELSE vals = <<>>
  BY <1>1 DEF IInv, Shape, Pending, BeforeEntries, Going, AllApplied, AfterEnv
<1>3. ASSUME NEW i PROVE \A m \in 1..4 : Taken(i)'[m] = Taken(i)[m]
  <2>1. TakenDefault(i)' = TakenDefault(i) /\ TakenFile(i)' = TakenFile(i)
    BY <1>1, InputsKept DEF TakenDefault, TakenFile
  <2>2. TakenEnv(i)' = TakenEnv(i) /\ TakenFlag(i)' = TakenFlag(i)
    BY <1>1, InputsKept DEF TakenEnv, TakenFlag, AfterEnv
  <2> QED
    BY <2>1, <2>2, TakenParts
<1>4. /\ DOMAIN out' = 1..Len(typ') /\ Untouched' /\ Layered'
      /\ errs = {} => AllTakenParse'
  BY <1>1, <1>2, <1>3, NothingApplied
<1>5. Blamed'
  <2>1. ASSUME NEW i \in Specs(typ), typ[i].required, out[i] = Zero(typ[i].kind)
        PROVE  Missing(i)
    <3>1. ASSUME Sole(i)
          PROVE  \E layers \in Sources(i) :
                   LeftBy(Readable(typ[i].kind, layers), typ[i].kind, Zero(typ[i].kind))
      <4>1. LeftBy(Readable(typ[i].kind, Taken(i)), typ[i].kind, Zero(typ[i].kind))
        BY <1>2, <2>1, <3>1 DEF IInv, Layered
      <4>2. PICK layers \in Sources(i) : \A m \in 1..4 : layers[m] = Taken(i)[m]
        BY <1>2, TakenIsSource
      <4> QED
        BY <4>1, <4>2, LayersSame
    <3> QED
      BY <2>1, <3>1 DEF Missing
  <2>2. ASSUME NEW i \in Specs(typ), Missing(i)
        PROVE  Blame(Problem(Path(typ, i), EnvKey(typ, i), "missing_required", "required"))
    BY <2>2 DEF Blame, Problem
  <2>3. \A e \in errs' : Blame(e)
    BY <1>1, <2>1, <2>2 DEF IInv, Blamed
  <2> QED
    BY <1>1, <2>3, InputsKept DEF Blamed
<1>6. Shape' /\ Pending'
  BY <1>1, <1>2, <1>4, InputsKept DEF Shape, Phases, Pending, BeforeEntries
<1>7. errs' = {} => Accepted'
  <2> SUFFICES ASSUME errs' = {} PROVE Accepted'
    OBVIOUS
  <2>1. AllTakenParse' /\ errs = {}
    BY <1>1, <1>4
  <2>2. /\ file.state = "off" \/ FileUsable
        /\ \A k \in DOMAIN vals : \E i \in Specs(typ) :
             FileKey(Path(typ, i)) = k /\ Parses(typ[i].kind, vals[k])
        /\ \A i \in Specs(typ) : EnvSet(i) => Parses(typ[i].kind, env[EnvKey(typ, i)])
        /\ \A n \in DOMAIN flags : flags[n] # Empty =>
              \E i \in Specs(typ) : FileKey(Path(typ, i)) = Lower[n] /\ Parses(typ[i].kind, flags[n])
    BY <1>1, <1>2, <2>1 DEF IInv, Accepted, BeforeEntries, AfterEnv
  <2> QED
    BY <1>1, <2>1, <2>2, InputsKept DEF Accepted, AllTakenParse
<1> QED
  BY <1>4, <1>5, <1>6, <1>7, Reassembled

LEMMA RunValidateInv ==
  ASSUME IInv, RunValidate
  PROVE  IInv'
<1>1. /\ phase = "validate" /\ phase' = "returned" /\ UNCHANGED input /\ out' = out
      /\ vals' = vals /\ todo' = todo
      /\ result' = IF errs' = {} THEN "config" ELSE "rejected"
      /\ \/ errs' = errs
         \/ errs' = errs \cup {Problem(<<"(validate)">>, <<"validate">>, "validation", "validate")}
  BY DEF RunValidate, Finish
<1>2. /\ typ \in Types /\ Going /\ todo = {}
      /\ IF FileUsable THEN vals \in Flatten(file.leaves) ELSE vals = <<>>
  BY <1>1 DEF IInv, Shape, Pending, BeforeEntries, Going
<1>3. ASSUME NEW i PROVE \A m \in 1..4 : Taken(i)'[m] = Taken(i)[m]
  <2>1. TakenDefault(i)' = TakenDefault(i) /\ TakenFile(i)' = TakenFile(i)
    BY <1>1, InputsKept DEF TakenDefault, TakenFile
  <2>2. TakenEnv(i)' = TakenEnv(i) /\ TakenFlag(i)' = TakenFlag(i)
    BY <1>1, InputsKept DEF TakenEnv, TakenFlag, AfterEnv
  <2> QED
    BY <2>1, <2>2, TakenParts
<1>4. /\ DOMAIN out' = 1..Len(typ') /\ Untouched' /\ Layered'
      /\ errs = {} => AllTakenParse'
  BY <1>1, <1>2, <1>3, NothingApplied
<1>5. Blamed'
  <2>1. Blame(Problem(<<"(validate)">>, <<"validate">>, "validation", "validate"))
    BY DEF Blame, Problem
  <2>2. \A e \in errs' : Blame(e)
    BY <1>1, <2>1 DEF IInv, Blamed
  <2> QED
    BY <1>1, <2>2, InputsKept DEF Blamed
<1>6. Shape' /\ Pending'
  BY <1>1, <1>2, <1>4, InputsKept DEF Shape, Phases, Pending, BeforeEntries
<1>7. errs' = {} => Accepted'
  <2> SUFFICES ASSUME errs' = {} PROVE Accepted'
    OBVIOUS
  <2>1. AllTakenParse' /\ errs = {}
    BY <1>1, <1>4
  <2>2. /\ file.state = "off" \/ FileUsable
        /\ \A k \in DOMAIN vals : \E i \in Specs(typ) :
             FileKey(Path(typ, i)) = k /\ Parses(typ[i].kind, vals[k])
        /\ \A i \in Specs(typ) : EnvSet(i) => Parses(typ[i].kind, env[EnvKey(typ, i)])
        /\ \A n \in DOMAIN flags : flags[n] # Empty =>
              \E i \in Specs(typ) : FileKey(Path(typ, i)) = Lower[n] /\ Parses(typ[i].kind, flags[n])
    BY <1>1, <1>2, <2>1 DEF IInv, Accepted, BeforeEntries, AfterEnv
  <2> QED
    BY <1>1, <2>1, <2>2, InputsKept DEF Accepted, AllTakenParse
<1> QED
  BY <1>4, <1>5, <1>6, <1>7, Reassembled

-----------------------------------------------------------------------------
(* Theorems *)

LEMMA InitInv ==
  ASSUME Init
  PROVE  IInv
<1>1. Shape /\ Pending /\ Untouched /\ Blamed
  BY DEF Init, Shape, Phases, Pending, BeforeEntries, Untouched, Blamed
<1>2. ASSUME NEW i PROVE \A m \in 1..4 : Taken(i)[m] = {}
  <2>1. TakenDefault(i) = {} /\ TakenFile(i) = {} /\ TakenEnv(i) = {} /\ TakenFlag(i) = {}
    BY DEF Init, TakenDefault, TakenFile, TakenEnv, TakenFlag, AfterEnv
  <2> QED
    BY <2>1, TakenParts
<1>3. Layered
  <2> SUFFICES ASSUME NEW i \in Specs(typ)
               PROVE  LeftBy(Readable(typ[i].kind, Taken(i)), typ[i].kind, out[i])
    BY DEF Layered
  <2>1. out[i] = Zero(typ[i].kind)
    BY SpecsBound DEF Init
  <2>2. \A m \in 1..4 : Readable(typ[i].kind, Taken(i))[m] = {}
    BY <1>2 DEF Readable
  <2> QED
    BY <2>1, <2>2 DEF LeftBy
<1>4. Accepted
  <2>1. phase = "collect" /\ vals = <<>>
    BY DEF Init
  <2> QED
    BY <1>2, <2>1 DEF Accepted, BeforeEntries, AfterEnv
<1> QED
  BY <1>1, <1>3, <1>4 DEF IInv

LEMMA StutterInv ==
  ASSUME IInv, UNCHANGED vars
  PROVE  IInv'
<1>1. UNCHANGED input /\ UNCHANGED <<phase, vals, todo, out, errs, result>>
  BY DEF vars, input
<1>2. \A i : Taken(i)' = Taken(i)
  BY <1>1, InputsKept DEF Taken, TakenDefault, TakenFile, TakenEnv, TakenFlag
<1>3. Shape' /\ Pending' /\ Untouched' /\ Blamed'
  BY <1>1, InputsKept DEF IInv, Shape, Pending, Going, Untouched, Blamed
<1>4. Layered'
  BY <1>1, <1>2, InputsKept DEF IInv, Layered, Going
<1>5. Accepted'
  BY <1>1, <1>2, InputsKept DEF IInv, Accepted, Going
<1> QED
  BY <1>3, <1>4, <1>5 DEF IInv

LEMMA StepInv ==
  ASSUME IInv, [Next]_vars
  PROVE  IInv'
<1>1. CASE Returned
  BY <1>1, StutterInv DEF Returned
<1> QED
  BY <1>1, CollectInv, ApplyDefaultsInv, SkipFileInv, ReadFileInv, FileEntryInv, FileDoneInv,
     ApplyEnvInv, ApplyValueInv, CheckRequiredInv, RunValidateInv, StutterInv DEF Next

\* The invariant holds at every step of Load.
THEOREM InvariantHolds == Spec => []IInv
<1>1. Init => IInv
  BY InitInv
<1>2. IInv /\ [Next]_vars => IInv'
  BY StepInv
<1> QED
  BY <1>1, <1>2, PTL DEF Spec

LEMMA ConfigApplied ==
  ASSUME IInv, result = "config"
  PROVE  AllApplied /\ errs = {} /\ Going
  BY DEF IInv, Shape, Pending, Going, AllApplied, AfterEnv, Phases

\* config.Loader.Load: a returned config holds in every field that alone answers
\* to its name a value of the highest layer that offers one (flag > env > file >
\* default), and the zero value where no layer may write; for every type and
\* every input.
THEOREM PrecedenceKept == Spec => []Precedence
<1>1. ASSUME IInv PROVE Precedence
  <2> SUFFICES ASSUME result = "config", NEW i \in 1..Len(typ)
               PROVE  IF i \notin Specs(typ) THEN out[i] = Zero(typ[i].kind)
                      ELSE Sole(i) => LeftBy(Offered(i), typ[i].kind, out[i])
    BY DEF Precedence
  <2>1. CASE i \notin Specs(typ)
    BY <1>1, <2>1 DEF IInv, Untouched
  <2>2. CASE i \in Specs(typ) /\ Sole(i)
    <3>1. AllApplied /\ errs = {} /\ Going
      BY <1>1, ConfigApplied
    <3>2. LeftBy(Readable(typ[i].kind, Taken(i)), typ[i].kind, out[i])
      BY <1>1, <2>2, <3>1 DEF IInv, Layered
    <3>3. \A m \in 1..4 : \A raw \in Taken(i)[m] : Parses(typ[i].kind, raw)
      BY <1>1, <2>2, <3>1 DEF IInv, Accepted
    <3>4. /\ \A m \in {1, 3, 4} : Taken(i)[m] = Offered(i)[m]
          /\ Taken(i)[2] \subseteq Offered(i)[2]
          /\ Taken(i)[2] = {} => Offered(i)[2] = {}
      BY <1>1, <2>2, <3>1, AllTaken
    <3>5. \A m \in 1..4 : /\ Taken(i)[m] \subseteq Offered(i)[m]
                          /\ Taken(i)[m] = {} => Offered(i)[m] = {}
      <4>1. \A m \in 1..4 : m = 2 \/ m \in {1, 3, 4}
        OBVIOUS
      <4> QED
        BY <3>4, <4>1
    <3>6. \A m \in 1..4 : Readable(typ[i].kind, Taken(i))[m] = Taken(i)[m]
      BY <3>3 DEF Readable
    <3> QED
      BY <2>2, <3>2, <3>5, <3>6 DEF LeftBy
  <2> QED
    BY <2>1, <2>2
<1> QED
  BY <1>1, InvariantHolds, PTL

\* Once the defaults are applied without a problem, they all parse.
DefaultsParse == \A i \in Specs(typ) : typ[i].def # NoDefault => Parses(typ[i].kind, typ[i].def)
DefaultsFine == Going /\ phase \notin {"collect", "defaults"} /\ errs = {} => DefaultsParse

\* No layer forgets a problem of another one.
LEMMA ErrorsStay ==
  ASSUME Next, ~Collect
  PROVE  UNCHANGED input /\ errs \subseteq errs'
<1>1. ASSUME NEW set, NEW raw, NEW key, NEW layer, SetParsed(set, raw, key, layer)
      PROVE  errs \subseteq errs'
  BY <1>1 DEF SetParsed
<1>2. CASE ApplyDefaults
  BY <1>1, <1>2 DEF ApplyDefaults
<1>3. CASE SkipFile \/ ReadFile \/ FileDone \/ CheckRequired \/ RunValidate \/ Returned
  BY <1>3 DEF SkipFile, ReadFile, FileDone, CheckRequired, RunValidate, Returned, vars, input
<1>4. CASE FileEntry
  BY <1>1, <1>4 DEF FileEntry
<1>5. CASE ApplyEnv
  BY <1>1, <1>5 DEF ApplyEnv
<1>6. CASE ApplyValue
  BY <1>1, <1>6 DEF ApplyValue
<1> QED
  BY <1>2, <1>3, <1>4, <1>5, <1>6 DEF Next

LEMMA DefaultsStep ==
  ASSUME IInv, DefaultsFine, [Next]_vars
  PROVE  DefaultsFine'
<1>1. CASE UNCHANGED vars
  BY <1>1, InputsKept DEF vars, input, DefaultsFine, DefaultsParse, Going
<1>2. CASE Collect
  BY <1>2 DEF Collect, Finish, DefaultsFine, Going
<1>3. CASE Next /\ ~Collect /\ phase \notin {"collect", "defaults"}
  <2>1. UNCHANGED input /\ (errs' = {} => errs = {})
    BY <1>3, ErrorsStay
  <2>2. Going' => Going
    BY <1>3 DEF Next, Going, ApplyDefaults, SkipFile, ReadFile, FileEntry, FileDone, ApplyEnv,
                ApplyValue, CheckRequired, RunValidate, Returned, vars
  <2> QED
    BY <1>3, <2>1, <2>2, InputsKept DEF DefaultsFine, DefaultsParse
<1>4. CASE Next /\ ~Collect /\ phase \in {"collect", "defaults"}
  <2>1. ApplyDefaults
    BY <1>4 DEF Next, SkipFile, ReadFile, FileEntry, FileDone, ApplyEnv, ApplyValue,
                CheckRequired, RunValidate, Returned
  <2>2. PICK set, raw, key : /\ set = {i \in Specs(typ) : typ[i].def # NoDefault}
                             /\ raw = [i \in set |-> typ[i].def]
                             /\ SetParsed(set, raw, key, "default")
    BY <2>1 DEF ApplyDefaults
  <2>3. errs' = {} => \A i \in set : Parses(typ[i].kind, raw[i])
    BY <2>2, SetParsedFacts
  <2>4. UNCHANGED input
    BY <2>1 DEF ApplyDefaults
  <2> QED
    BY <2>2, <2>3, <2>4, InputsKept DEF DefaultsFine, DefaultsParse
<1> QED
  BY <1>1, <1>2, <1>3, <1>4

\* config.Loader.Load: a returned config means that the file was usable, that
\* every file key and every flag names a field that can hold its value (of the
\* spellings of one file key, the one that was kept), and that every default and
\* every announced variable parses, also where a higher layer overrides it.
THEOREM NothingDropped == Spec => []NothingSwallowed
<1>1. ASSUME IInv, DefaultsFine PROVE NothingSwallowed
  <2> SUFFICES ASSUME result = "config"
               PROVE  /\ file.state = "off" \/ FileUsable
                      /\ DefaultsParse
                      /\ file.state = "ok" =>
                           \A l \in file.leaves : \E m \in file.leaves, i \in Specs(typ) :
                             /\ FileKey(m.path) = FileKey(l.path)
                             /\ FileKey(Path(typ, i)) = FileKey(l.path)
                             /\ Parses(typ[i].kind, ValueToString(m.val))
                      /\ \A k \in Keys(typ) \cap DOMAIN env : env[k] # Empty =>
                           \A i \in Specs(typ) :
                             EnvKey(typ, i) = k => Parses(typ[i].kind, env[k])
                      /\ \A n \in DOMAIN flags : flags[n] # Empty =>
                           \E i \in Specs(typ) : /\ FileKey(Path(typ, i)) = Lower[n]
                                                 /\ Parses(typ[i].kind, flags[n])
    BY DEF NothingSwallowed, DefaultsParse
  <2>1. AllApplied /\ errs = {} /\ Going
    BY <1>1, ConfigApplied
  <2>2. todo = {} /\ phase \in AfterEnv /\ phase \notin BeforeEntries /\ phase # "entries"
    BY <2>1 DEF AllApplied, AfterEnv, BeforeEntries
  <2>3. /\ file.state = "off" \/ FileUsable
        /\ \A k \in DOMAIN vals : \E i \in Specs(typ) :
             FileKey(Path(typ, i)) = k /\ Parses(typ[i].kind, vals[k])
        /\ \A i \in Specs(typ) : EnvSet(i) => Parses(typ[i].kind, env[EnvKey(typ, i)])
        /\ \A n \in DOMAIN flags : flags[n] # Empty =>
              \E i \in Specs(typ) : FileKey(Path(typ, i)) = Lower[n] /\ Parses(typ[i].kind, flags[n])
    BY <1>1, <2>1, <2>2 DEF IInv, Accepted
  <2>4. DefaultsParse
    BY <1>1, <2>1, <2>2 DEF DefaultsFine, BeforeEntries
  <2>5. ASSUME file.state = "ok", NEW l \in file.leaves
        PROVE  \E m \in file.leaves, i \in Specs(typ) :
                 /\ FileKey(m.path) = FileKey(l.path) /\ FileKey(Path(typ, i)) = FileKey(l.path)
                 /\ Parses(typ[i].kind, ValueToString(m.val))
    <3>1. FileUsable
      BY <2>3, <2>5
    <3>2. vals \in Flatten(file.leaves)
      BY <1>1, <2>1, <2>2, <3>1 DEF IInv, Pending
    <3>3. FileKey(l.path) \in DOMAIN vals
      BY <3>2 DEF Flatten
    <3>4. PICK m \in file.leaves : /\ FileKey(m.path) = FileKey(l.path)
                                   /\ ValueToString(m.val) = vals[FileKey(l.path)]
      BY <3>2, <3>3 DEF Flatten
    <3> QED
      BY <2>3, <3>3, <3>4
  <2>6. ASSUME NEW k \in Keys(typ) \cap DOMAIN env, env[k] # Empty,
               NEW i \in Specs(typ), EnvKey(typ, i) = k
        PROVE  Parses(typ[i].kind, env[k])
    <3>1. EnvSet(i)
      BY <2>6 DEF EnvSet, Keys
    <3> QED
      BY <2>3, <2>6, <3>1
  <2> QED
    BY <2>3, <2>4, <2>5, <2>6
<1>2. Init => DefaultsFine
  BY DEF Init, DefaultsFine
<1>3. IInv /\ DefaultsFine /\ [Next]_vars => DefaultsFine'
  BY DefaultsStep
<1> QED
  BY <1>1, <1>2, <1>3, InvariantHolds, PTL DEF Spec

\* config.Loader.Load: every problem it reports names something at fault.
THEOREM BlameJust == Spec => []BlameTruthful
<1>1. ASSUME IInv PROVE BlameTruthful
  <2> SUFFICES ASSUME NEW e \in errs
               PROVE  LET i == CHOOSE j \in Leaves(typ) : Path(typ, j) = e.field
                          rank == [default |-> 1, file |-> 2, env |-> 3, flag |-> 4]
                      IN CASE e.kind = "parse_failed" ->
                                Sole(i) => \E raw \in Offered(i)[rank[e.layer]] :
                                             ~Parses(typ[i].kind, raw)
                           [] e.kind = "missing_required" ->
                                Sole(i) => /\ typ[i].required
                                           /\ \E layers \in Sources(i) :
                                                LeftBy(Readable(typ[i].kind, layers),
                                                       typ[i].kind, Zero(typ[i].kind))
                           [] e.kind = "unknown_field" ->
                                \A j \in Specs(typ) : FileKey(Path(typ, j)) # Lower[e.field[1]]
                           [] e.kind = "file_decode" /\ file.state = "ok" /\ FileUsable ->
                                \A j \in Specs(typ) : FileKey(Path(typ, j)) # e.key
                           [] OTHER -> TRUE
    BY DEF BlameTruthful
  <2> DEFINE i == CHOOSE j \in Leaves(typ) : Path(typ, j) = e.field
             rank == [default |-> 1, file |-> 2, env |-> 3, flag |-> 4]
  <2>1. Blame(e)
    BY <1>1 DEF IInv, Blamed
  <2>2. ASSUME NEW s \in Specs(typ), e.field = Path(typ, s), Sole(i)
        PROVE  i = s
    <3>1. s \in Leaves(typ)
      BY SpecsBound
    <3>2. Path(typ, i) = e.field
      BY <2>2, <3>1
    <3> HIDE DEF i
    <3> QED
      BY <2>2, <3>2 DEF Sole
  <2>3. /\ rank["default"] = 1 /\ rank["file"] = 2 /\ rank["env"] = 3 /\ rank["flag"] = 4
    OBVIOUS
  <2> HIDE DEF i, rank
  <2>4. CASE e.kind = "parse_failed"
    <3>1. PICK s \in Specs(typ) : e.field = Path(typ, s) /\ Unparsed(e, s)
      BY <2>1, <2>4 DEF Blame
    <3>2. Sole(i) => \E raw \in Offered(i)[rank[e.layer]] : ~Parses(typ[i].kind, raw)
      BY <2>2, <2>3, <3>1 DEF Unparsed
    <3> QED
      BY <2>4, <3>2 DEF i, rank
  <2>5. CASE e.kind = "missing_required"
    <3>1. PICK s \in Specs(typ) : e.field = Path(typ, s) /\ Missing(s)
      BY <2>1, <2>5 DEF Blame
    <3>2. Sole(i) => /\ typ[i].required
                     /\ \E layers \in Sources(i) :
                          LeftBy(Readable(typ[i].kind, layers), typ[i].kind, Zero(typ[i].kind))
      BY <2>2, <3>1 DEF Missing
    <3> QED
      BY <2>5, <3>2 DEF i
  <2>6. CASE e.kind \notin {"parse_failed", "missing_required"}
    BY <2>1, <2>6 DEF Blame
  <2> QED
    BY <2>4, <2>5, <2>6
<1> QED
  BY <1>1, InvariantHolds, PTL

=============================================================================
