---------------------------- MODULE ConfigLoader ----------------------------
(***************************************************************************)
(* config.Loader.Load: one struct type resolved from its `default` tags,   *)
(* a file, the environment and flag values, in that order of increasing    *)
(* precedence, then the required check and the validation hook.            *)
(*                                                                         *)
(* A struct type is the sequence of its fields in declaration order, depth *)
(* first; a field of a nested struct names its parent's position (0: the   *)
(* target struct).  A raw string is the sequence of its comma-free pieces: *)
(* "a,b" is <<"a", "b">>, "" is <<"">>.  Go iterates over maps in random   *)
(* order, so file entries and flag values are applied in any order.        *)
(***************************************************************************)
EXTENDS Integers, Sequences, FiniteSets, SequencesExt

CONSTANTS
  Types,     \* struct types a program may load
  Files,     \* what the file layer may find
  Envs,      \* environments: functions from environment keys to raw strings
  Flags,     \* WithValues maps: functions from names to raw strings
  Lower      \* a name or file key, lower-cased and cut at its dots

\* What reflection tells of one field.
Fields == [name : STRING, parent : Nat, exported : BOOLEAN, anon : BOOLEAN,
           kind : STRING, tag : STRING, required : BOOLEAN, def : Seq(STRING)]

ASSUME TypesAssumption == Types \subseteq Seq(Fields)

NoTag == "-"
NoDefault == <<>>
Empty == <<"">>

VARIABLES
  typ,       \* the struct type T
  file,      \* the file layer's input: [state, leaves]
  env,       \* what the lookup function answers
  flags,     \* loaderConfig.values
  phase,     \* where Load stands
  vals,      \* the file's flat map, while its entries are applied
  todo,      \* map keys not applied yet
  out,       \* the target's fields
  errs,      \* the FieldErrors collected so far
  result     \* what Load returned

vars == <<typ, file, env, flags, phase, vals, todo, out, errs, result>>

input == <<typ, file, env, flags>>

-----------------------------------------------------------------------------
\* The parser every layer shares.

\* The decimal value of the pieces that are decimal numbers.
Decimal == [p \in {"0", "7", "0755", "300", "-1"} |->
              CASE p = "0" -> 0 [] p = "7" -> 7 [] p = "0755" -> 755
                [] p = "300" -> 300 [] OTHER -> -1]

\* Numbers a field of the kind can hold; strconv rejects the others.
Fits(kind, n) == CASE kind = "int8" -> n \in -128..127
                   [] kind = "uint" -> n >= 0
                   [] OTHER -> TRUE

SupportedType(kind) == kind \in {"string", "bool", "int", "int8", "uint", "list"}

Parses(kind, raw) ==
  CASE kind \in {"string", "list"} -> TRUE
    [] kind = "bool" -> raw \in {<<"true">>, <<"false">>, <<"0">>}
    [] OTHER -> /\ Len(raw) = 1
                /\ raw[1] \in DOMAIN Decimal
                /\ Fits(kind, Decimal[raw[1]])

ParseValue(kind, raw) ==
  CASE kind = "list" -> <<"list", raw>>
    [] kind = "string" -> <<"string", raw>>
    [] kind = "bool" -> <<"bool", raw = <<"true">>>>
    [] OTHER -> <<"num", Decimal[raw[1]]>>

\* Go's zero value; the zero slice is nil, which no parsed list equals.
Zero(kind) == CASE kind = "list" -> <<"list", <<>>>>
                [] kind = "string" -> <<"string", Empty>>
                [] kind = "bool" -> <<"bool", FALSE>>
                [] OTHER -> <<"num", 0>>

-----------------------------------------------------------------------------
\* The fields of the type.

Hidden(n) == ~n.exported /\ ~n.anon
IsStruct(n) == n.kind = "struct"
HasTag(n) == n.tag # NoTag

\* nestedWalk: an untagged embedded field, or a tagged struct.
NestedWalk(n) == (n.anon /\ ~HasTag(n)) \/ (IsStruct(n) /\ HasTag(n))

\* The fields the collector's loop visits: those of every struct it walks into.
Visited(t) ==
  LET v[i \in 1..Len(t)] ==
        \/ t[i].parent = 0
        \/ LET p == t[i].parent IN v[p] /\ ~Hidden(t[p]) /\ NestedWalk(t[p])
  IN  {i \in 1..Len(t) : v[i] /\ ~Hidden(t[i])}

\* The prefixes a field inherits: an embedded struct adds none.
EnvKey(t, i) ==
  LET pre[j \in 0..Len(t)] ==
        IF j = 0 THEN <<>>
        ELSE pre[t[j].parent] \o (IF HasTag(t[j]) THEN <<t[j].tag>> ELSE <<>>)
  IN  pre[i]

Path(t, i) ==
  LET pre[j \in 0..Len(t)] ==
        IF j = 0 THEN <<>>
        ELSE pre[t[j].parent] \o
             (IF j # i /\ ~HasTag(t[j]) THEN <<>> ELSE <<t[j].name>>)
  IN  pre[i]

\* A dotted path in lower case: the file layer's key, and what strings.EqualFold
\* compares for the flag layer.
FileKey(path) == FlattenSeq([i \in 1..Len(path) |-> Lower[path[i]]])

\* Tagged leaves: everything visited that is neither walked, nor a struct, nor
\* untagged.
Leaves(t) == {i \in Visited(t) : ~NestedWalk(t[i]) /\ ~IsStruct(t[i]) /\ HasTag(t[i])}

\* The specs, in the collector's order.
Specs(t) == {i \in Leaves(t) : SupportedType(t[i].kind)}

Problem(field, key, kind, layer) ==
  [field |-> field, key |-> key, kind |-> kind, layer |-> layer]

CollectErrors(t) ==
  {Problem(Path(t, i), <<t[i].tag>>, "unsupported_type", "type") :
     i \in Leaves(t) \ Specs(t)}

\* An untagged embedded field is walked whatever its type; reflection panics
\* on the fields of anything but a struct.
CollectPanics(t) ==
  \E i \in Visited(t) : NestedWalk(t[i]) /\ t[i].kind \notin {"struct", "time"}

-----------------------------------------------------------------------------
\* The file.

FileToken == <<"(file)">>

\* A decoded value is a scalar (its raw string), a list of values, or null.
Rendered(v) == v.t # "null" /\ (v.t = "list" => \A i \in 1..Len(v.v) : v.v[i].t # "null")

\* Lists become comma-joined strings; the empty list becomes "".
ValueToString(v) ==
  IF v.t # "list" THEN v.v
  ELSE IF v.v = <<>> THEN Empty
  ELSE FlattenSeq([i \in 1..Len(v.v) |-> v.v[i].v])

FlattenErrors(leaves) ==
  {Problem(FileToken, FileKey(l.path), "file_decode", "file") :
     l \in {x \in leaves : ~Rendered(x.val)}}

\* Entries whose keys meet in one flat key overwrite each other in map order.
Flatten(leaves) ==
  {f \in [{FileKey(l.path) : l \in leaves} -> {ValueToString(l.val) : l \in leaves}] :
     \A k \in DOMAIN f : \E l \in leaves : FileKey(l.path) = k /\ ValueToString(l.val) = f[k]}

\* What readFile reports: it reads before it looks at the extension.
ReadErrors(f) ==
  CASE f.state = "unreadable" -> {Problem(FileToken, <<"path">>, "file_read", "file")}
    [] f.state = "extension" -> {Problem(FileToken, <<"path">>, "unknown_extension", "file")}
    [] f.state = "garbled" -> {Problem(FileToken, <<"path">>, "file_decode", "file")}
    [] OTHER -> FlattenErrors(f.leaves)

-----------------------------------------------------------------------------
\* Load.

Init ==
  /\ typ \in Types
  /\ file \in Files
  /\ env \in Envs
  /\ flags \in Flags
  /\ phase = "collect"
  /\ vals = <<>>
  /\ todo = {}
  /\ out = [i \in 1..Len(typ) |-> Zero(typ[i].kind)]
  /\ errs = {}
  /\ result = "none"

Finish(verdict) == phase' = "returned" /\ result' = verdict

Collect ==
  /\ phase = "collect"
  /\ IF CollectPanics(typ)
     THEN Finish("panic") /\ errs' = errs
     ELSE /\ errs' = CollectErrors(typ)
          /\ IF errs' # {} THEN Finish("rejected")
             ELSE phase' = "defaults" /\ result' = result
  /\ UNCHANGED <<input, vals, todo, out>>

\* Mutant of SetParsed: a field that holds a value is not overridden.
SetParsedOnce(set, raw, key, layer) ==
  /\ out' = [i \in DOMAIN out |->
               IF i \in set /\ Parses(typ[i].kind, raw[i]) /\ out[i] = Zero(typ[i].kind)
               THEN ParseValue(typ[i].kind, raw[i]) ELSE out[i]]
  /\ errs' = errs \cup
       {Problem(Path(typ, i), key[i], "parse_failed", layer) :
          i \in {j \in set : ~Parses(typ[j].kind, raw[j])}}

\* setParsed for every spec in `set`: a raw value that does not parse leaves
\* the field as the lower layers set it and adds a problem.
SetParsed(set, raw, key, layer) ==
  /\ out' = [i \in DOMAIN out |->
               IF i \in set /\ Parses(typ[i].kind, raw[i])
               THEN ParseValue(typ[i].kind, raw[i]) ELSE out[i]]
  /\ errs' = errs \cup
       {Problem(Path(typ, i), key[i], "parse_failed", layer) :
          i \in {j \in set : ~Parses(typ[j].kind, raw[j])}}

ApplyDefaults ==
  /\ phase = "defaults"
  /\ LET set == {i \in Specs(typ) : typ[i].def # NoDefault}
     IN  SetParsed(set, [i \in set |-> typ[i].def], [i \in set |-> EnvKey(typ, i)], "default")
  /\ phase' = "file"
  /\ UNCHANGED <<input, vals, todo, result>>

\* Mutant of SkipFile: a broken file is treated like an absent one.
SkipFileSilently ==
  /\ phase = "file"
  /\ file.state = "off" \/ ReadErrors(file) # {}
  /\ phase' = "env"
  /\ UNCHANGED <<input, vals, todo, out, errs, result>>

\* applyFile without a file, or with one that could not be read: the layer is
\* skipped as a whole.
SkipFile ==
  /\ phase = "file"
  /\ file.state = "off" \/ ReadErrors(file) # {}
  /\ errs' = IF file.state = "off" THEN errs ELSE errs \cup ReadErrors(file)
  /\ phase' = "env"
  /\ UNCHANGED <<input, vals, todo, out, result>>

ReadFile ==
  /\ phase = "file"
  /\ file.state = "ok" /\ ReadErrors(file) = {}
  /\ vals' \in Flatten(file.leaves)
  /\ todo' = DOMAIN vals'
  /\ phase' = "entries"
  /\ UNCHANGED <<input, out, errs, result>>

\* byFileKey keeps the last spec of those that share a key.
ByFileKey(key) == {i \in Specs(typ) :
                     /\ FileKey(Path(typ, i)) = key
                     /\ \A j \in Specs(typ) : FileKey(Path(typ, j)) = key => j <= i}

FileEntry ==
  /\ phase = "entries"
  /\ \E key \in todo :
       /\ todo' = todo \ {key}
       /\ IF ByFileKey(key) = {}
          THEN /\ errs' = errs \cup {Problem(FileToken, key, "file_decode", "file")}
               /\ out' = out
          ELSE LET set == ByFileKey(key)
               IN  SetParsed(set, [i \in set |-> vals[key]], [i \in set |-> key], "file")
  /\ UNCHANGED <<input, phase, vals, result>>

FileDone ==
  /\ phase = "entries" /\ todo = {}
  /\ phase' = "env"
  /\ UNCHANGED <<input, vals, todo, out, errs, result>>

\* A variable that is set to "" counts as unset, and so does an empty key.
EnvSet(i) == LET k == EnvKey(typ, i)
             IN  k # Empty /\ k \in DOMAIN env /\ env[k] # Empty

ApplyEnv ==
  /\ phase = "env"
  /\ LET set == {i \in Specs(typ) : EnvSet(i)}
     IN  SetParsed(set, [i \in set |-> env[EnvKey(typ, i)]],
                   [i \in set |-> EnvKey(typ, i)], "env")
  /\ phase' = "flags"
  /\ todo' = {n \in DOMAIN flags : flags[n] # Empty}
  /\ UNCHANGED <<input, vals, result>>

\* specByPath: the first spec whose path equals the name up to case.
SpecByPath(name) == {i \in Specs(typ) :
                       /\ FileKey(Path(typ, i)) = Lower[name]
                       /\ \A j \in Specs(typ) : FileKey(Path(typ, j)) = Lower[name] => i <= j}

ApplyValue ==
  /\ phase = "flags"
  /\ \E name \in todo :
       /\ todo' = todo \ {name}
       /\ IF SpecByPath(name) = {}
          THEN /\ errs' = errs \cup {Problem(<<name>>, <<name>>, "unknown_field", "flag")}
               /\ out' = out
          ELSE LET set == SpecByPath(name)
               IN  SetParsed(set, [i \in set |-> flags[name]], [i \in set |-> <<name>>], "flag")
  /\ UNCHANGED <<input, phase, vals, result>>

\* Mutant of CheckRequired: required means set in the environment.
CheckRequiredInEnv ==
  /\ phase = "flags" /\ todo = {}
  /\ errs' = errs \cup
       {Problem(Path(typ, i), EnvKey(typ, i), "missing_required", "required") :
          i \in {j \in Specs(typ) : typ[j].required /\ ~EnvSet(j)}}
  /\ phase' = "validate"
  /\ UNCHANGED <<input, vals, todo, out, result>>

CheckRequired ==
  /\ phase = "flags" /\ todo = {}
  /\ errs' = errs \cup
       {Problem(Path(typ, i), EnvKey(typ, i), "missing_required", "required") :
          i \in {j \in Specs(typ) : typ[j].required /\ out[j] = Zero(typ[j].kind)}}
  /\ phase' = "validate"
  /\ UNCHANGED <<input, vals, todo, out, result>>

\* The consumer's hook accepts or refuses; it also runs when earlier layers
\* failed.  Any problem at all means that no config is returned.
RunValidate ==
  /\ phase = "validate"
  /\ \/ errs' = errs
     \/ errs' = errs \cup {Problem(<<"(validate)">>, <<"validate">>, "validation", "validate")}
  /\ Finish(IF errs' = {} THEN "config" ELSE "rejected")
  /\ UNCHANGED <<input, vals, todo, out>>

Returned == phase = "returned" /\ UNCHANGED vars

Next ==
  \/ Collect \/ ApplyDefaults \/ SkipFile \/ ReadFile \/ FileEntry \/ FileDone
  \/ ApplyEnv \/ ApplyValue \/ CheckRequired \/ RunValidate \/ Returned

Spec == Init /\ [][Next]_vars

\* Keys: the environment keys the type declares, without loading anything.
Keys(t) == {EnvKey(t, i) : i \in Specs(t)} \ {Empty}

-----------------------------------------------------------------------------
\* The contract, stated from the sources alone.

\* The file contributes all of its entries or none.
FileUsable == file.state = "ok" /\ \A l \in file.leaves : Rendered(l.val)

\* No other field of the type answers to this field's name.
Sole(i) == \A j \in Specs(typ) : FileKey(Path(typ, j)) = FileKey(Path(typ, i)) => j = i

\* The raw values each layer offers for a field, lowest precedence first.
Offered(i) ==
  << IF typ[i].def = NoDefault THEN {} ELSE {typ[i].def},
     IF ~FileUsable THEN {}
     ELSE {ValueToString(l.val) : l \in {x \in file.leaves : FileKey(x.path) = FileKey(Path(typ, i))}},
     IF EnvSet(i) THEN {env[EnvKey(typ, i)]} ELSE {},
     {flags[n] : n \in {m \in DOMAIN flags :
                          Lower[m] = FileKey(Path(typ, i)) /\ flags[m] # Empty}} >>

\* The flat file map keeps one of the spellings of a key: the raw values that
\* the layers may hand on.
Sources(i) ==
  IF Offered(i)[2] = {} THEN {Offered(i)}
  ELSE {[Offered(i) EXCEPT ![2] = {raw}] : raw \in Offered(i)[2]}

Readable(kind, layers) == [l \in 1..4 |-> {raw \in layers[l] : Parses(kind, raw)}]

\* The value is a readable one of the highest layer that has any, or the zero
\* value when none has.
LeftBy(layers, kind, value) ==
  \/ value = Zero(kind) /\ \A l \in 1..4 : layers[l] = {}
  \/ \E l \in 1..4 :
       /\ \E raw \in layers[l] : Parses(kind, raw) /\ value = ParseValue(kind, raw)
       /\ \A m \in 1..4 : m > l => layers[m] = {}

\* A returned config holds, for every tagged field that alone answers to its
\* name, a value of the highest layer that offers one (flag > env > file >
\* default), and the zero value in every field no layer may touch.
Precedence ==
  result = "config" =>
    \A i \in 1..Len(typ) :
      IF i \notin Specs(typ) THEN out[i] = Zero(typ[i].kind)
      ELSE Sole(i) => LeftBy(Offered(i), typ[i].kind, out[i])

\* A returned config means that nothing the operator supplied was dropped and no
\* problem hid behind a stronger layer: the file was usable, every file key and
\* every flag names a field that can hold its value, and every default and every
\* variable that Keys announces parses, also where a higher layer overrides it.
\* Where a file spells one key twice, one of the spellings is such a value; the
\* other one may be lost unseen in the flat map.
NothingSwallowed ==
  result = "config" =>
    /\ file.state = "off" \/ FileUsable
    /\ \A i \in Specs(typ) : typ[i].def # NoDefault => Parses(typ[i].kind, typ[i].def)
    /\ file.state = "ok" =>
         \A l \in file.leaves : \E m \in file.leaves, i \in Specs(typ) :
           /\ FileKey(m.path) = FileKey(l.path) /\ FileKey(Path(typ, i)) = FileKey(l.path)
           /\ Parses(typ[i].kind, ValueToString(m.val))
    /\ \A k \in Keys(typ) \cap DOMAIN env : env[k] # Empty =>
         \A i \in Specs(typ) : EnvKey(typ, i) = k => Parses(typ[i].kind, env[k])
    /\ \A n \in DOMAIN flags : flags[n] # Empty =>
         \E i \in Specs(typ) : /\ FileKey(Path(typ, i)) = Lower[n]
                               /\ Parses(typ[i].kind, flags[n])

\* Load blames only what is at fault: a parse failure names a layer that
\* offers an unparseable value, the highest layer that is readable for a
\* missing field holds its zero value (of the spellings of one file key, the one
\* that the flat map kept), an unknown key or flag has no field.
BlameTruthful ==
  \A e \in errs :
    LET i == CHOOSE j \in Leaves(typ) : Path(typ, j) = e.field
        rank == [default |-> 1, file |-> 2, env |-> 3, flag |-> 4]
    IN CASE e.kind = "parse_failed" ->
              Sole(i) => \E raw \in Offered(i)[rank[e.layer]] : ~Parses(typ[i].kind, raw)
         [] e.kind = "missing_required" ->
              Sole(i) => /\ typ[i].required
                         /\ \E layers \in Sources(i) :
                              LeftBy(Readable(typ[i].kind, layers), typ[i].kind, Zero(typ[i].kind))
         [] e.kind = "unknown_field" ->
              \A j \in Specs(typ) : FileKey(Path(typ, j)) # Lower[e.field[1]]
         [] e.kind = "file_decode" /\ file.state = "ok" /\ FileUsable ->
              \A j \in Specs(typ) : FileKey(Path(typ, j)) # e.key
         [] OTHER -> TRUE

\* "Everything else ... is not walked" (fields.go:35), and every failure of
\* Load is a Rejection (config.go:82): collecting the fields never panics.
CollectNeverPanics == result # "panic"

\* parse.go:100: "octal-looking env values like "0755" must fail, not silently
\* mean 493": no config is returned that holds a number written that way.
OctalLookingFails ==
  result = "config" =>
    \A i \in Specs(typ) : typ[i].kind \in {"int", "int8", "uint"} /\ EnvSet(i) =>
      env[EnvKey(typ, i)] # <<"0755">>

=============================================================================
