--------------------------- MODULE MCConfigLoader ---------------------------
(***************************************************************************)
(* Struct types, files, environments and flag maps for ConfigLoader: every *)
(* way a field can be declared, every way a source can be present, empty,  *)
(* wrong, or spelled twice.                                                *)
(***************************************************************************)
EXTENDS ConfigLoader, TLC

Field(name, kind, tag) ==
  [name |-> name, parent |-> 0, exported |-> TRUE, anon |-> FALSE, kind |-> kind,
   tag |-> tag, required |-> FALSE, def |-> NoDefault]

\* A scalar with a default, a required list in a tagged section, and a field
\* the loader must leave alone.
Sectioned == <<[Field("Addr", "int8", "ADDR") EXCEPT !.def = <<"7">>],
               Field("Nested", "struct", "DB"),
               [Field("Hosts", "list", "HOSTS") EXCEPT !.parent = 2, !.required = TRUE],
               Field("Own", "string", NoTag)>>

\* Two embedded structs that promote a field of the same name.
Promoted == <<[Field("Base", "struct", NoTag) EXCEPT !.anon = TRUE, !.exported = FALSE],
              [Field("Addr", "int", "ADDR") EXCEPT !.parent = 1, !.required = TRUE],
              [Field("Extra", "struct", NoTag) EXCEPT !.anon = TRUE],
              [Field("ADDR", "uint", "PORT") EXCEPT !.parent = 3]>>

\* A required field whose tag names no environment key, and a bad default.
Keyless == <<[Field("Addr", "bool", "") EXCEPT !.required = TRUE],
             [Field("Hosts", "string", "HOSTS") EXCEPT !.def = <<"x">>],
             [Field("Hidden", "int", "HIDDEN") EXCEPT !.exported = FALSE],
             [Field("Own", "struct", NoTag) EXCEPT !.parent = 0],
             [Field("Addr", "int8", "INNER") EXCEPT !.parent = 4, !.def = <<"300">>]>>

BadDefault == <<[Field("Addr", "int8", "ADDR") EXCEPT !.def = <<"300">>, !.required = TRUE]>>
Unsupported == <<Field("Addr", "map", "ADDR"), Field("Hosts", "list", "HOSTS")>>
EmbeddedPointer == <<[Field("Base", "pointer", NoTag) EXCEPT !.anon = TRUE],
                     Field("Addr", "int", "ADDR")>>

MCTypes == {Sectioned, Promoted, Keyless, BadDefault, Unsupported, EmbeddedPointer}

Scalar(raw) == [t |-> "scalar", v |-> raw]
List(items) == [t |-> "list", v |-> items]
Null == [t |-> "null", v |-> Empty]
Entry(path, val) == [path |-> path, val |-> val]
File(state, leaves) == [state |-> state, leaves |-> leaves]

MCFiles ==
  {File(s, {}) : s \in {"off", "unreadable", "extension", "garbled", "ok"}} \cup
  {File("ok", ls) : ls \in
     {{Entry(<<"addr">>, Scalar(<<"0755">>))},
      {Entry(<<"addr">>, Scalar(<<"7">>)), Entry(<<"ADDR">>, Scalar(<<"-1">>))},
      {Entry(<<"addr">>, Scalar(<<"7">>)), Entry(<<"ADDR">>, Scalar(<<"x">>))},
      {Entry(<<"nested", "hosts">>, List(<<Scalar(<<"a">>), Scalar(<<"b">>)>>))},
      {Entry(<<"nested.hosts">>, List(<<>>)), Entry(<<"nested", "hosts">>, Scalar(<<"x">>)),
       Entry(<<"addr">>, Scalar(<<"0">>))},
      {Entry(<<"hosts">>, Scalar(<<"true">>)), Entry(<<"addr">>, Scalar(<<"true">>))},
      {Entry(<<"addr">>, Null), Entry(<<"hosts">>, Scalar(<<"x">>))},
      {Entry(<<"addr">>, Scalar(<<"7">>)), Entry(<<"hosts">>, List(<<Null>>))},
      {Entry(<<"own">>, Scalar(<<"x">>))}}}

MCEnvs ==
  {<<>>} \cup
  {(<<"ADDR">> :> a) @@ (<<"DB", "HOSTS">> :> h) @@ (<<"">> :> <<"true">>) :
     a \in {Empty, <<"0">>, <<"0755">>, <<"300">>, <<"7">>}, h \in {Empty, <<"a", "b">>}}

MCFlags ==
  {<<>>, "addr" :> <<"-1">>, "own" :> <<"x">>} \cup
  {("addr" :> a) @@ ("ADDR" :> b) @@ ("nested.hosts" :> h) :
     a \in {Empty, <<"0">>}, b \in {<<"7">>, <<"x">>}, h \in {Empty, <<"x">>}}

MCLower == [k \in {"Addr", "ADDR", "addr", "Hosts", "hosts", "Nested", "nested",
                   "nested.hosts", "Base", "Extra", "Own", "own", "Hidden"} |->
              CASE k \in {"Addr", "ADDR", "addr"} -> <<"addr">>
                [] k \in {"Hosts", "hosts"} -> <<"hosts">>
                [] k \in {"Nested", "nested"} -> <<"nested">>
                [] k = "nested.hosts" -> <<"nested", "hosts">>
                [] k \in {"Own", "own"} -> <<"own">>
                [] OTHER -> <<"other">>]

=============================================================================
