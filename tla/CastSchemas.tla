---------------------------- MODULE CastSchemas ----------------------------
(***************************************************************************)
(* The schemas of one geoarrow_compute("cast") (geoarrow-compute.cpp): the *)
(* view is created from the schema of the array, the builder from the one  *)
(* in the options, and release() describes the array built.                *)
(***************************************************************************)
EXTENDS Meta

VARIABLES
  from,    (* schema of the array read                                      *)
  to,      (* schema in the options                                         *)
  strict,  (* options$strict                                                *)
  source,  (* the Meta of the view                                          *)
  target,  (* the type the builder casts to                                 *)
  view,    (* "open" or "rejected"; "unnamed" when the points have          *)
           (* ordinates without a known name, which is not followed further *)
  out      (* << >>, the schema returned, or Refused when release() threw    *)

schemaVars == <<from, to, strict, source, target, view, out>>

NoSchema == << >>
Refused == <<Level("refused", 0, Unnamed, Unnamed)>>

(* create_view() and create_builder(), with which every call begins.       *)
SchemaInit(froms, tos) ==
  /\ from \in froms
  /\ to \in tos
  /\ strict \in BOOLEAN
  /\ source = MetaOf(from)
  /\ target = CastTarget(to)
  /\ view = IF ReaderOf(from) = "none" \/ target = "none" THEN "rejected"
            ELSE IF ReaderOf(from) = "native" /\ source.dim = "UNKNOWN"
            THEN "unnamed" ELSE "open"
  /\ out = NoSchema

(* release() and ComputeBuilder::finish_schema(), after dimensions d were  *)
(* announced last. A strict large format makes the builder large at once.  *)
Finish(d) ==
  LET written == Written(target, IF d = "UNKNOWN" THEN "XY" ELSE d,
                         strict /\ to[1].format \in {"Z", "U"})
  IN /\ view = "open"
     /\ out = NoSchema
     /\ out' = IF ~strict THEN written
               ELSE IF FormatIdentical(written, to) THEN to ELSE Refused
     /\ UNCHANGED <<from, to, strict, source, target, view>>

(***************************************************************************)
(* The schemas of the format, composed level by level from points up. What *)
(* the rings of a polygon are called does not matter, nor what the numbers *)
(* of a point are, as long as they could be called so.                     *)
(***************************************************************************)
Named(s, i, exts) == i <= Len(s) /\ Extension(s[i]) \in exts
Lists(s, i, exts) == Named(s, i, exts) /\ s[i].format = "+l" /\ s[i].kids = 1

IsPoint(s, i) ==
  /\ Named(s, i, {"Point"}) /\ s[i].format = "+w" /\ s[i].kids = 1
  /\ s[i].width > 0 /\ s[i].width = NameLength(s[i + 1].name)
  /\ Named(s, i + 1, Plain) /\ s[i + 1].format = "g"
IsLine(s, i) == Lists(s, i, {"Linestring"}) /\ IsPoint(s, i + 1)
IsRing(s, i) == Lists(s, i, Plain \cup Collecting \cup {"Linestring"}) /\ IsPoint(s, i + 1)
IsPolygon(s, i) == Lists(s, i, {"Polygon"}) /\ IsRing(s, i + 1)
IsCollection(s, i) ==
  /\ Lists(s, i, Collecting)
  /\ IsPoint(s, i + 1) \/ IsLine(s, i + 1) \/ IsPolygon(s, i + 1)
IsSerialized(s) ==
  \/ /\ Named(s, 1, {"WKB"}) /\ s[1].format \in {"z", "Z", "w"}
     /\ s[1].format = "w" => s[1].width > 0
  \/ Named(s, 1, {"WKT"}) /\ s[1].format \in {"z", "u", "Z", "U"}

InFormat(s) ==
  IsPoint(s, 1) \/ IsLine(s, 1) \/ IsPolygon(s, 1) \/ IsCollection(s, 1) \/ IsSerialized(s)

(* Exactly the arrays of the format can be read, whatever the levels below *)
(* and above are: the checks of one level, of its child and, for polygons, *)
(* of its grandchild, together with the dispatch on the extension of the   *)
(* child, leave no gap and no overlap (meta.hpp:58-281, factory.hpp:55-86).*)
AcceptedExactly ==
  target # "none" => (view = "rejected" <=> ~InFormat(from))

(* A cast returns a schema that is read back as the type cast to, with the *)
(* dimensions last announced. A strict cast may rename them, because       *)
(* schema_format_identical() does not look at names: XYM data may become   *)
(* XYZ, or be left without a name (compute-builder.hpp:113-123,            *)
(* arrow-hpp/schema.hpp:265-302).                                          *)
OutputReadable(d) ==
  out \notin {NoSchema, Refused} =>
    LET m == MetaOf(out)
    IN IF target \in {"WKB", "WKT"}
       THEN m.ext = target /\ ReaderOf(out) # "none"
       ELSE /\ m.type = target
            /\ \/ d \in {m.dim, "UNKNOWN"}
               \/ strict /\ {m.dim, d} \in {{"XYZ", "XYM"}, {"UNKNOWN", d}}
==============================================================================
