# geoarrow in TLA+

This directory specifies the C++ core of the geoarrow R package
(`src/src/internal/geoarrow-cpp`, driven by `src/src/*.cpp` and `src/R/*.R`):
readers of Arrow arrays that hold geometries, and the handlers that build new
arrays or aggregates from what a reader passes to them.

## 1. The system

The package is single threaded: R calls `.Call()` entry points, each of which
runs to completion. What is hard here is not interleaving but *protocol*:
readers and handlers are written independently and agree only on the order of
about ten callbacks (`handler.hpp`) and on what each result value means. A
handler keeps state between callbacks (levels, counters, several buffers that
must stay in step, the dimensions announced last), and a feature can end in
four different ways (normally, by a null, by an early `ABORT_FEATURE`, by an
exception).

| Component | Where | State | Operations | Talks to |
|---|---|---|---|---|
| Array readers (`ArrayView` family, `WKBReader`, `WKTReader`) | `array-view-*.hpp`, `wkb-reader.hpp`, `wkt-reader.hpp`, `handler.hpp` | array offsets, `meta_`/`dim_` announced last, C++ recursion | `read_meta`, `set_array`, `read_feature(s)`, `read_geometry`, `read_coords` | calls a `Handler` |
| Cast builders | `compute-cast-{point,linestring,polygon,collection}.hpp`, `builder-list.hpp`, `compute-factory.hpp` | sub-builders per dimension, `size_`, list offsets, validity, `level_` | all handler methods, `release` | called by a reader or the wk bridge; own arrow-hpp builders |
| Cast to WKB / WKT | `compute-cast-wkb.hpp`, `compute-cast-wkt.hpp` | byte buffer, stack of open geometries, "first" flags | as above | own a `BinaryArrayBuilder`; read back by the WKB and WKT readers |
| Global bounds | `compute-bounds.hpp` | two bounders, which one is active | `new_dimensions`, `null_feat`, `coords`, `release` | called by a reader |
| GeoParquet types | `compute-geoparquet-types.hpp` | dimensions, two sets of types | `new_dimensions`, `geom_start`, `release` | called by a reader |
| arrow-hpp builders | `arrow-hpp/builder*.hpp` | buffers with size and capacity, bit buffer, `is_large_` | `reserve`, `write_*`, `finish_element`, `shrink`, `release` | owned by the builders above |
| Ownership of C structures | `arrow-hpp/{builder,schema}.hpp`, `util.cpp` | `release` pointers, children | `allocate_*`, finalizers, `*_deep_copy`, release callbacks | everything that releases an array |
| Entry points | `geoarrow-compute.cpp`, `geoarrow-compute-wk.cpp`, `geoarrow-handle-wk.cpp` | view, builder, filter position | `geoarrow_c_compute` (with filters), wk handler vtable, stream and vctr loops | join readers, builders and wk |
| `geoarrow_vctr` | `R/vctr.R`, `vctr.c` | list of chunks, vector of 1-based indices | construct, `[`, `c`, `is.na`, to array or stream | wk bridge, compute |
| Metadata and schemas | `meta.hpp`, `schema.hpp`, `R/metadata.R`, `R/schema.R` | parsed extension name and metadata | `schema_valid`, `array_valid`, `walk_*` | views, R |
| Numbers in WKT | `d2s.c`, `ryu/`, `internal/fast_float/fast_float.h` | none: functions | `geoarrow_d2sfixed_buffered_n`, `from_chars` | called by `WKTArrayBuilder` and `WKTReader` |
| Creation, GeoParquet I/O, glue | `R/create.R`, `factory.hpp`, `R/metadata-geoparquet.R`, `R/read.R`, `R/write.R`, `R/pkg-*.R`, `R/zzz.R` | none of their own | forward to the above, file I/O | R packages |

What makes each correct, in a sentence: a *reader* passes every feature's
callbacks in a well-nested order and goes on or stops as the result says; a
*cast builder* writes exactly one element per feature that decodes to what was
read, whatever mixture of types, nulls and empties arrives, and releases a
valid Arrow array; the *aggregates* depend on the multiset of features only; the
*arrow-hpp builders* behave like plain sequences however memory grows;
*ownership*: each structure is released once; `geoarrow_vctr` behaves like a
vector of features, whatever chunks store it.

What a unit test hardly reaches is listed in `PROJECT.json` under `hazards`,
each at its line with the properties that would catch it.

## 2. Modules

| Module | Models | Extends |
|---|---|---|
| `FeatureReader` | the callback protocol of all readers | |
| `CastBuilders`, `CastArray` | cast to a native encoding | `FeatureReader` |
| `OrdinateOrder` | doubles with NaN under `std::min`, `std::max` | |
| `GlobalBounder` | global bounds | `FeatureReader`, `OrdinateOrder` |
| `GeoParquetTypes` | GeoParquet geometry types | `FeatureReader` |
| `Aggregates` | the two operations that reduce an array to a row | instances of the two above |
| `BinaryBuilder` | `BinaryArrayBuilder` | |
| `SerializedBuilder` | state and properties the next two share | `FeatureReader`, `BinaryBuilder` |
| `CastWKB`, `CastWKBRead` | cast to WKB; `WKBReader` on the result | `SerializedBuilder` |
| `CastWKT`, `CastWKTRead` | cast to WKT; `WKTReader` on the result | `SerializedBuilder` |
| `CastSerialized` | cast to a serialized encoding | `SerializedBuilder`; instances of `CastWKB` and `CastWKT` |
| `CastSerializedRead` | the same, and reading back what was written | `CastSerialized`; instances of `CastWKBRead` and `CastWKTRead` |
| `ValidityBits`, `BitmapBuilder` | an append-only sequence of bits; the bitmap builder that implements it | |
| `ArrayRelease`, `MCArrayRelease` | ownership of the C structures while builders are released; the tree of the runs | |
| `GeoarrowVctr` | `geoarrow_vctr`: indices over a list of arrays | |
| `ArrayReader` | the loops and row filters of `geoarrow_compute`, and `read_feature`, around a reader | `FeatureReader` |
| `NativeReader`, `WKBReader`, `WKTReader` | the three families of readers over concrete arrays | `ArrayReader` |
| `Meta`, `CastSchemas` | what a schema means; the schemas of one cast | |
| `ArrayReaders`, `MCArrayReaders` | all readers behind one loop; their arrays, filters and schemas in the run | the three readers, `CastSchemas` |
| `WKBridge` | both bridges to wk handlers, one behind the other | `FeatureReader` |
| `Ryu`, `FromChars` | numbers to text (`d2s.c`), text to numbers (`fast_float.h`) | `FromChars` extends `Ryu` |
| `NumberText`, `WKTElements` | an ordinate on its way through WKT; with the validity bits of its array | `FromChars`; `BitmapBuilder`, `NumberText` |
| `FeatureReader_proofs`, `CastArray_proofs`, `CastSerialized_proofs`, `Aggregates_proofs`, `WKBridge_proofs`, `ArrayReaders_proofs`, `GeoarrowVctr_proofs` | theorems | the modules they are named for |
| `ArrowBuilders_proofs` | theorems about bitmaps and ownership | `BitmapBuilder`, `ArrayRelease` |

**`FeatureReader`** is the callback protocol. One behaviour is one array; the
content of the array is chosen call by call. Its actions correspond to the
callbacks (`ReadMeta`, `FeatStart`, `NullFeat`, `GeomStart`, `RingStart`,
`Coords`, `RingEnd`, `GeomEnd`, `FeatEnd`) and take the handler's result as a
parameter `r`; `Unwind` is what `HANDLE_OR_RETURN` / `HANDLE_CONTINUE_OR_BREAK`
do with it. `reader` selects what differs between the three families: who knows
sizes (`-1` in WKT), what size an empty point has, who announces dimensions
when. The recursion of `read_geometry()` is the variable `stack`. `cur` and
`features` are history: what was read. A handler's module conjoins the handler's
effect to each action; `ReaderSpec` is the protocol on its own, for any handler.
`WKBReader` looks at no type before it calls `geom_start()`: with
`WellTyped = FALSE`, `RootsRead` and `PartsRead` let WKB hold types that are not
recognized, and multi-geometries whose members are of any type. `Outcome` says
that for a type it does not recognize the reader throws only if the handler
answered `CONTINUE`; otherwise it does what the answer asks for.

**`CastBuilders`** holds the four cast builders as operators on records, one per
C++ method, returning `[res, b]`. Vertices are reduced to counts: the record
keeps validity bits, list offsets and numbers of doubles, which is what decides
whether an output array is valid. `Narrow` is the conversion of an `int64_t`
child size to the `int32_t` offset, with `IntMax` for `INT32_MAX`.
**`CastArray`** composes them with the reader: one action per call on the
handler, plus `Release`. It is `geoarrow_compute(op = "cast")` without a filter.

**`GlobalBounder`** and **`GeoParquetTypes`** compose `FeatureReader` with the
two aggregating handlers. Ordinates are a small set of integers, with `Infinity`
and `NaN` (`std::min`/`std::max` keep their first argument unless the
comparison holds, which decides what a NaN does). `GeoParquetTypes` collects the
type of a geometry that is not recognized as well, since it ends the feature
before the reader throws; `MakeType` names it with an empty string.
**`Aggregates`** is
`create_builder()` for these two: the variable `op` says which handler was made.

**`BitmapBuilder`** keeps the fields of the class: a byte buffer with its
capacity, the byte being filled (`buffer`, `bufferSize`), the late allocation
on the first `false`. Bytes are sets of set bits; bytes that `realloc()` did
not write are `Garbage`. `ValidityBits` is what the builder promises.

**`BinaryBuilder`** has the data, the validity and the two offset buffers of
`BinaryArrayBuilder`. Data is a sequence of *cells* (a field of WKB, a token of
WKT), each counting as one byte, which keeps `INT32_MAX` small: with seven cells
the offsets become 64-bit at any point of an element.
**`SerializedBuilder`** declares what both writers have, and the properties that
do not depend on the format; **`CastWKB`** and **`CastWKT`** are the two
writers over it, one action per handler method. `CastWKB` keeps the stack of counts to be patched,
`CastWKT` the stack and the two flags that decide on commas, tags and brackets.
`CastWKT` throws for a type it has no tag for, in the middle of an element
(`CallGeomStartThrows`).
**`CastWKBRead`** and **`CastWKTRead`** add `WKBReader` and `WKTReader` as
recursive operators on the cells of an element, and state the round trip.
**`CastSerialized`** is `create_builder()` for the two writers (`format`);
**`CastSerializedRead`** adds the readers to it, apart because a module with
recursive operators cannot be proved about.

**`ArrayRelease`** is `release()` of a tree of builders: a stack of `frames`,
each with a `CArrayFinalizer` whose two structures it allocates, describes,
fills with the builder's buffers and its children's structures, and moves to the
caller; then `finish_schema()`, with its recursive deep copy, under
`strict = TRUE`. A block of memory is a pair of a node and a purpose; `heap` is
what is allocated, `own` what a structure points to, `live` whether it has a
release member. `malloc()` may fail at every allocation, builders in `Throwers`
refuse, and `Unwind` is what the destructors of one frame do. `Plan` is the
order of the statements of a `release()`. The tree is a constant: a child
belongs to one parent, because parents hold children by `unique_ptr`, and
whatever is there is reached from the builder the entry point made.

**`GeoarrowVctr`** has the vector `v` (storage type, chunks, indices) and the
plain vector of features `want` it stands for. `[`/`rep()` and `c()` are actions;
what a wk handler is given, `as_narrow_array()` and `is.na()` are operators on
`v`; `as_narrow_array_stream()`, which resolves indices on four different paths
and keeps running positions from call to call, is a machine of its own
(`stream`) with one action per path.

**`ArrayReader`** is where the protocol meets data. It has the array (length,
offset, null bits), the filter and the position in both, and one action per way
a row is taken. **`NativeReader`** follows list offsets through sliced arrays
down to the coordinates; **`WKBReader`** reads headers, counts and coordinates
of an element that may end at any field, with members of any type in any
geometry that has members; **`WKTReader`** is the recursive
descent over the tokens of a text, with the tokens behind the cursor chosen as
they are consumed, so that every text of `MaxTokens` tokens is read, malformed
ones included. Each moves the variables of `FeatureReader` by its own rules, and
`Protocol` says that the result is a behaviour of `FeatureReader!ReaderSpec`: it
is what entitles the handlers' modules to assume that specification instead of
an array. `Progress` is every step but the
handler's refusal of a whole array in `array_start()`, which may happen and need not.

**`Meta`** translates `Meta` (`meta.hpp`): a schema is a sequence of levels, and
the walk over them gives a type, dimensions or an error. **`CastSchemas`** takes
one schema to a view, another to a builder, and the released schema back to a
view, with `strict` in between.

**`WKBridge`** has `WKGeoArrowHandler` (the stack of metas, part ids, ring and
coordinate ids, the vector's meta) driven by `FeatureReader`, the loops of
`geoarrow_handle_stream` and `geoarrow_handle_vctr`, and behind them the
`builder_*` functions of `geoarrow_c_compute_handler_new` with the size and
dimensions they keep for the builder. What the innermost builder answers is
chosen at every callback; phase `failed` is a call that left by an R error.

**`Ryu`** and **`FromChars`** are pure: the path the package takes through the
two libraries, for floating-point types of any width. Where the C code
multiplies by 128 bits of a power of 5 the modules multiply exactly; where
`compute_float()` would doubt its product, both outcomes are explored.
**`NumberText`** takes one ordinate, or a text of somebody else, through both,
and compares with the definition: the decimals between a number's two
neighbours. It also compares what a coordinate takes with the room `coords()`
makes for it.

## 3. Runs

| Run | Question | Bounds and why they suffice |
|---|---|---|
| `cast_features` | Nested offsets, types, nesting and sizes that vary per feature (native, WKB, WKT; collections of depth 3): does each element decode to the feature that was read? For members that are of their type and not empty, see section 4 | 2 features of up to 2 parts, rings or coordinates, all targets: two elements at every level is the least that can be shifted against each other, and state left by one feature meets the next |
| `cast_mixed_dims` | Anything an array may hold: dimensions that change between and inside features, empty parts, members of any type, types that are not recognized, and `INT32_MAX` = 2. Is a released array valid, whichever sub-builder it comes from, is each feature one element, does `level_` equal nesting? | 3 features, all readers: announce, change, change back; parts and nesting that no type allows, to depth 3 |
| `cast_leading_null`, `cast_nested_empty` | *violations*: see section 4 | |
| `aggregates` | Is the row of `global_bounds` the bounding box of all coordinates by kind of ordinate, and NaN exactly when a null says so, and are the types of `geoparquet_types` those of the features, each with its own dimensions; for all options? | 3 features; for bounds over the dimensions XY, XYM, XYZM with two finite values, NaN and infinity; for types root geometries only (the handler aborts each feature) |
| `wkt_elements` | Is what `write_coord()` writes the shortest decimal that reads back as the same number, or that decimal rounded to `significant_digits`; is what `from_chars()` reads the number nearest to any text, halfway cases to even (the two together make an ordinate that was not trimmed come back as it was); how much of the room made for a coordinate do 2 to 4 of them take, with what separates them? And does `BitmapBuilder` implement a sequence of bits, and release it? | every number of a type with 6-bit significands and 5-bit exponents (subnormals, powers of 2, largest and smallest, infinities, NaN): the width is a parameter of the algorithms, and at this one subnormals, carries, doubted products and the comparison of all digits occur; texts of up to three digits with any exponent, and longer than the 3 digits of a word about halfway, largest and smallest numbers; `Precisions` 10 trims nothing, 2 is one less than the longest decimal as 16 is, 0 and 1 trim. 26 bits (four bytes, a partial one included), `reserve()` by 0 or 24 more at any time, at most 2 nulls |
| `cast_serialized` | To WKB and WKT: are offsets exact, counts patched, commas, brackets, tags and `EMPTY` right, and elements read back as they were written? | 2 features, nesting 2, 2 parts, sizes known and unknown, XY and XYZ, collections of points, (empty) multi-geometries, multi-linestrings that hold points, and types that are not recognized included; `INT32_MAX` = 7 cells: less than one element of the larger features, so that widening happens inside an element, and between two |
| `release` | Has every block one owner at every step, does the caller get all or nothing, is nothing leaked or freed twice, whatever fails? | a struct of two children, one of them a list of points: several children, three levels, a builder that refuses after siblings were moved |
| `vctr` | Do the handlers, `as_narrow_array()`, `is.na()` and the stream agree with a plain vector of features? | up to 3 arrays of length 0 or 1 (casts inside `c()` make longer ones), 3 features, 1 null; subsets of up to 3 indices with NA, repetition and disorder; `c()` on whole vectors |
| `vctr_skipped` | *violation*: see section 4 | |
| `readers` | Do the readers, over arrays of any contents (WKB with members of any type and types that are not recognized included) and whatever is answered, make the calls the handlers are written against (`Protocol`); do the type announced, the dimensions in force, the byte order and the coordinates belong to what is read, is nothing read behind an element, is each row a filter selects read once and in order, does every call return; and is a schema accepted exactly if it is of the format, also the schema of what a cast released? | 2 rows, slices at every level, elements of 0 to 2 parts; WKB elements of 9 fields (a header and a coordinate inside a header), cut off anywhere; WKT elements of 7 tokens, in any order; headers of ISO and EWKB, both byte orders, SRID; each kind of filter with nulls, zeros and indices out of range; every schema of the format, and those of two dimensions with one level replaced by another or a child too many |
| `wk_bridge` | Are the ids and metas a wk handler receives those of the geometry being read, are the builder's size and dimensions those of the coordinates it is given, do the pointers handed out stay valid, does nothing follow an abort but `vector_end()`, and does every call end? | 2 arrays, 2 features, collections of depth 3, which is as deep as the stack has `Reserved` room, and two dimensions; every result at every callback |

The bounds in the `.cfg` files are `MaxFeatures`, `MaxParts`, `MaxDepth`,
`RootTypes` and `MemberTypes` (geometry types of features and of parts of
collections), `MaxLength`, `MaxNulls`, `MaxChunks`, `ChunkLengths`, `Extra`.
`Readers`, `Dims`, `Targets`, `NestedEmpty`, `WellTyped`, `Combine` and
`CombineSubsets` select cases.

Two properties are about termination. `ReadingEnds` (`readers`) assumes weak
fairness of `Progress`, and `EndsOrFails` (`wk_bridge`) weak fairness of `Next`.
Both stand for the same fact: a `.Call()` runs in one thread and takes its next
step whenever it has one. Which answer or token that step meets is never
subject to fairness. All other runs are about safety only and assume none:
nothing in this code waits. Deadlock checking is off where the call returns:
after `release()`, or after an exception, nothing more happens. It is on for
`vctr`, where a vector can always be used once more.

Two properties are refinements: `ImplementsBits` (`BitmapBuilder` implements
`ValidityBits`) and `Protocol` (the readers implement `FeatureReader`).

## 4. What the code does against its tests and comments

* **`cast_leading_null`** (`ReleasedNullsMatch`): `PointArrayBuilder::null_feat()`
  writes into the sub-builder that is active, XY until the first announcement.
  If the first non-null feature is not XY, the nulls before it stay in the XY
  sub-builder and the released array is shorter than its source. The test "can
  cast all null/empty examples" expects `is.na()` to be preserved.
* **`cast_nested_empty`** (`ElementsMatch`): an empty part of a multi-geometry
  is finished by the child's `geom_start()` (whose `ABORT_FEATURE`
  `MultiArrayBuilder` ignores) and again by the child's `feat_end()` in
  `geom_end()`, and so written twice.
* **`vctr_skipped`** (`StreamedAsWanted`): `as_narrow_array_stream()` leaves its
  loop with `next` when a chunk contributes nothing, before it advances the
  running offset; the indices of later chunks are made relative to the wrong
  one. A vector that takes only the second of two features stored in two arrays
  streams a null.

The passing runs leave these cases out by name: `cast_features` sets
`NestedEmpty = FALSE`, and `WellTyped = TRUE` because a `MULTILINESTRING` that
holds a `MULTILINESTRING` likewise finishes the child twice (all other runs have
`WellTyped = FALSE`, but for `cast_nested_empty`); `ElementsMatch` is stated for arrays whose dimensions are
announced at most once (`Points.ranges <= 1`), the only ones `release()`
accepts; `StreamExact` is stated while no chunk was skipped (`stream.aligned`);
`vctr` sets `CombineSubsets = FALSE`: `c()` numbers the concatenated arrays with
`seq_len()`, so that an argument that is a subset loses its selection, and
`ValuesKept` does not hold with `TRUE`. `FreedOnce` is stated while every string
could be replaced (`mislaid`): `set_format()` and `set_name()` free the old
string before they allocate the new one, and the pointer still says the old one
if that fails. `RowsExact` is stated for arrays whose own offset is 0, because
`is_null()` does not add it. `ElementsReadBack` of `CastWKTRead`
leaves out features WKT cannot express (`readable`): a ring without
coordinates, and a part of other dimensions or another type than its
multi-geometry says.

`RoomSuffices` says how far the room goes that `WKTArrayBuilder::coords()` makes
once for all coordinates of a call, because it is not always enough and nothing
in the repository says that it is: `significant_digits_ + 4` characters per
ordinate hold a coordinate with its separators (`' '` between ordinates, `", "`
before the coordinate) as long as no ordinate is negative or has more than 18
digits before the point. A negative one may take a character more per
coordinate (41 of 40 in XY, with 19 characters for each of two ordinates), and
the further digits of a large number, which can be 300, are not provided for at
all. The property bounds what is lacking by these two terms.

## 5. Proofs

All theorems hold for every value of the constants that satisfies the named
assumptions in the modules: arrays of any length and any nesting, any integer
width, any tree of builders. The assumptions are those on sizes and types
(`ReaderAssumption`, `BuilderAssumption`, `TargetAssumption`,
`IntMaxAssumption`, `BitmapAssumption`, `OrdinateAssumption`,
`BridgeAssumption`, `LoopAssumption`, `FilterAssumption`, `ListAssumption`,
`FieldsAssumption`, `HeaderAssumption`, `TokensAssumption`, `LeafAssumption`,
`VctrAssumption`), `BoundsAssumption` (the bounds of the protocol are no tighter
than those of the arrays read), `SchemasAssumption` (a schema has the children it
claims, which is what a `struct ArrowSchema` is), and `TreeAssumption` and
`BelowRootAssumption` (the builders are a tree). `WidthAssumption`,
`WordAssumption` and `NumberAssumption` serve the runs only; no theorem rests on
them.

**The reader.** `FeatureReader_proofs` shows, whatever the handler answers, that
each reader action preserves `ReaderTypeOK /\ StackWellFormed` (a ring is open
only innermost, geometries are open exactly in phase `geometry`), and what it
does to the depth of the stack. The modules below cite these lemmas. Theorem
`ReaderCallsNest` states the invariant for `ReaderSpec` itself, which `Protocol`
ties to the readers of concrete arrays.

**Concrete readers** (`ArrayReaders_proofs`). Theorem `ReadersFollowProtocol` is
the refinement `Protocol`: every step of a reader over an array is a step of
`FeatureReader!ReaderSpec`, or leaves its variables alone. That includes WKB in
which members are not of the type their multi-geometry says and types that are
not recognized (`~WellTyped`, which `BoundsAssumption` demands). So what is proved
below of a handler driven by `ReaderSpec` is true of it behind any of the three
readers. The guards of the protocol say how many parts and levels there may be;
that a reader keeps to them has to follow from the size of what it reads:

    IInv == ReaderInv /\ NestInv /\ LoopInv /\ AnnouncedInv /\ NativeInv /\ WKBInv /\ WKTInv

`NestInv` (whatever is open inside a geometry is inside one that has members) and `LoopInv` (an
iteration ends with at most one feature, and only a row that is not null opens a
geometry) are shared. `NativeInv` puts every open geometry inside the offsets of
its level, so that the parts announced exist below; `WKBInv` ties the fields
left to the headers taken; `WKTInv` counts the tokens an open geometry must have
cost, which depends on where in the grammar the parser stands (`expect`). On the
same invariant rest `ElementsNotOverrun` (nothing is read behind an element of
WKB) and `HeadersStayInForce` (`WKBInv` keeps the pair of dimension and byte
order per open geometry). `OneFeaturePerRow` (`RowsExact`) adds `RowsInv`: the
features read so far are as many as the rows the filter selected so far, and the
feature of a row stands at the rank of that row among them.

`CoordsReadExactly` (`CoordsExact`) says which coordinates of a native array are
passed on for a row: all of its slice, in order, none twice, through any slicing
of the levels between. It adds `PlacesInv`: frame by frame the range read is
exactly the one the offsets of its level give to the element read, which is the
row or the part that the frame above counted last (`FramesRead`); and the
coordinates passed on so far go from `First(Row)` to the place at which the
innermost frame stands (`SeenTo`). That the end of a part is the beginning of
the next needs no induction over levels, as there are at most three.

**Schemas** (`ArrayReaders_proofs`, last section). `SchemasAccepted` is
`AcceptedExactly` for every schema of levels of any formats, widths, names and
extensions: accepted is what the grammar of `CastSchemas` says, no more and no
less. `Metas` is defined from the last level up, so its defining equation is
itself proved, by induction over the number of levels known (`LevelAgrees`: the
meaning of a level depends on those below only; `MetasIs`). On it rests a lemma
per production: `Metas(s)[i].ext` is `Point` exactly if `IsPoint(s, i)`, and so on
up to collections (`PointMeaning` to `CollectionMeaning`), `ReaderMeaning` for
the whole. Writing the grammar as predicates instead of enumerating it showed how
much the rings of a polygon may be called: `set_schema()` looks at the extension
of a polygon's grandchild and not at that of its child. `SchemasReadable`
(`CastReadable`) is about what comes back. By `SchemasInv` that is the schema
written for the dimensions announced last, or the one asked for if that has the
same format; the first means what was asked for (`WrittenIs`), and for the
second, equal widths leave names with as many ordinates (`FormatIs`).

**Cast to a native encoding** (`CastArray_proofs`):

    IInv == TypeOK /\ StackWellFormed /\ LevelReset /\ LevelTracksDepth /\ ElementsCounted

`LevelTracksDepth` needs `StackWellFormed` (a `ring_end()` must not change the
number of open geometries) and `LevelReset` (`level_` is 0 whenever a feature
may start its first geometry: `feat_start()` resets it on every path);
`TypeOK` needs `LevelTracksDepth` (else `geom_end()` could make `level_`
negative); and `OneElementPerFeature` follows from `ElementsCounted`, which
says in every phase, not only between features, that the outer list has one
element per entry of `features`. `OnePointPerFeature` is the same for points,
counted over the sub-builders together. Theorems `CastTypeCorrect`,
`CastLevelTracksDepth`, `CastOneElementPerFeature`, `CastOnePointPerFeature`.

`CastReleasedValid` says that a released array is valid Arrow whatever mixture
of types, nulls and empties was read. It needs

    OutputInv == GoodInv /\ FamilyInv /\ SyncInv /\ ReleasedInv

`SyncInv` is the core: at each level the last offset is the size of the child,
though only where the builder has left that level (`Outside`, `~InPart`,
`~InRing`), since between `geom_start()` and `geom_end()` offsets lag behind.
That an aborted feature restores it depends on the types that may be open at
that moment (`FamilyInv`). `GoodInv` is the shape of a list at any moment
(offsets from 0 and never down, validity bits as many as elements or
none) and that the sub-builder in use is the one of the dimensions announced.

`CastElementsMatch` says that the elements of a list array are the features read,
down to each ring. It adds

    ContentInv == NestInv /\ CurInv /\ LinesInv /\ DecodeInv

`DecodeInv` is the core. A finished element lies between two offsets that are
never rewritten, so what it decodes to is settled; what must be said is what the
unfinished one *would* decode to if it were finished now: the parts ended so far
are those of the feature being read (`EndedAre`), and what was written below the
last offset of the child is its open part, of which the last ring may be open too
(`OpenIs`). `NestInv` and `CurInv` say which geometry may be open where (a part
is the feature itself or directly inside the multi-geometry, a simple builder is
given at most one), so that "the last part of `cur`" is the one the builder
writes. The theorem assumes `WellTyped` and `~NestedEmpty`: with empty parts it is
false, which is the finding of `cast_nested_empty`, and so it is with a
multi-geometry inside one of the same type (section 4). The other theorems about
the cast assume neither. It is stated as `ElementsMatch` is, for lists
whose children are no longer than `INT32_MAX`.

**Aggregates** (`Aggregates_proofs`): `BounderInv` says that the active bounder
is that of the dimensions announced last, that the two bounders *together* bound
what was read (neither alone does), and that a null that counts has ended the
reading with both bounders set to NaN. `CollectorInv` says that the two sets
are the types of the root geometries collected and left out.
The lemmas about `std::min` and `std::max` with NaN are those of
`OrdinateOrder`. Theorems `ReleasedRowIsBox`, `ReleasedRowIsNull`,
`ReleasedTypes`.

**Cast to WKB and WKT** (`CastSerialized_proofs`). Both writers share

    Common(C) == ReaderInv /\ b \in BinaryOf(C) /\ WidthFits(b) /\ OffsetsExact
                   /\ ElementsCounted   (and the types of the other variables)

for cells `C` of any kind. `OffsetsExact` needs `WidthFits`: `finish_element()`
stores the offset in the buffer in use without looking at its size, and is right
because every write before it has checked. Each format adds what its stack is
while a geometry is read, with what an induction needs to know in the other
phases, among it that `feat_start()` clears the stack an aborted feature left
behind:

    WKBInv == Common(WKB!Cell)  /\ open \in Seq(WKB!OpenType) /\ WKBAgree
    WKTInv == Common(WKT!Token) /\ open \in Seq(WKT!OpenType) /\ WKTAgree /\ (two flags)

`WKBAgree`: entry by entry the stack is that of the reader, with a position that
holds a count; it still does later because data is only written behind it or
patched at such a position. `WKTAgree`: the stack is that of the reader without
the ring, which only the innermost frame can be; an entry has the parts read so
far if its type has parts (the count of a geometry of coordinates goes on in
the reader alone, and nothing depends on it). `CastSerialized` uses both writers
as instances, so their operators are first shown to be those of `FeatureReader`
and `BinaryBuilder` (`WKBReaderCalls`, `WKBSame` and the like). Theorems
`SerializedTypeCorrect`, `SerializedOffsetsExact`, `SerializedElements`,
`SerializedStacksAgree`.

**Bitmaps** (`ArrowBuilders_proofs`): the invariant is `Layout` (where in the
stored bytes and in the buffered byte each element lies, the cursor within the
capacity, no stored byte uninitialised), `NullsKnown` (the null count is the
number of `FALSE` bits, and nothing is allocated as long as there is none) and
`ReleasedBitmap`. Under it `write_element()` appends one bit and every other
step leaves `Bits` alone, which is the refinement of `ValidityBits`. Theorems
`BitmapTypeCorrect`, `BitmapBytesWritten`, `BitmapReleased`,
`BitmapImplementsBits`.

**The wk bridge** (`WKBridge_proofs`):

    BridgeInv == ReaderInv /\ BridgeTypeOK /\ DriverInv /\ FramesInv /\ FlagsInv /\ CapacityInv

`DriverInv` says where the loops over a stream or vctr can be (a feature is read
only inside an array of an open vector; after `WK_ABORT` only `vector_end()` can
follow). `FramesInv` is `StacksInStep`: metas and part ids follow the reader's
stack frame by frame, rings excepted, which have an id of their own and no meta.
`FlagsInv` says that the builder behind the second bridge learned the dimensions
announced last. Theorems `IdsAreExact`, `BuilderKnowsDimensions`, `MetasStayPut`
(as long as geometries nest no deeper than was reserved, which is what the
code relies on, the stack of metas is never reallocated while one is open:
`CapacityInv`, with the stack bounded by the depth of the reader's),
`NothingAfterAbort`.

**`geoarrow_vctr`** (`GeoarrowVctr_proofs`). Features are stored in chunks of any
number and length, and an index picks one of them. With

    VctrInv == IsVctr(v) /\ want = Handled(v) /\ StreamInv

each operation is shown to do to `want` what it would do to a plain vector, for
vectors and subsets of any length (`VctrValuesKept`), and the array and `is.na()`
follow at once (`VctrNarrowExact`, `VctrNAExact`). The lemmas beneath it are about
running sums of chunk lengths and concatenation: the feature with index `k` of
the flattened chunks is at `k - offset` of the one chunk whose offsets enclose it.
The stream (`VctrStreamExact`) has an invariant between two chunks, `ChunksInv`:
indices up to `last` are resolved, all others but NA point behind `stream.end`, and as
long as no chunk was skipped (`aligned`) what was streamed is the beginning of
`want`. It needs the indices not to decrease, which is the guard of that path.
All five theorems assume `~CombineSubsets`: `c()` numbers the features of all
chunks anew, and of a subset the selection is lost, so without it they are false
(section 4).

**Ownership** (`ArrowBuilders_proofs`) comes in two inductions.

    OwnershipInv == TypeInv /\ OwnInv /\ HeapInv /\ FramesInv /\ DoneInv

`OwnInv` says which blocks a builder, an array and a schema can own at all;
since the names of those blocks differ, owners are disjoint but for the one
hand-over of the data buffer. `FramesInv` says that each frame but the innermost
waits for the child it released last, at the step after that one. `DoneInv` says
what the steps of the plan a frame has taken leave behind: that a structure is
live, that the string about to be replaced is still there. `HeapInv` (allocated
is what is owned) follows for every step, `Unwind` included. Theorems
`EachHasOneOwner`, `NoneFreedTwice`.

`OutputInv` says what becomes of the structures: `ReleaseInv` orders the moves
(a child is gone before its parent, arrays and schemas together), so that a
structure that has moved is complete (`CompleteInv`), and the tree is once the
outermost has moved (`WholeInv`). `HeldInv` says that whatever is live is held
by a finalizer on the stack or by a live structure above it; with no frame left
it is therefore below `Root` or nowhere, which is why an exception leaves
nothing behind (`EmptyInv`). Theorem `OutputIsWhole`.

**Model-checked only.** What RECURSIVE operators compute, about which no theorem
can be stated here: the round trips of WKB and WKT (`ElementsReadBack` of
`CastSerializedRead`), and numbers (`ShortestText`, `TrimmedExact`, `ReadNearest`,
`RoomSuffices` of `NumberText`). Recursive *functions* can be proved about, one
definition at a time and by induction over a set of numbers (`NatSet` in
`ArrayReaders_proofs`), which is how `Metas` and the sums of `GeoarrowVctr` are
treated. Liveness under fairness: `ReadingEnds`, `EndsOrFails`.

## 6. Not modelled

* *Text and bytes.* The characters of WKT other than those of numbers (words,
  separators and their spelling are tokens), what follows a number inside a
  token, the bytes of a WKB field (a field is one cell, with the byte order it
  was written in). Counts of 2^31 and more in WKB.
* *Numbers.* The tables of powers of 5 and the limbs of big integers, replaced
  by exact arithmetic; binary32; the exponent notation `d2s.c` can also write,
  which is not called. `ryu/d2fixed_full_table.h`, 4420 lines of constants, is
  included by no file.
* *Metadata.* The serialized metadata of a schema beyond the extension name
  (crs, edges are carried along unread), dictionaries, parsing of the R list of
  options.
* *Memory.* Allocation failure before `release()`; C++ objects that a `longjmp()`
  from a wk handler leaves behind; `struct` and fixed-width builders, of which
  `release` needs the ownership only (`FixedSizeLayoutArrayBuilder` and
  `StructArrayBuilder` fill one buffer or none).
* *R.* Apart from `geoarrow_vctr`: creation, GeoParquet metadata, file I/O and
  the methods for other packages, which forward to what is modelled and keep no
  state. Building arrays is a cast from a wk source, so its core is
  `WKBridge` and the cast builders; `R/create.R` chooses a schema.

## 7. Plan

Done: protocol, cast builders, aggregates, bitmap and binary builders, WKB and
WKT writers with their round trips, `geoarrow_vctr`, ownership, the readers over
concrete arrays with filters, schemas, the wk bridge, numbers in WKT.

Left, in this order:

1. Proofs: the readers of `CastWKBRead` and `CastWKTRead` as recursive functions
   over positions, so that `ElementsReadBack` comes within reach of a theorem.
2. The metadata blob and its copies; dictionaries in `ArrayRelease`.
3. Sliced arrays under nulls, once `is_null()` adds the offset.
