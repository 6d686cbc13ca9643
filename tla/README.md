# A verification of memory-wrapper in TLA+

memory-wrapper is a small C library for programs that manage memory
themselves: an open-addressing hash map with a set on top, a region allocator
("arena"), interned strings, an allocation tracker for debug builds, and a
garbage-collected graph of entities. It has no tests; what it promises is in
the comments of its headers. It is single-threaded: the hard part is not
interleaving but long sequences of legal calls on linked, hashed and recycled
memory.

The modules here are translated from the `.c` files. TLC checks them on small
instances, TLAPS proves the invariants that matter for every value of the
constants. Where a header and the code disagree, a run ends in a
counterexample (see *Findings*).

## Inventory

| component | state | operations | what makes it correct |
|---|---|---|---|
| hash map, `struct/map.c` | table of slots, `first`/`last` of a list through the live slots, `num_entries` | insert (with displacement and two kinds of resize), lookup, remove, iterate | a key is in one slot; every entry lies on its probe path; no entry is lost; the list is the live slots; loops end |
| set, `struct/set.c` | a map from each pointer to itself | insert, remove, lookup, loop with an `M_iter` | as the map; a loop is given every pointer once, also when it removes what it stands on |
| arena, `alloc/arena/arena.c` | chain of blocks, bump pointer, free list through cell descriptors | init, alloc, dealloc, finalize (recursive) | no cell has two owners, none is lost, every block is freed once |
| memory graph, `alloc/memory_graph/memory_graph.c` | sets `nodes` and `roots`, two tables of counted edges per node, two arenas | insert, root, inc, dec, collect (recursive mark, sweep), delete | the nodes that no root retains are deleted, and no other, each once; no stale pointer is followed |
| allocation tracker, `alloc/alloc.c` | set of live pointers, descriptor in front of each block, `_is_inited`, `_alloc_busy` | init, alloc, realloc, dealloc, finalize | its reports of leaks and errors are true |
| interned strings, `alloc/arena/intern.c` | list of character chunks, the room left in the last, a set of strings | init, intern, intern_range, finalize | equal strings have one pointer; strings do not overlap and stay in their chunk; every chunk is freed |
| hashers and comparators, `util/util.c` | none | FNV hash, pointer hash, word-wise string comparison that reads beyond the terminator | equal keys have equal hashes; 0 exactly for equal keys |
| struct defaults, `struct/struct_defaults.c` | none | constructors with default sizes | |
| errors, `debug/debug.c` | none | `ERROR` prints and exits; `ASSERT` in DEBUG builds | |

How they interact: the graph keeps its nodes and edges in arenas, its `nodes`
and `roots` in sets and its edges in maps; the tracker registers every block in
a set; interned strings are in a set. A set is a map. So the map carries
everything, and **removals** are what is hard on it: only the tracker
(`_in_mem`) and the graph (`mg->nodes`) remove, everybody else only inserts.
That division runs through the checks below: a map that only grows implements
its header, a map with removals does not. What these two clients, which insert
only new pointers, can still rely on is module `LossySet`: an insertion after
removals may drop another pointer, and then returns false. The tracker and the
graph are modelled on that, not on the set of the header.

PROJECT.json lists the hazards of the code, line by line, with the properties
that cover them.

## Modules

`HashMap` (with `HashMapProps`, `HashMapInv`, `HashMapProofs`, and
`HashMapGrowInv`, `HashMapGrowProofs` for tables without removals) models
`struct/map.c`. A table is a record of slots numbered
from 0; a pointer to an entry is its slot number; `probes` is `num_probes`,
0 for never used and -1 for removed. The thread is in a call when
`pc # "idle"`: `probe` is the loop of `_map_lookup_entry`, `insert` and
`reinsert` the loop of `_map_insert_helper` called from `map_insert` and from
`_resize_table`, `rehash` the head of the loop of `_resize_table`. **Every
iteration of a loop is a step**, with the loop's locals in `hand`; a loop that
does not end is a behaviour that never returns. `InsertVacant`,
`InsertRemoved`, `InsertTooMany`, `InsertPresent`, `InsertRob` and
`InsertPass` are the branches of the helper's loop body, `HelperReturns` is its
return into either caller. The probe position is the macro `pos`, with
`UintMod` for 2^32. `Finalize` is `map_finalize`; no call follows it, as
`map_init` on the same struct makes a new map, which is another behaviour of the
module. Values of entries are abstract; keys come with an arbitrary hash
function `Hash`, so any collision pattern is an instance.

`AbstractMap` is the contract of `map.h`: a finite function, and calls that take
effect when they return. `HashMapProps!Contents` is the refinement mapping:
the pair displaced by the one being inserted still counts as held, the one
being inserted counts when the call returns.

`PointerSet` (`PointerSetInv`, `PointerSetProofs`) composes the map with `struct/set.c` and the `M_iter`: the set is a
`HashMap` from each pointer to itself, and `loop`, `iter` and `met` are a loop
`for (iter = set_iter(s); has(&iter); inc(&iter))` whose body may remove the
pointer it was given, step by step through the probes of that removal, as the
sweep of `mgraph_collect_garbage` does. The history `tidy` says that the client
has inserted only pointers that were not in the set, as the tracker and the
graph do with new blocks and nodes.

`LossySet` is what the set is for such a client, one step per call and return: a
call of insert may, on a table from which something was removed (`worn`), start
over without one other member and then returns false although its own pointer
is in. `PointerSet` has the refinement mapping (`Members`, `Worn`, `HasLost`),
and `ImplementsLossySet` is the refinement, restricted to steps of a tidy
client: checked by MapOps, proved for any number of pointers and any table.
When a table that a client of `LossySet` uses is worn, any one member may be
lost, while in the code it must be one that the insertion displaces behind
enough tombstones: the tracker and the graph are over-approximated.

`Arena` (`ArenaProps`, `ArenaInv`, `ArenaProofs`) models `arena.c`. A cell is a
block and an index; `prev_freed` is the descriptor of every cell, holding
`Junk` from malloc until the cell is first freed; `frames` is the C stack of
`_subarena_delete`, one step per call and return. The client allocates and
gives back what it holds. After `__arena_finalize` the arena may be initialised
again. `Region` is its contract: cells nobody holds are handed out, taken back
and given up at once.

`MemoryGraph` (`MemoryGraphProps`, `MemoryGraphInv`, `MemoryGraphProofs`) models
`memory_graph.c`. It uses the map, the set and the arena through their
contracts. From `roots`, from the marked set and from the edge tables nothing is
ever removed, so these are sets and functions (`AbstractMap`; the ids are what
the node hasher and comparator use). `nodes` is a `LossySet`: once a Deleter was
called, `Insert` may drop a node from it (`Drops`), which goes to the history
`lost`. `mgraph_insert` does not look at the answer of `set_insert`, so nobody
notices; the client still uses the node, and `Live` is `nodes` and `lost`
together. A lost node is never swept, and when a collection does not retain it
any more it leaves `lost` with its Deleter uncalled. The node arena
hands out any cell not in use, so a new node may sit in the cell of a deleted
one while old edges still point there. `stack` is the recursion of
`_process_node`. The order in which iterators meet entries is left open.

`EntityGraph` is the contract that `memory_graph.h` describes, as far as the
graph keeps it, without nodes, tables or marks: entities are "new", "held",
"deleted", "lost" or "leaked", references are counts between them. An insertion
after deletions may lose one held entity; a lost one can be used like a held one
but is never deleted, and is leaked at the end. A collection deletes held
entities that are not `Retained`, and returns when every held one is;
`mgraph_delete` returns when none is held. So what the header says of all
entities, the contract says of the held ones. An entity
is the id of its node; `Phase`, `Status`, `Rooted` and `Refs` in
`MemoryGraphProps` are the refinement mapping. A node counts there until its
Deleter is called, which in the code is before its memory and its edges are
given back.

`AllocTracker` (`AllocTrackerProps`, `AllocTrackerProofs`) models `alloc.c` in
a DEBUG_MEMORY build, the registry as a `LossySet`: `Register` may drop another
registered pointer when some were removed before (`worn`), and then, as
`set_insert` returns false, `__error` ends the process. A block's descriptor has
its `count` and, as a history of what malloc, realloc and memset did, how many
of its elements are `clean`. `realloc` may keep or change the address. `Strndup`
is an allocation whose client then owns a copy. `alloc_finalize` visits what is
registered when its loop begins, each once: that is `LoopMeetsAll` of
`PointerSet`, and holds with the busy flag or without it.

`CString` (proofs in `InternProofs`) models the string hasher and comparator of
`util.c` as operators on what a `char *` sees: a function from offsets to
bytes, of which the terminator is only one. `Word` reads four bytes wherever
they are; `StopsFirst` is the word at which the loop of the comparator ends,
`CompareAt` what it returns there.

`Intern` (`InternProps`, `InternProofs`) models `intern.c`: `mem` holds the
bytes of every chunk and the three behind it that a word may reach, `tail` is
`strings.tail` as an offset in `last`, `next` the list of chunks. `strings` is
the set, used through its contract with `StringComparator` and `StringHasher`
as its functions; nothing is ever removed from it, and a set that only grows
implements its contract (MapGrow). `Interning(v)` is one call of `intern` with
a pointer that sees `v`, in `Found`, `Store` and `StoreInNewChunk`;
`InternRange` calls it with the temporary copy. New chunks, the memory behind
arguments and behind chunks hold `Junk`. `Interner` is the promise of
`intern.h`: a growing one-to-one table of strings and pointers.

`Iteration` has lemmas about numbers and about repeating a step on a finite
set, shared by the proofs.

The operators marked *Mutant* in the modules are not part of any
specification: each is a variant of the definition below it with a plausible
bug, which the property it is listed with in PROJECT.json must reject.

## Runs

| run | instance | shows |
|---|---|---|
| MapOps | 3, 7 and 15 slots, 3 pointers, two with the same hash, a set over the map | with removals: type, list and table agree, entries stay on their probe paths, a negative answer is right, the "never happens" errors do not, insertions and searches for present keys return; a loop over the set is given each pointer once although it removes what it stands on; a tidy client has no duplicates, and for it the set refines `LossySet` |
| MapGrow | 3, 7 and 15 slots, 4 keys, 2 values | without removals: one entry per key, refinement of `AbstractMap`, every search returns |
| MapDuplicate, MapLoses, MapSpins | as small as shows it | the three promises of `map.h` and `set.h` that removals break |
| ArenaOps | 3 blocks of 2 cells | every property of the arena and refinement of `Region` |
| GraphOps | 3 nodes, 1 reference per pair, 5 pairs of edges, nodes given back eagerly and edges not | also when `nodes` has lost a node, retained nodes stay; all garbage left in `nodes` goes; the recursion never has a node twice |
| GraphReuse | 3 nodes in 2 cells, counts up to 2, 4 pairs of edges, everything given back eagerly | reuse of cells: no followed reference dangles, counts are mirrored, edges are accounted for; refinement of `EntityGraph`, so no Deleter is called twice, and `mgraph_delete` returns when no entity is held; a collection ends |
| GraphDec | as GraphOps, any client | giving back a reference twice is not reported |
| AllocOps | 4 addresses, up to 4 elements | the tracker's descriptors and reports: it stops a client that keeps to the rules only when its registry has lost a pointer, and if it has not stopped, `alloc_finalize` frees all |
| InternOps | 3 chunks of 6 bytes, 6 strings of up to 4 characters, bytes modulo 3 | strings neither overlap nor leave their chunk, the comparator is exact in any memory, all chunks are on the list that is freed; refinement of `Interner`, hence one pointer per string |
| AllocReady | 2 addresses | `alloc_ready` after a clean run |

Bounds, and why they are enough:

- `MaxSize`: no call starts on a table larger than this, so a behaviour has two
  resizes by load, and with removals any number of tombstones below it. The
  growth factor is the code's; nothing in the loops depends on a particular
  size but the rounding of thresholds, and sizes stay odd once grown, as with
  the defaults of the library (31, 17, 997, 4091, 32781 are odd).
- keys: three keys with two equal hashes and one that starts on their second
  position are the fewest with which a displacement meets a collision and a
  tombstone; a table of 3 is filled to one more than its threshold of 1
  before it grows.
  MapGrow has a fourth with the greatest hash, whose second position wraps.
- `UintMod` is 64 instead of 2^32. The positions then wrap after 8 probes,
  which the real code reaches after 65536 (the sum) - the wrap is exercised,
  not avoided. It must be a power of two for the wrap to be the machine's;
  the proofs hold for any value. The square in `pos` is an `int`: beyond 46340
  probes of one call C leaves its overflow undefined, and no build file asks
  for `-fwrapv`. `Pos` lets it wrap, as compilers do that multiply in registers;
  what the runs and theorems say of calls longer than that (`LookupReturns`,
  `SearchGoesOn`) rests on it.
- `MaxRefs`, `MaxEdges`, `MaxNodes` bound what the client builds; three nodes
  give self-references, cycles of two and three, and a chain from a root into
  a cycle. `CountMod` is 4 instead of 2^32 so that a count below zero is seen.
  The refinement of `EntityGraph` is checked by GraphReuse, where entities
  outnumber cells, since evaluating it costs more per state than the rest.
- `Debug` is FALSE in both runs of the tracker: with TRUE a second `alloc_init`
  ends in the assertion on `_in_mem`, which hides every later life of the
  tracker. The theorems hold for both.
- interned strings: chunks of 6 hold a string of 4 characters and start another,
  so calls meet a chunk with room, one that is exactly full, and one a single
  byte short. The text differs from a range of the source only in its fourth
  character, the last byte of a word, and from others by where they end. `ByteMod` 3
  gives a terminator and two characters; `HashBits` 2 gives hashes that
  collide; junk is 0 (a terminator where none was written) or a character. A
  range may start anywhere and end one behind its string, where `strncpy` pads.
  Strings must be shorter than a chunk (32488 bytes in the code): an
  undocumented precondition, stated in `InternAssumption`. Chunks are
  symmetric, as malloc may return any.
- three blocks of two cells: a full block, a block with one cell left, and a
  chain of three for the recursion. Blocks, addresses and node cells are
  symmetric because malloc and the arena may hand out any unused one; GraphReuse,
  which checks liveness, uses no symmetry.

`CHECK_DEADLOCK FALSE` is set where the system may stop: a process that has
exited or whose graph is deleted, and the bounds (`MaxSize`, `MaxNodes`). The
arena cannot stop and is checked for deadlock.

Fairness is weak fairness of the steps inside a call: the one thread of the
program keeps running. The client owes no call. `FairSpec` asks no more than
`WF_vars(Internal)`, in the map and in the graph. `FairSetSpec` is the same for the set: `WF_setVars(Inside)`, the steps inside a
call, and nothing of the loops of clients.

## Findings

- **MapDuplicate** (`map.c:119`). After removals, the insertion of a present key
  may displace an entry before meeting its own; the key then has two entries,
  removing it leaves one, and `num_entries` is too high.
- **MapLoses** (`map.c:102`). An insertion that gives up because of too many
  tombstones after having displaced an entry drops that entry in the rehash.
  The run is a set whose client only inserts pointers that are not in it
  (`TidyKeepsEntries`), so the tracker and the graph are exposed. The insertion
  finds its own pointer when it starts over, and returns false.
  - The graph ignores that. With the 31 slots of `mg->nodes`: root nodes 0 and
    1, insert nodes 2 to 30 and collect after every ten, so that the table does
    not grow; then insert node 31. It passes node 0 and takes the slot of node
    1, which meets 16 removed slots and is dropped. Node 1 is still a root and
    marked, but would never be swept, and `mgraph_delete` does not call its
    Deleter.
  - The tracker ends the process, with a block that is in order called "already
    allocated" (`alloc.c:115`); it needs half of its 32781 slots removed on the
    way. So it never goes on with a lost block, and neither "it is not
    allocated" nor a leak that is not reported follows (`RegistryIsExact`,
    `FinalizeFrees`, `AlarmsMeanLoss`).

  Duplicates, in contrast, need a client that inserts what is present
  (`TidyNoDuplicate`).
- **MapSpins** (`map.c:173`). Removals use up the never used slots without
  raising `num_entries`; a search for an absent key then has nothing to stop
  at. With the default set of 31 slots, 31 pointers inserted and removed one
  after the other are enough.
- **GraphDec** (`memory_graph.c:124`). A second `mgraph_dec` for one
  `mgraph_inc` is not reported, and the count wraps to its maximum.
- **AllocReady** (`alloc.c:104`). `_is_inited` is cleared only when something
  leaked.

Also seen, without a run:

- A displacement puts the newer pair in the older one's place in the list and
  appends the older one again (`map.c:121`), so iteration is not in insertion
  order as `map.h:114-115` says. What a loop may rely on is `LoopMeetsAll`:
  list order, every entry once.
- With `eager_delete_edges`, the edge that a surviving parent holds to a deleted
  child is not freed until the parent goes (`EdgesAccounted` counts it as owned
  by the parent).
- `string_comparator` returns a difference of little-endian words
  (`util.c:62-64`): its sign is no order of strings, although `util.h:15-20`
  describes one. The map needs only zero or not.
- `intern.c:63` gives the set a table from `malloc`, while `map_init`
  relies on zeroed slots. It works while malloc returns fresh pages.
- `map_init_custom_comparator` and `set_init_custom_comparator` ignore the size
  they are given (`struct_defaults.c:24-27`, `44-47`), so the 997 slots meant
  for `mg->nodes` are the default number.
- `string_hasher_len`, which nothing calls, hashes `char`s that may be negative
  where `string_hasher` hashes `unsigned char`s.

## Proofs

All theorems are for any values of the constants that satisfy the `ASSUME`s of
the modules, and are checked by TLAPS without further assumptions. Every
invariant, step property and refinement that a passing run checks is stated by
a theorem; what is left to the runs is liveness (see *Only model-checked*).

**HashMapProofs.** `IInv` (in `HashMapInv`) is inductive:
`InductiveInvariant`. From it follow `TypeCorrect`, `EntriesStayReachable`,
`ErrorNeverHappens` and, as a step property, `AbsentIsAbsent`. Beyond the
properties the invariant says: the links of the list seen from each slot
(`LinksOK`, which is what `map_remove` needs of its neighbours and what keeps
the iterator of `_resize_table` on live slots); the pair in hand may be placed
where the loop is (`HandInv`: all slots its key probed so far were used, and a
remembered slot is a removed one on its own path); a search has not passed its
key (`ProbeInv`); a table being filled has no removed slots (`ResizeInv`),
which is why the second "too many" cannot happen. The first group of lemmas
shows that each table operation (`Occupy`, `Displace`, `Unlink`) keeps
`TableInv`, the second that each step applies one of them. Note what is proved
in spite of the findings: even when removals duplicate or lose entries, what is
in the table can be found, and what is not found is not there.

`ListsMatchTables` is about the list that iterators follow: it is the live
slots, each once, in either direction. The local links do not exclude a ring of
live slots beside the list; `Connected` does (a set of live slots that has
`first` and is closed under `next` is all of them), without recursion and so
inductively. The walk of the list is a recursive function; what it returns is
shown by descending from a least counterexample (`LeastNat`) and counting slots.

`SearchHasKeyAhead` and `SearchGoesOn` are the safety part of the return of a
search for a present key: a slot with the key lies at some probe not yet made
(probe numbers in the arithmetic of 32 bits, whose period `PosPeriodic` gives),
and each step either ends the call or makes the next probe. `MapOps` checks the
conclusion, `PresentLookupReturns`, on its instance.

**HashMapGrowProofs.** Where nothing was removed the table has a stronger
shape. `RobinHood`: whatever an entry passed on its path had probed at least as
far as it had there. It gives what removals break: a key that is present is met
before any displacement (`Placed`), so keys stay distinct. `ResizedTablesGood`
says that every table a resize fills has this shape, whatever the client does;
`KeysStayUnique` that with a client that never removes the map always has it
(`OneEntryPerKey`). For the refinement of `AbstractMap` (`GrowingMapIsMap`) it
remains to follow the pairs while a call runs: the pair in hand is the one to
insert or was displaced by it (`PendingInv`), and a rehash has copied what its
iterator has passed (`RehashInv`), so at its end nothing is lost, `Connected`
again being what says that it passed everything.

**PointerSetProofs.** `SetIsMap`: the set only uses the map as its calls
allow, so everything proved of the map holds of it. `TidyHasNoDuplicate`: with
a client that inserts only what is absent, no two entries have the same
pointer, although removals are unrestricted: the pair in hand is in no slot
(`UniqueInv`), but for one case, an insertion that starts over after "too many"
when its pointer was placed before. It then runs on the table just filled,
which has the shape of `RobinHood`, and so meets its pointer first.
`SetIsLossySet` is what the models of the tracker and of the graph rest on. It
needs to know who holds what while a call runs: the pair in hand is the one to
insert, in no slot, or one it displaced, and then the new pointer is in a slot
(`OwnInv`); when a call starts over its pointer is in a slot exactly if another
one is lost, and since the second run is on a clean table it loses no other
(`KeepInv`, `CallInv`). A rehash keeps the keys (`KeysKept`), so it shows only in
that the table is not worn any more. `LoopMeetsEachOnce`:
the loop is given every pointer that was in the set when it began, once and in
the order of the list, though its body removes the entry it stands on. The
argument is that removing leaves the `next` of the removed slot as it was and
that only one entry can be removed between two steps of the iterator
(`LoopCalls`), so that the iterator always `LeadsOn` to the next due.

**ArenaProofs.** `IInv` (in `ArenaInv`) adds to the properties that held cells
were carved (`HeldCarved`), that the blocks are exactly the chain from `last`
(`ChainOK`: the only set of blocks with `last` and closed under `prev` is all
of them, and one block has no predecessor - reachability without recursion),
and that the frames of the recursion follow that chain down and are the blocks
left on the way up (`FramesOK`). From it: `TypeCorrect`, `CellsNotShared`,
`FreeListSound`, `BlocksFreedOnce`, `FinalizeLeavesNothing`, and
`ArenaIsRegion`: every step is a step of `Region` or changes nothing in it.
`CellsNotLost` (each carved cell is held or on the free list) needs that no
cycle of freed cells lies beside the list (`FreeConnected`), and that following
the list for as many steps as there are cells reaches all of it, which is where
`Block` is assumed to be finite, as addresses are.

**MemoryGraphProofs.** `IInv` (in `MemoryGraphInv`) has two parts. `GraphInv`
is about the graph whatever is going on: ids tell nodes apart and are not given
out twice (`IdsOK`), an entry in a table is for an id that was given out and
leads to the node with that id if it is still there (`EdgesNamed`), what a kept
node refers to is in the graph or lost by the set (`ReferencesOK`), the nodes of
`nodes` have their tables until `mgraph_delete` meets them (`OpenOK`), and the
Deleters called are those of the ids no node with its tables has
(`DeletersOK`). `MarkInv` is about the
collection in progress: roots passed are marked, a marked node refers only to
marked nodes or to ones its open call has still to visit (`MarkedClosed`),
nothing unreachable is marked, and the sweep leaves marked nodes behind it. At
the sweep the stack is empty, so the marked nodes are exactly the reachable
ones; that is the pivot of `RetainedKept`, `GarbageCollected` and of
`ReferencesValid`, and reachability is again a closed set and not a path.
`RecursionEnds` bounds the recursion by the number of nodes. `ReferencesAgree`
and `EdgesInTables` hold in every state, during a collection as well, and
`DecNeverFatal` says that a client that gives back what it took is never
stopped. `DeletersCalledOnce` says that a Deleter is called once at most and not
while the client may use the node, `DeleteMeetsAllLeft` that `mgraph_delete`
leaves out those of the lost nodes and of no other. `GraphIsEntityGraph` sums it up as the refinement of `EntityGraph`; the
step that matters is that `Retained`, which is about entities and counts, is the
set of ids of marked nodes when the sweep deletes and when it ends
(`RetainedMarked`, `MarkedRetained`).

**AllocTrackerProofs.** The properties and the type invariant (`TypeCorrect`)
are inductive together with when the tracker is busy. `RegistryIsExact`: between
calls exactly the allocated blocks are registered, although the set may drop
pointers, since a loss ends the process within the call; `FinalizeFrees` follows
(and fails in the run if the answer of `set_insert` is ignored).
`AlarmsMeanLoss` is the step property that a client that keeps to the rules is
stopped only in a call that has lost a block.

**InternProofs** has two parts. The first is about `CString`.
`ComparatorIsExact`: for two pointers that see terminated
strings with three readable bytes behind the terminators, `string_comparator`
is 0 if and only if the strings are equal, for any byte base, any lengths and
any bytes behind them. The argument: equal words are equal bytes
(`DigitsUnique`), a difference of words does not vanish modulo their number
(`DifferenceMod`), so everything before the word where the loop stops agrees and
holds no terminator (`SharedSoFar`), the loop does stop (`LoopStops`), and there
`strncmp` decides (`StrnCmpExact`). Where an induction over the length would be
needed, a least counterexample is taken instead (`LeastNat`).

In the second, `IInv` is `TypeOK`, `ChunksLinked`, `StringsInside`,
`StringsApart` and `OnePointer` together with `ListOK` (the pointers `first` and
`last` are both set or both not, and `next` leads from chunk to chunk): a new
string is written above `tail`, so no old one changes what it sees, and it ends
below the new `tail`. `OneCopy` needs the exact comparator. That every chunk is
on the list is shown without recursion: the
set of chunks closed under `next` from `first` is all of them. From the
invariant: the type, that strings stay inside and apart, one copy per string,
that `intern_finalize` frees every chunk, and `InternIsInterner`, the refinement
of `Interner`. The runs check `OnePointer` and `FinalizeFreesAll` through what
they follow from, `ImplementsInterner` and `ChunksLinked`. The only
assumption on strings is that each is shorter than a chunk (`InternAssumption`).

**Only model-checked.** `PresentLookupReturns`, `InsertReturns`, `LookupReturns`
and `CollectReturns`: liveness under fairness, which needs ENABLED and is out of
the prover's reach. And the five counterexamples of the findings, which are
behaviours.

## Not modelled

- `struct/struct_defaults.c` chooses sizes and allocators (and ignores the size
  it is given, see above).
- `default_hasher` and `default_comparator`: keys of the map are told apart as
  its comparator does, so pointers that agree in their low 32 bits would be one
  key; `string_hasher_len`.
- which pointer an insertion loses: any one member of a worn table may be, in
  the models of the tracker and the graph (see `LossySet`).
- an iterator held across an insertion: no client in the repository does that.
- the set of interned strings as a table of slots: it is used through the
  contract, with its table zeroed; strings longer than a chunk.
- failure of malloc (the code does not test for it, or exits), sizes in bytes,
  alignment, the depth of the C stack.
- `ASSERT`s on NULL arguments, logging and messages.

## Plan

1. `HashMap` and its contract, checked and proved. *Done.*
2. `Arena` and `Region`, checked and proved. *Done.*
3. `MemoryGraph` over the contracts, checked and proved, with its own contract
   `EntityGraph`. *Done.*
4. `AllocTracker`, checked and proved. *Done.*
5. `PointerSet`: the set, its loops and the sweep's removals over the slots of
   the map, checked and proved. *Done.*
6. `CString` and `Intern`: the comparator, chunks and the set of strings,
   checked and proved for any chunk size. *Done.*
7. `LossySet`: what the set keeps for a client that inserts only new pointers,
   checked and proved, and the graph, its contract and the tracker on it.
   *Done.*
8. What remains possible: a contract for the tracker (a ledger of blocks that
   reports what is on it at the end) with its refinement; that the set of
   interned strings, which only grows, may be replaced by a table of slots
   (`GrowingMapIsMap` says so of the map alone); a ranking argument for the
   return of calls, whose step-by-step part `SearchGoesOn` has begun.
