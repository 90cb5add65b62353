# A verification project for analloc2

analloc2 is a C++ template library of allocators of *address space*: none of
them touches the memory it hands out, except where a class keeps its own
structures in that memory. The library is sequential: a class is called by one
thread, and what makes it hard is not concurrency but *re-entrance* (an
allocator that is its own allocator), *partial failure* (an update of a
structure needs memory that may not be there), and long sequences of legal
calls that lead to states no test visits.

Paths below are relative to the repository.

## 1. Inventory

| Component | Source | State | Operations | Interacts with | Hard behaviour | What makes it correct |
|---|---|---|---|---|---|---|
| Interfaces | `src/abstract/*.hpp` | – | Alloc, Align, OffsetAlign, Dealloc; Realloc, Free (virtual allocators) | implemented by all others | – | an answer names free, aligned units; what a client holds changes by its own calls only |
| FreeList | `src/free-list/free-list.hpp` | linked list of FreeRegion, node allocator, failure handler | Alloc, OffsetAlign, Dealloc, InsertAfter, Remove, destructor | takes its nodes from an allocator, calls the handler when it fails | node allocation fails in the middle of an update; merges; split; boundaries of the address space | units and nodes are conserved, the list is sorted and disjoint, neighbours are merged, a request fails only when it does not fit |
| ChunkedFreeList | `src/free-list/chunked-free-list.hpp` | + chunkSize | the same, rounded to chunks | FreeList | rounding near the maximum of SizeType; unaligned offsets | Dealloc of what was asked for frees what was granted |
| BufferedStack (Dependent-, Virtual-) | `src/buffered-stack/*.hpp` | array, count, soft minimum and maximum, buffering flag, source | Alloc, Dealloc, ApplyBuffer, destructor | allocates from and frees to its source, which may call it back | re-entrance, overflow, a source that fails | the count is between the soft bounds after a successful ApplyBuffer; the flag is reset on every way out |
| PlacedFreeList | `src/free-list/placed-free-list.hpp` | list + stack, both in the managed memory | Place, Alloc, OffsetAlign, Dealloc | the list is the stack's source, the stack is the list's node allocator | each operation may consume or produce a chunk while the loops that consume and produce chunks run | the stack never runs dry or over, each chunk has one owner, ApplyBuffer returns |
| VirtualFreeList, VirtualPlacedFreeList | `src/free-list/virtual-*.hpp` | + header size | AddRegion and the virtualizer's | AllocatorVirtualizer over the lists | trimming of the added region | AddRegion frees the aligned inside of what it is given |
| RawBitmap, Bitmap | `src/bitmap/raw-bitmap.hpp`, `bitmap.hpp` | units, bitCount | Alloc, OffsetAlign, Dealloc, (private) NextFree, NextFreeAligned, Reserve, AlignIndex | – | searches that skip whole units and resume after a failed reservation; narrow types | first fit; bits that are not the bitmap's are left alone |
| Transformers, transformed bitmaps | `src/wrappers/*-transformer.hpp`, `src/bitmap/transformed-*.hpp` | scale, offset | Alloc, OffsetAlign, Dealloc | wraps an allocator | scaling and offset in narrow types | Dealloc undoes Alloc; alignment of the output address |
| Virtualizers | `src/wrappers/*-virtualizer.hpp` | headerSize; a Header before each buffer | Alloc, Align, Dealloc, Realloc, Free | wraps an allocator | Realloc that fails half-way; size + headerSize wraps | buffers and headers are disjoint, Free frees what Alloc took |
| VirtualBitmapAllocator/Aligner | `src/bitmap/virtual-bitmap-*.hpp` | placed bitmap | Place, BestBitmapSize | transformer + virtualizer + bitmap | arithmetic that divides a region into bitmap and heap | metadata and heap fit in the region |
| AvlTree | `src/free-tree/avl-*.hpp`, `dynamic-tree.hpp` | nodes with parent, child links and depths | Add, Remove, Find*, Enumerate | nodes from a VirtualAllocator | rotations and removal, parents and depths | sorted, balanced, depths exact |
| FreeTree | `src/free-tree/free-tree.hpp` | two trees over the same regions | Alloc, OffsetAlign, Dealloc, AddRegion | AvlTree, failure handler | second of two insertions fails; regions removed before their replacement is recorded | both trees hold the same regions, which are disjoint |

The `ansa` library (bit arithmetic, `Memcpy`, `NoCopy`) is not part of the
repository; its operations are modelled by what they do where they are used.

The hazards of each component, with their lines and the properties that would
catch them, are in `PROJECT.json` under `hazards`.

## 2. Plan

Written, in this order:

1. `AddressSpace` – what the interfaces promise.
2. `RegionList` – the tests and updates of the list of regions, as operators.
3. `FreeList` – the list with an external node allocator.
4. `PlacedFreeList` – the list composed with the stack that it feeds.
5. `RegionListProofs`, `PlacedFreeListProofs` – the safety of 4 for every value
   of its constants.
6. `Bitmap` – the bit array and its searches.
7. `FreeTree` – two ordered sets with insertions that fail between the two
   updates.
8. `BufferedStack` – the stack with a source that fails and calls back.
9. `Transformer` – scaled and translated addresses over any allocator.
10. `DynamicTree`, `AvlTree` – what a tree promises, and the linked tree with its
    rotations.
11. `Placement` – how a region is divided, as operators.
12. `VirtualAllocator`, `Virtualizer` – memory that keeps its contents, and headers
    before buffers that make an allocator one of memory.
13. `StructureProofs`, `TransformerProofs` – the invariants of the structures 8 and 10,
    with the contract of 10, and of 9, for every value of their constants.
14. `FreeListProofs`, `FreeTreeProofs`, `VirtualizerProofs`, `BitmapProofs` – the
    invariants, the contracts and the action properties of 3, 7, 12 and 6; the
    lemmas about numbers that they share are in `RegionListProofs`.

Nothing is left to be modelled but what section 6 lists, and nothing to be proved
but what the end of section 5 lists.

## 3. The modules

### AddressSpace (abstract)

Free units, held units, the last answer. `Grant` and `Refuse` are the two
outcomes of Alloc, Align and OffsetAlign, `Release` is Dealloc, `Housekeeping`
is whatever an allocator does to its own free space between two calls. A
Release frees what the client gives up or a part of it (a range that cannot be
recorded is lost). Units that are neither free nor held belong to the
allocator. Five modules are shown to implement it, each with its own mapping of
`free`: the units of the regions (`FreeList`, `PlacedFreeList`), the bits that
are 0 (`Bitmap`), the units of the regions in the tree and of the one that the
current call is about to return (`FreeTree`), the addresses of the free units
(`Transformer`).

### RegionList (operators)

The linked list is a sequence of records `[node, start, size]`; `node` is the
identity of the memory the FreeRegion structure lies in, so that losing or
sharing a structure can be told. The operators are named for what the code does
at the place: `FirstFit`, `TakeHead`, `Compensation`, `FirstAligned`,
`Shrink`, `InsertAfter`, `Before`, `JoinBoth`, `GrowBefore`, `GrowAfter`.
AddressType has `AddressSpan` values and its arithmetic is modulo `AddressSpan`
where the code casts or stores to it; SizeType's maximum is `SizeMax`, below
`AddressSpan` (the `static_assert` of `allocator.hpp`).

An alignment is a power of two (`aligner.hpp:17`). The modules assume what
follows from this and the proofs need: it divides the number of addresses
(`AlignAssumption` of `FreeList`, `PlacedFreeList`, `Bitmap`, `FreeTree`,
`Virtualizer`). A scale and an alignment, of which `Transformer` divides one by the other, are
powers of two themselves (`IsPowerOfTwo`).

### FreeList

| Model | Code |
|---|---|
| `regions` | `firstRegion` and what it leads to |
| `spare` | memory the external allocator can still give |
| `pending` | the locals of a call that is inside `InsertAfter`'s loop |
| `status` | before, in, or after the destructor; or trapped by `% 0` |
| `held`, `dropped` | ghosts: the client's units, and units of regions that could not be recorded |
| `answer` | the value and out-parameter of the last call |

An action is one call, up to its return or its entry into `InsertAfter`. There
the call waits in `pending` and either `NodeObtained` (the external allocator
gives a structure, at once or after the handler returned true) or
`HandlerGivesUp` completes it, with what the caller does after the insertion
(`reg->size = offset`). A failed attempt with a handler that returns true
changes nothing and is a stutter. `NodeObtained` and `HandlerGivesUp` are
offered in every state in which they can happen: the external allocator may
fail although it has memory.

### PlacedFreeList

| Model | Code |
|---|---|
| `space` | the chunks given to the constructor |
| `regions`, `stack` | the list and the stack array up to `count`, top last |
| `phase` | where ApplyBuffer is: in a loop, or about to push what it obtained; `off` is `buffering == false` |
| `coming` | the chunk that `source->Alloc` answered and that is not pushed yet |
| `held`, `answer` | as above |
| `fault` | the assertion that failed |

The unit is the chunk (`regionSize` bytes): all sizes are rounded to it, and
the address of a chunk is also the identity of a FreeRegion placed in it.
Alloc, OffsetAlign and Dealloc are one step each up to their call of
ApplyBuffer; then every call of the list that its two loops make is a step, and
every push. The operation that a loop calls ends, like one that the client
calls, with ApplyBuffer: both end with `EnterApplyBuffer`, which tests the flag, and
goes on where the outer loop was (`Resumed`) when it is set. Since the refill calls
the list before it pushes the chunk, a call that did not find the flag set would
obtain a second chunk while the first is still `coming`; `BufferReady` says that this
does not happen. The assertions of the list
(`overlap`), of the two handlers (`noRegion`, `overflow`) and of ApplyBuffer's
callers (`notApplied`) are modelled by what they do, and `NoFault` says that
none fails.

### Bitmap

| Model | Code |
|---|---|
| `used` | the 1 bits of all units, the shared bits behind `bitCount` included |
| `held`, `foreign` | ghosts: the client's addresses; the shared bits that were 1 before construction |
| `answer`, `asserted` | the last result; whether an assertion failed |

One action is one call. The searches are recursive functions from the index
they have reached to their result: `NextFree`, `NextFreeAligned` and the loop
of Alloc and OffsetAlign around them and `Reserve` (`Reserved`). `Index` is the
code's `AddWraps` test, with `NotFound` for its `return false`; `Asserts` is the
result of a search that would fail an assertion of `GetBit` or `Reserve`.
`Ones` stands for the external `ansa::BitScanRight` on a complemented unit. It is
taken to be the width of the unit when the unit has no 0 bit.

### FreeTree

| Model | Code |
|---|---|
| `sizedTree`, `addressedTree` | the two `DynamicTree`s, as sets; `FoundGE`, `FoundBefore`, `FoundAfter`, `FirstAccepted` are their searches, by the two `Compare`s |
| `pending` | a call inside `AddRegion`: the regions it still has to add, in order, the tree the next insertion goes to, and what the call will return |
| `held`, `dropped` | ghosts: the client's units, and units that could not be recorded |
| `answer`, `trapped` | the last result; whether `% 0` was executed |

One action is one call up to its first `AddRegion`, one insertion in one tree
(`AddAddressed`, `AddSized`), one handler that gives up (`GiveUpAddressed`,
`GiveUpSized`), or the return. As in `FreeList`, a handler that has the insertion
retried is a stutter. The client starts with `Donated` and makes the tree
manage it by Dealloc, as the tests do.

### BufferedStack

| Model | Code |
|---|---|
| `stack` | the array up to `count`, top last |
| `at`, `passing` | where `ApplyBuffer` or the destructor is; the object in a call of `source->Dealloc` |
| `buffering`, `result` | the flag; what the last `ApplyBuffer` returned |
| `source`, `held`, `overflowed` | who owns the objects that are not in the stack |

`ApplyBuffer` is one step per test of its loops and per return of its source.
While a call of the source is under way (in the destructor too) the source may
pop or push up to `MaxReentries` objects: this is what
`DependentBufferedStack` is for. The source may refuse at any time. The
specification is `StackSpec`, since the proofs about it share a module with those of
`AvlTree`; for the same reason `AvlTree::Remove` is `RemoveValue` there.

### Transformer

`free` are the units of the wrapped allocator, any allocator that keeps the
contract: it answers with any free range that is aligned, or refuses. `held`
are the client's addresses. The client owns the whole of the units it was
granted, and frees any range of whole units, as the tests do. `scale` and
`offset` are chosen initially; `OffsetAlign` exists where the constructor of
`AlignerTransformer` allows it.

### DynamicTree (abstract) and AvlTree

| Model | Code |
|---|---|
| `tree.root` | `AvlTree::root` |
| `tree.left`, `right`, `parent`, `depth` | the fields of every `AvlNode`; `Freed` in memory that is not lent |
| `tree.sound` | no assertion of `AvlNode` or `RemoveNode` has failed |
| `lent` | the nodes that `AllocNode` got and `DeallocNode` has not returned |
| `contents` (of `DynamicTree`) | what the links reach from the root (`Reached`) |

One action is one call, computed link by link: an operator takes the tree and
returns it, in the order the code writes (`Replace`, `TakeOver`, `Rebalance`).
Where the code has one branch for the left and one for the right the model has
an operator of the side: `Rotate` is `RotateLeft` and `RotateRight`, `SideDepth`
and `IsHeavy` both of their kind. The searches are the code's recursion; with
`remove = true` they are actions, otherwise `SearchExact` looks at their
result. Recursion is by functions whose arguments are the nodes that are lent;
`Ascend` is one turn of the loop in `Rebalance`, which takes as many turns as
there are nodes at most: a turn after the loop's end changes nothing, and that the
loop has ended by then is proved. Memory is any finite set of addresses other than 0
(`TreeAssumption`). `DynamicTree` is a set of entries, each with its value, so that a value
may occur more than once. It is read off the links and not off `lent`: a
node that a removal cuts off with the one it removes is gone from it. The two
trees of `FreeTree` are such collections: its sets are the values (`Present`) where none
occurs twice, and its insertions may fail, which is a call of `Add` that changes
nothing.

### Placement (operators)

`PlaceObject` (`VirtualBitmapAllocator`, `VirtualBitmapAligner`) and
`PlaceInstance` (`PlacedFreeList`, `VirtualPlacedFreeList`) return a layout: how
many bytes the structures take, where the heap begins, its size and its
granule (page or chunk). `sizeof` of the C++ objects are constants. Sizes are far
below the maximum of `size_t`, so that `BestBitmapSize`'s own test for a wrap is
left out.

### VirtualAllocator (abstract) and Virtualizer

| Model | Code |
|---|---|
| `place` | the arguments of Place and the layout it makes |
| `memory` | every byte of the heap: unknown, part of a header, or written by a client |
| `free` | what the wrapped allocator may hand out |
| `buffers` | ghost: the client's buffers and what was asked for |
| `added` | ghost: the memory given to AddRegion |

`AllocatorVirtualizer` takes any allocator. The wrapped one is any that grants
free ranges of whole granules, which ones or whether at all being its own
business: this covers the chunks of `ChunkedFreeList` (`Extent`, `WrappedAlloc`,
`WrappedOffsetAlign` are its rounding and its cases) and the pages of a
transformed bitmap, whose searches other modules model. The pages of a bitmap begin
where its heap does, at a multiple of the page or not (`granuleOffset`); in
the second case there is no `VirtualBitmapAligner`, whose constructor asserts the
first. Realloc is one step that obtains, copies and frees in that order: memory that
is freed is `Unknown` from then on. A client fills its buffers (`Write`) at any time.
`VirtualAllocator` is what this means to the client, without addresses: bytes that
only its own calls change.

## 4. The runs

| Run | Question | Bounds |
|---|---|---|
| `free_list` | Does FreeList conserve units and structures, keep its order, merge, find the lowest fit and fail only when it must, in every sequence of calls with failing node allocations and a destructor? | 8 addresses, sizes to 7, 3 structures; sizes 0, 1, 3; align 4 with offsets 0 and 1 |
| `free_list_zero_align` | Is an alignment of 0 an alignment of 1? (No.) | align 0 and 4 |
| `placed_free_list` | Does the pair of list and stack keep its space, never assert, and return from ApplyBuffer? | 1 to 8 chunks at the upper end of 16 addresses, stack of 3; sizes 0, 1, 2; align 4 with offsets 0 and 1 |
| `bitmap` | Do the searches find the lowest range there is and refuse only when there is none, from every pattern of used bits, and are the shared bits left alone? | 10 bits in units of 4, SizeType of 4 bits, AddressType of 5; sizes 0, 1, 3, 4, 11; aligns 0, 2, 8, 16, offsets 5 and 23 |
| `bitmap_bounds` | Does a search stay in the bitmap? (Not for an alignment above SizeType.) | align 16 |
| `free_tree` | Do the two trees agree, is every unit accounted for, are both search policies exact, when either insertion may fail? | 5 donated of 8 addresses, both ends among them; sizes 0, 1, 2, 3; aligns 0 and 4 with offset 3 |
| `free_tree_wrap` | Is what OffsetAlign grants free? (Not when skip + size wraps.) | size 7, align 4 |
| `buffered_stack` | Does every object have one owner, and what does a successful ApplyBuffer leave, with a source that fails and calls back? | 6 objects, 4 places, soft bounds 1 and 2, one call back per call |
| `transformer` | Does Dealloc undo Alloc, and is an aligned answer aligned? | 4 units in 16 addresses; scales 1, 2, 3, offsets 0, 1, 4; aligns 0, 2, 4, 8, offsets 0, 1, 2, 14 |
| `avl_tree` | Do rotations and removals keep the links, the depths and the balance, and do the searches find what there is, equal values included? | 12 nodes, one value twice; searches that remove from values 3 and 8 |
| `virtualizer` | Does the layout of every region fit, and is it the best? Are headers and buffers undisturbed, aligned and returned in full? | regions to 140 bytes from 8 and from 10, units and pages of 1, 2, 4, object alignments to 8; clients on the heaps of 12 bytes, two buffers of 0, 1 or 3 bytes, aligns 0, 4, 8, offsets 0, 252, 254 of 256 |
| `virtualizer_wrap` | Is a buffer as big as was asked for? (Not when size + header wraps.) | sizes 1 and 255 of 256 |

Why the bounds are enough. A Dealloc looks at two neighbours and an OffsetAlign
at one region with a hole before and behind it; eight units hold three separate
regions with held units between and around them, so every case of either,
including both ends of the address space, occurs with regions that are not
concerned on either side. Dealloc ranges over every address and size that the
client holds, so ranges granted at once may be freed in parts and ranges
granted separately may be freed together. Three structures are enough for a
fourth insertion to find none. With `SizeMax = AddressSpan - 1` a merge that
SizeType cannot represent exists and is excluded by Dealloc's guard, which is the
documented precondition. With eight addresses no alignment skips more than SizeType
can say; that such a skip is refused and a shorter one is not is left to
`SearchExactTheorem`. The smallest stack (3) has the tightest bounds: soft
minimum 1, soft maximum 2, and is the hardest; eight chunks are enough to
have it drained into an empty list and refilled from a region that is used up
by it. Every passing run explores its whole state space.

In `bitmap` every pattern of used bits is reached, since Dealloc frees any part of
what is held; ten bits are two whole units and a half, so that a search skips
a whole unit, stops in one, and meets the end of the bitmap inside one. With
four-bit sizes the index leaves SizeType near the end, and SizeType cannot
represent an alignment of 16: with offset 23 its one index is the last bit, with
offset 5 it is behind the bitmap, where the failed assertion stops the program
(`bitmap_bounds` shows it; the other properties hold up to that point).
OffsetAlign is asked for sizes
of 1 and more: for size 0 it answers 0, whatever the alignment and offset.
In `free_tree` five units hold three regions, one of them at each end of the
address space, which do not touch although the end of the one is, in
AddressType, the start of the other; requests are small enough for skip and
size not to wrap, which `free_tree_wrap` shows separately. In
`buffered_stack` six objects overflow a full stack while the client holds one.
In `transformer` a scale of 3 is no power of two (Alloc only), the offset 1 is
not aligned to 2, and the offset 14 makes the sum of the scaled offsets wrap.

In `avl_tree` every subset of the nodes is reached, in every shape that Adds and
removals lead to. Twelve nodes are the fewest with which one removal needs
rotations at two nodes; a removed node's predecessor is its child or not, a
leaf or not, below the root or not. The value that occurs twice sits in the middle,
where rotations put the two nodes on every side of each other. In
`virtualizer` the regions are long enough for bitmaps of several units, and for
every remainder of the divisions by `8 * page + 1`, by the page and by the chunk.
The region from 10 begins inside a page of 4 and needs padding before the first chunk
of a list.
Twelve bytes are the twelve granules of a page of 1 and the three chunks of a
list, so that two buffers lie apart, side by side, or use the heap up; the
offsets 252 and 254 become 254 to 2 and wrap with the headers of 2 and of 4. The
additions are one that loses bytes at its start and one that has no whole
chunk. Heaps with other sizes are divided but not used (`Exercised`).

The structures of `free_list` are interchangeable and are a symmetry set; no
liveness property is checked under symmetry; so are the objects of
`buffered_stack` and the buffers of `virtualizer`. Deadlock is not checked where the program stops: a destroyed
list or stack (`free_list`, `buffered_stack`), a failed assertion
(`bitmap`, `bitmap_bounds`), a division by zero (`free_tree`), a region that Place
refuses or a heap outside of the bound (`virtualizer`, `virtualizer_wrap`). It is
checked in `placed_free_list`, `transformer` and `avl_tree`.

Fairness. `placed_free_list` assumes weak fairness of `ApplyBuffer`'s steps and
nothing else: they run in the thread of the client's call, which has nothing
else to do. Clients are not assumed to call.

### What the properties say

- `UnitsConserved` (free list), `OneOwner` (placed list): every unit is accounted for
  once, among the client, the list, the structures, the stack, a call in
  progress (a chunk not pushed yet), and the regions that had to be dropped.
- `NodesConserved`: the same for structures, including through destruction.
- `RegionsOrdered`: the list is sorted and disjoint, which the neighbour search
  of Dealloc relies on.
- `SeamOnlyByEmptyAlign`: two regions only ever touch where an OffsetAlign of size
  0 cut one. This is a true behaviour of the code: that call, a no-op for its
  client, costs a structure (and in a placed list a chunk) and fragments the
  space.
- `SearchExact` (lists, bitmap, trees): the searches answer what their policy
  promises and refuse only when there is none, stated on sets of free units or on
  the other tree rather than on the structure that is searched.
- `NoFault`, `BufferReady`: no assertion can fail; between two calls the stack
  has a chunk to give and a place to take one, and ApplyBuffer does not run
  inside of itself.
- `ApplyBufferReturns`: the drain loop ends although it may push what it pops.
- `TreesAgree`, `UnitsConserved` (tree): between two insertions the trees differ by
  the region that is being added and by nothing else; no unit is lost but those
  that are `dropped`.
- `SearchExact` (free tree): Alloc takes from the smallest region that is big
  enough, OffsetAlign from the lowest that has an aligned part.
- `UsedExactly` (bitmap): the 1 bits are the client's and the shared ones.
- `SoftBounds` (stack): what an ApplyBuffer that returns true leaves, also when it
  returns at once because `buffering` is set: a failed one must have reset it.
- `HeldIsGranted` (transformer): the wrapped allocator's view and the client's are
  the same, to the address.
- `Balanced` (AVL tree): the nodes the allocator has lent are one tree, parents
  and depths are exact, and the balance holds at every node.
- `SearchExact` (AVL tree): every search finds a value that `DynamicTree` promises,
  and Enumerate visits each node once, in order, up to the one it stops at.
- `DynamicTreeContract`: a call adds one node to what the links reach, takes one
  away, or leaves none; no other node drops out with it.
- `LayoutFits`, `LayoutBest`: what Place makes of a region lies in it in order (the
  stack, the list and the heap; or the allocator, its bitmap and the heap), the
  bitmap has a bit for every page of the heap, and no other division of the same
  kind has a larger heap.
- `BuffersExact`: what Free and Dealloc compute is what Alloc, OffsetAlign and
  Realloc took; buffers are aligned behind their headers.
- `HeapExact`: the heap is what Place left and the whole chunks of what AddRegion was
  given, and not a byte elsewhere.
- `FreeListContract`, `PlacedFreeListContract`, `BitmapContract`,
  `FreeTreeContract`, `TransformerContract`: refinement of `AddressSpace`;
  `VirtualAllocatorContract`: of
  `VirtualAllocator`.

### Findings

1. `FreeList::OffsetAlign` divides by `align` untested (`src/free-list/free-list.hpp:102`)
   while `src/abstract/aligner.hpp:17-18` declares 0 a legal alignment that means
   1. `free_list_zero_align` shows it. `ChunkedFreeList`, and so
   `PlacedFreeList`, sends every `align <= chunkSize` to Alloc and is not
   affected; `FreeTree` divides the same way (`src/free-tree/free-tree.hpp:218`).
2. `Bitmap::OffsetAlign` with an alignment that SizeType cannot represent looks
   at one index without comparing it with the size of the bitmap
   (`src/bitmap/bitmap.hpp:118`): an assertion fails where `false` is
   due. `bitmap_bounds` shows it.
3. `FreeTree::OffsetAlign` adds skip and size in AddressType
   (`src/free-tree/free-tree.hpp:221`): when the sum wraps, a region that is too
   small is granted. `free_tree_wrap` shows it.
4. `AllocatorVirtualizer::Alloc` adds the size of the header in `size_t`
   (`src/wrappers/allocator-virtualizer.hpp:39`): when the sum wraps, Alloc returns
   true with a few bytes, and the header in front of them names the size that
   was asked for. `virtualizer_wrap` shows it. `AlignerVirtualizer::OffsetAlign`
   adds the same way (`src/wrappers/aligner-virtualizer.hpp:23-24`), and
   `ChunkedFreeList` rounds up in SizeType (`src/free-list/chunked-free-list.hpp:26`).

### Behaviour worth knowing

- Freeing an empty range of a FreeTree records an empty region. The neighbour
  searches of later frees find it in place of the region it hides, and regions that
  touch are not joined. `SeamOnlyByEmpty` says that this, and an OffsetAlign of
  size 0, are the only ways.
- When `FreeTree::Alloc` cannot record what remains of a region it returns false,
  and the part that was asked for is lost with the rest.
- A source that takes more objects back while ApplyBuffer drains than lie
  between the soft bounds leaves the stack below its minimum although ApplyBuffer
  returns true: the refill loop is not run again. `SoftBounds` states by how much.

- `AvlTree::GetDepth` calls `AvlNode::GetDepth`, which does not exist
  (`src/free-tree/avl-tree.hpp:164`): a member of a template that is not used is
  not compiled.
- `VirtualBitmapAllocator::Place` returns an allocator with an empty heap where
  the region has room for the object but not for a page and its bit; it returns
  `nullptr` only where the object itself does not fit.
- A buffer from a `VirtualPlacedFreeList` costs at least two chunks: its header is
  rounded to a whole one.

## 5. The proofs

All theorems hold for every value of the constants that satisfies the modules'
assumptions. A listed theorem that has a premise states it in its own formula.

| Module | Theorems | Assumes |
|---|---|---|
| `FreeListProofs` | `TypeTheorem`, `RegionsOrderedTheorem`, `UnitsConservedTheorem`, `NodesConservedTheorem`, `ContractTheorem`, `SearchExactTheorem`, `SeamTheorem` | `WidthAssumption`, `RequestAssumption`; the contract and the search `AlignAssumption` |
| `PlacedFreeListProofs` | `Invariance`, `NoFaultTheorem`, `BufferReadyTheorem`, `RegionsOrderedTheorem`, `OneOwnerTheorem`, `TypeTheorem`, `ContractTheorem` | `WidthAssumption`, `PlacementAssumption`, `RequestAssumption`: a stack of at least three places, a space that fits the address space; the contract `AlignAssumption` |
| `BitmapProofs` | `TypeTheorem`, `UsedExactlyTheorem`, `SearchExactTheorem`, `ContractTheorem`, `AssertionsHoldTheorem` | `BitmapAssumption`, `AlignAssumption`; `AssertionsHoldTheorem` the premise `NarrowAligns` |
| `FreeTreeProofs` | `TypeTheorem`, `TreesAgreeTheorem`, `UnitsConservedTheorem`, `GrantedIsFreeTheorem`, `ContractTheorem`, `SearchExactTheorem`, `SeamTheorem` | `FreeTreeAssumption`, `AlignAssumption`; the premise `NoWrap` |
| `StructureProofs` (AvlTree) | `TypeTheorem`, `BalancedTheorem`, `SearchExactTheorem`, `ContractTheorem` | `TreeAssumption`: memory is finite and not at address 0, values are ordered |
| `StructureProofs` (BufferedStack) | `StackTypeTheorem`, `OneOwnerTheorem`, `SoftBoundsTheorem` | `StackAssumption`; the premise `CapacityAllowsReentry` |
| `TransformerProofs` | `HeldIsGrantedTheorem`, `TypeTheorem`, `ContractTheorem` | `TransformerAssumption`: the addresses the units stand for fit the address space; the contract `AlignAssumption` |
| `VirtualizerProofs` | `LayoutFitsTheorem`, `HeapExactTheorem`, `TypeTheorem`, `BuffersExactTheorem`, `ContractTheorem`, `AllocGivesSizeTheorem`, `LayoutBestTheorem` | `VirtualizerAssumption`, `AlignAssumption`, `MemoryAssumption`: regions end below the last address, additions do not overlap; `LayoutBestTheorem` the premise `NarrowUnits`, the others but the first two `NoWrap` |

`RegionListProofs` has the lemmas about lists of regions, and before them those about
quotients, remainders and least numbers. The modules about other components take the
latter through an instance, `Numbers`; the two constants the instance needs play no
part in these lemmas. The prover has no non-linear
arithmetic to speak of, so that each rule about `%` and `\div` that the code relies on
is a lemma there: that a remainder by an alignment survives the wrap of AddressType
(`WrapKeepsRemainder`), that what is skipped is the least that aligns
(`NearestAligned`). `LeastNumber` says that a property of numbers which fails
fails first somewhere, which is how facts that need an induction are proved.

### PlacedFreeList

`NoFault` alone is not inductive: whether the stack can overflow
depends on its height, and whether a refill can fail on what the list holds
when the stack is empty. `IInv` adds

- `Consistent`: the list is well formed over the space (`ListOf`), the stack is
  injective, and the space is partitioned among the client, the regions, the
  structures, the stack and what is coming. It is what makes an assertion about overlapping
  frees hold, and is preserved by each kind of update separately;
- `BufferInv`: the height of the stack in each phase. Between calls it is from 1 to
  StackSize - 1. On entry to ApplyBuffer it is at most StackSize, and if it is 0 the
  call has just taken a chunk to insert a region, so that there is a region to
  refill from; when a chunk is about to be pushed there is at most one in the stack. A
  drain step pops one chunk and pushes at most one;
- `ComingInv`: only a chunk that is about to be pushed is coming, and it is one. So the
  list that ApplyBuffer or the client calls is always as if no refill were under
  way (`QuietFacts`).

`RegionListProofs` has the lemmas: one per update of the list (`TakeHeadFacts`,
`CarveFacts`, `InsertFacts`, `GrowBeforeFacts`, `GrowAfterFacts`,
`JoinBothFacts`), each saying that a well-formed list stays one, which units
and structures it names afterwards, and how its length changes. They speak of
RegionList's operators only and serve any module built on it. The invariance
proof has one lemma per action and combines them.

The contract follows from `IInv` as it stands: a turn of ApplyBuffer's loops is
housekeeping, and what TakeHead or OffsetAlign took from the list is what the answer
names, aligned since the skip is a compensation modulo a divisor of the number of
addresses.

### FreeList

Units and structures are conserved only together with what an interrupted call
is about to do: the handler that gives up on a Dealloc drops the range, and
one that gives up on an OffsetAlign drops the tail of a region that `reg->size = offset`
has not shortened yet. `IInv` is

- `ListInv`: the list is well formed (`ListOf`) and no region is larger than SizeType;
- `NodesInv`, `UnitsInv`: structures and units are partitioned, the units
  `InTransit` of a waiting call being one part;
- `PendingInv`: what a waiting call knows about the list is still so. A Dealloc
  (`DeallocWaits`) has found a gap in which its range fits and touches nothing; an
  OffsetAlign (`AlignWaits`) has divided the first region that fits, still whole,
  in three.

The lemmas of `RegionListProofs` do for the updates what they do for `PlacedFreeList`.
The two action properties are read off `IInv` with further lemmas of that module.

- `SearchExactTheorem`: the property is about units, the search about the list. A
  usable range lies within one region, since the regions are sorted and no seam
  interrupts it (`UsableWithin`); a region that holds an aligned range is accepted,
  and its first aligned address is the one the search computes (`AlignedThere`, by
  `NearestAligned`). So the first region accepted has the lowest address
  (`FirstIsLowest`), and when none is accepted there is no range (`NoneUsable`). An
  answer that has waited in InsertAfter is exact by `AlignWaits`.
- `SeamTheorem`: in a sorted list a seam is where one region begins and one ends
  (`SeamFacts`), so that it is enough to know where the regions of the new list begin and
  end. An update removes such places or adds one at which no other region of a
  sorted list can begin or end (`NothingInside`, `GapTouchesNone`), but for
  the cut that OffsetAlign makes for an empty answer (`CarveSeams`).

### Bitmap

What the bits are is the easy half: `IInv` (`UsedExactly`, with the client's addresses
in the bitmap and the foreign bits behind it) is kept by every call as soon as a
range that is given is known to be free and in the bitmap. That it is, and that it is
the first, is about the searches, which are recursive functions.

- A function with a given recursive equation has to exist before anything can be said
  of the one that CHOOSE picks. `LoopExists` shows that it does for a loop over
  `0..N` that only moves on.
- What it returns is proved from the last index down (`Downward`, from
  `LeastNumber`). `LoopResult` does so for the two inner searches: a step passes
  only over bits that are 1 or not aligned (`PassesUsed`), so that the result is the
  first free aligned bit from the index on (`FirstFree`). `PastUsedFacts` and
  `PastAlignedFacts` show that their steps are such, over whole units too.
- The loop around them moves on to the bit that was in the way of Reserve. No range
  that would do (`Fitting`) begins between the two (`AttemptFacts`), hence the
  result is the least that would (`ReservedFound`).
- An alignment above the maximum of SizeType is searched for with one attempt,
  whose index is not compared with the size of the bitmap, and may fail an assertion.
  `wide` marks that outcome throughout; it stutters in the contract.
  `AssertionsHoldTheorem` is the converse of finding 2: without such alignments
  (`NarrowAligns`) every search stays in the bitmap.

### FreeTree

`TreesAgree` is inductive only with what the queue holds: the undo of a failed second
insertion removes the region from the first tree, and would remove
one that was there before if it was equal to it. `IInv` says that the regions
waiting to be inserted are in neither tree, differ and are apart
(`NothingWaits`, `OneWaits`, `TwoWait`), that regions are disjoint (`Disjoint`), and that
every donated unit is free, held, in transit or dropped (`Places`). An empty
region is disjoint from everything and hides neighbours, so disjointness says
of it only that it is no copy of another.

`NoWrap`, that an alignment and a size together fit AddressType, is what finding 3
shows to be needed: without it OffsetAlign grants more than the region has.
`GrantedIsFreeTheorem` is the converse, that this is the only way. The constants of
`free_tree` satisfy it.

`SearchExactTheorem` joins what the search finds in one tree to all that is free.
`SmallestFound` (a least counterexample) says that the first region in the order of
the sized tree exists if any is large enough; `RangeWithin` that a free range in which
no two regions touch lies in one region; `FitsIsAccepted` that the enumerator's
test accepts each region with an aligned part that is large enough, and `AcceptedIsLowest` that the
part it takes is the first one in it. `SeamTheorem` follows the seams through the
updates: a region that is cut in pieces has seams only where an empty piece is
(`DividedSeams`), and one that is joined to all it touches has none (`JoinedSeams`), which
needs that the searches find what touches where no region is empty
(`ToucherBeforeFound`, `ToucherAfterFound`).

### AvlTree

What the runs check is stated with recursive functions over the links. The invariant
speaks of a function instead: `IInv` says that there is a `sub`, of the set of nodes
below each node, such that the tree is `Sane`, which is

- `Linked`: parents and children agree, and no link leaves the tree;
- `Subtrees`: what is below a node is the node, what is below its left child and what is
  below its right one, and these are disjoint (`Split`). This makes the links a
  tree: nodes linked in a ring are locally as well-formed as any;
- `Ordered`: everything on the left of a node is at most it, everything on the right at
  least;
- `Level`: the depth is exact for the children's, and the sides differ by one at most;
- `Clean`: memory that is not in use has no link.

Each operation is described three times. `IsTurn` (a rotation in its place), `IsHung`,
`IsUnlinked` and `IsSwapped` say what is in each field afterwards, aliasing of parent,
child and grandchild included; `TurnShape`, `HungShape`, `UnlinkShape` and `SwapShape` what
becomes of `sub`, which gives the first three conditions again; `TurnDepths`,
`HungClimbs`, `UnlinkClimbs` and `SwapClimbs` what becomes of the depths.

Between the change and the end of Rebalance the tree is `Climbing`: one node may be
`Tilted`, its depth being exact for what one of its sides was before that side became deeper or
shallower by one. `StraightenFacts` and `RebalanceRaises` show that a turn levels this node,
whichever rotations that takes; that no assertion on the way fails, since the first
of two rotations does not change the depth; and that its own depth
changes by one at most. So the parent is level, when the depth is what it was and the
loop ends, or is the next to be tilted (`AscendClimbs`). The parent has more below it,
so that the loop ends within as many turns as there are nodes (`RebalanceEnds`).

That the recursive functions exist is `RecursionExists`: the arguments of the calls have a
smaller rank, here the number of nodes below. What they return is proved by `TreeInduction`,
which follows from `LeastNumber`. The searches above and below are one lemma
(`SearchFinds`), generic in the side and in what a value must satisfy.
`EnumerationVisits` says of the enumeration from a node that it adds, to whatever was
seen before, the values below the node in order, all of them or up to the first that
stops it (`Visited`); that the callback is not called again is a condition on what was seen
(`Calm`). Nothing in the proof supposes that values differ: rotations
may put equal values on both sides of each other, and `Ordered` allows it.

For `ContractTheorem` it is enough that the links reach `lent` in every state
(`ReachedIs`, from `Sane`), and that every step adds one node to it, removes one or
empties it (`StepSane`). The hard part of it is that a search which removes finds a
node, and that `RemoveNode` takes out that node although another one moves into its
place.

### BufferedStack

`StackTypeOK` says that `at` never becomes `"asserted"`: ApplyBuffer asserts, after the
source has returned an object, that there is a place for it
(buffered-stack.hpp:109), and the source may have filled the stack meanwhile.
`StackInv` therefore adds `Room`: during a call of the source's Alloc the stack holds
fewer objects than `SoftMinimum` and the source's calls so far allow. The theorem
needs `CapacityAllowsReentry`, SoftMinimum + MaxReentries <= Capacity, which is what
a source has to respect; a FreeList, whose Alloc frees at most one structure into the
stack, does. `Passed` says that only a source->Dealloc under way has an object in
its hands. `OneOwner` is preserved action by action with two lemmas, `PopOwned` and
`PushOwned`, on what Pop and Push do to the partition of the objects.
`SoftBounds` follows from `Bounds`, an invariant beside `StackInv`: how low the stack can be
while it is drained, and that `buffering` is clear whenever no ApplyBuffer runs.

### Transformer

`HeldIsGranted` is inductive together with the types of what it relates; the work
is the arithmetic. `AddressesOfRange` says that a range of units stands for a range
of addresses, `AddressesWithout` that no two units share one, `WholeUnits` that
sizes are rounded up to the units that are asked for. With them `GiveInvariant`
and `DeallocInvariant` show that the translation on the way out and the one on
the way in are inverse. `TypeTheorem` then needs only that what is granted ends within the
address space. `ContractTheorem` is about alignment: the transformer divides the
alignment by the scale, or drops it when the scale is a multiple, and divides the
offset. That the answer is aligned as the client asked is `AlignsAndScales`,
from a lemma for each of the two cases (`TriviallyAligned`, `ScaledAligned`) and one
for the sum that wraps before it is divided (`WrappedMultiple`).

### Virtualizer

`LayoutFits` and `HeapExact` depend on the region and the additions only: `HeapInv`
says that the heap is what Place gave (`Given`) and the whole granules (`Trimmed`) of each
addition. `BuffersInv` says of the buffers that requests are in range, that what is
free is the heap without what is taken, that what is taken for two buffers is disjoint,
and that each buffer is behind a header, aligned, and begins at a granule
(`Own`). A call that obtains memory preserves it by `GrantFacts`, `OwnGranted` and, for
the buffers it does not concern, `OwnKept`; a Realloc keeps the old extent taken
while the new one is granted, and frees it last. `ContractTheorem` reads the
contents of buffers off `memory`: no header and no copy is written into
an extent that is taken for another buffer.

`LayoutBest` compares BestBitmapSize, which looks at two sizes, with every multiple of the
alignment. `ShorterCoversLess` says that below the first of them the bitmap covers
less, `LongerCoversRest` that from the second on it covers all that it leaves, so that
longer ones lose. The first needs `NarrowUnits`, that a unit is no larger than what one
byte of the bitmap covers: with units of 16 bytes and pages of 1, 153 usable bytes are
given a bitmap of 32 bytes and a heap of 121, where a bitmap of 16 has one of 128.
Integer types, of at most 8 bytes, satisfy it with any page.

`NoWrap` says that a size, a header and the rounding to granules fit in `size_t`.
Finding 4 shows that it is needed; `AllocGivesSizeTheorem` that it is enough. The
constants of `virtualizer` satisfy it.

### What is not proved

Of the properties that the passing runs check, one is only model-checked: the liveness
property `ApplyBufferReturns`, which is beyond the prover.

The refinement of `AddressSpace` by `FreeList`, `PlacedFreeList`, `Bitmap`,
`FreeTree` and `Transformer`, of `VirtualAllocator` by `Virtualizer`, and of
`DynamicTree` by `AvlTree`, is proved.

## 6. Not modelled

- Overflow handlers that call back into the stack.
- Failure handlers that call back into the list. `InsertAfter` holds pointers
  into the list across the call; no test or document says what a handler may do.
- Frees of what the client does not hold, and frees whose merger SizeType
  cannot represent: the first is outside the interface, the second a documented
  precondition.
- `RawBitmap`'s SetBits, GetBits and moves: no class of the library uses them.
- A `VirtualBufferedStack`'s Free, which is a Dealloc, and its Realloc, which changes
  nothing.
- The composition of a virtualizer with one particular list or bitmap: `Virtualizer`
  allows every grant that those could make, and so every sequence of calls.
- The node memory of `AvlTree` beyond its being lent: what the VirtualAllocator
  that lends it does is the other modules' subject.
- The `ansa` library.
