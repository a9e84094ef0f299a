---------------------------- MODULE AdapterWire ----------------------------
(***************************************************************************)
(* The adapter hand-off format of common/transport/wire.py: how one LoRA   *)
(* adapter is cut into chunks by the trainer and put together again, on    *)
(* disk, by the policy server.  No variables: the operators here are the   *)
(* data part of AdapterSync.                                               *)
(*                                                                         *)
(* An adapter is named by the trainer process that published it and its    *)
(* version number; its safetensors bytes are NChunks slices that know      *)
(* where they come from, so that a mixture of two adapters is visible.     *)
(* NChunks >= 1: a safetensors file always has a header, so the            *)
(* "total == 0" branch of iter_chunks is never taken.                      *)
(***************************************************************************)
EXTENDS Naturals, Sequences

CONSTANTS
  NChunks,    \* slices of CHUNK_BYTES in one adapter
  KeepLast    \* AdapterClient's keep_last: local directories kept on disk

ASSUME NChunksAssumption == NChunks \in Nat \ {0}
ASSUME KeepLastAssumption == KeepLast \in Nat \ {0}

Adapters == [run : Nat \ {0}, version : Nat \ {0}]

\* None on the Python side; its version is the have_version = 0 of a request.
NoAdapter == [run |-> 0, version |-> 0]

Slices == [of : Adapters, index : 1 .. NChunks]
Slice(a, k) == [of |-> a, index |-> k]

\* The first k slices of adapter a.
Prefix(a, k) == [i \in 1 .. k |-> Slice(a, i)]

\* serialize_adapter: the bytes published for adapter a.
Weights(a) == Prefix(a, NChunks)

Whole(w) == w = Weights(w[1].of)

(***************************************************************************)
(* iter_chunks: the k-th message of the stream for (meta, w).  The         *)
(* metadata rides the first chunk only.                                    *)
(***************************************************************************)
Chunk(meta, w, k) ==
  [ meta    |-> IF k = 1 THEN meta ELSE NoAdapter,
    weights |-> w[k],
    last    |-> k = NChunks ]

(***************************************************************************)
(* AdapterAssembler.  Its state is the adapter being received and the      *)
(* bytes so far; Begin is the effect of a first chunk, Add that of any     *)
(* chunk.  A last chunk with no adapter begun completes nothing.           *)
(***************************************************************************)
EmptyAssembler == [meta |-> NoAdapter, buf |-> <<>>]

Begin(asm, c) ==
  IF c.meta # NoAdapter THEN [meta |-> c.meta, buf |-> <<>>] ELSE asm

Extend(asm, c) == [Begin(asm, c) EXCEPT !.buf = Append(@, c.weights)]

Add(asm, c) == IF c.last THEN EmptyAssembler ELSE Extend(asm, c)

\* The adapter that chunk c completes, or NoAdapter.
Completes(asm, c) == IF c.last THEN Extend(asm, c).meta ELSE NoAdapter

(***************************************************************************)
(* Local directories: `dirs' is the assembler's list of directories, by    *)
(* version number (the directory name is v<version>); `disk' what each     *)
(* holds, <<>> when the directory does not exist.                          *)
(***************************************************************************)
\* _materialize: write the files of version v, remember the directory.
Materialize(disk, v, buf) == [disk EXCEPT ![v] = buf]

\* Mutant: one directory too many is popped.
PoppedTooMany(dirs) ==
  {dirs[i] : i \in {j \in DOMAIN dirs : j + KeepLast <= Len(dirs) + 1}}

\* cleanup: directories popped from the front of the list are removed.
Popped(dirs) == {dirs[i] : i \in {j \in DOMAIN dirs : j + KeepLast <= Len(dirs)}}
Cleanup(disk, dirs) == [v \in DOMAIN disk |-> IF v \in Popped(dirs) THEN <<>> ELSE disk[v]]
Kept(dirs) ==
  IF Len(dirs) > KeepLast THEN SubSeq(dirs, Len(dirs) - KeepLast + 1, Len(dirs)) ELSE dirs

(***************************************************************************)
(* External: what safetensors accepts.  A file is loadable when its first  *)
(* slice carries a header and the byte count is the one the header         *)
(* announces: NChunks slices, the last of them the short tail.  The        *)
(* format has no checksum, so where the slices come from is not checked.   *)
(***************************************************************************)
Loadable(buf) ==
  /\ Len(buf) = NChunks
  /\ buf[1].index = 1
  /\ buf[NChunks].index = NChunks
=============================================================================
