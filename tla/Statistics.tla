----------------------------- MODULE Statistics -----------------------------
(***************************************************************************)
(* The statistics of a column that describe its values: how many there     *)
(* are, how large, and how large before compression.  The counters of      *)
(* events (queries, insertions, removals, commits) are only ever           *)
(* incremented and printed; they are left out.                             *)
(*                                                                         *)
(* The counters are unsigned words of STAT_BITS bits and wrap around, but  *)
(* for the compression deltas, which are signed.                           *)
(***************************************************************************)
EXTENDS Integers, Sequences

CONSTANTS
  HISTOGRAM_BUCKETS, HISTOGRAM_BUCKET_BITS,
  STAT_BITS                (* bits of a counter                            *)

ASSUME StatisticsAssumption ==
  {HISTOGRAM_BUCKETS, HISTOGRAM_BUCKET_BITS, STAT_BITS} \subseteq Nat

Counter == 0..2 ^ STAT_BITS - 1
Wrapped(n) == n % 2 ^ STAT_BITS

Buckets == 0..HISTOGRAM_BUCKETS - 1
ValueHistogramIndex(size) == size \div 2 ^ HISTOGRAM_BUCKET_BITS

EmptyStats ==
  [value_histogram |-> [b \in Buckets |-> 0], compression_delta |-> [b \in Buckets |-> 0],
   oversized |-> 0, oversized_bytes |-> 0,
   total_values |-> 0, total_bytes |-> 0, uncompressed_bytes |-> 0]

\* insert (n = 1) and remove (n = -1) of a value of this size.
Count(stats, n, size, compressed) ==
  LET b == ValueHistogramIndex(size)
      sized == IF b \in Buckets
               THEN [stats EXCEPT !.value_histogram[b] = Wrapped(@ + n),
                                  !.compression_delta[b] = @ + n * (size - compressed)]
               ELSE [stats EXCEPT !.oversized = Wrapped(@ + n),
                                  !.oversized_bytes = Wrapped(@ + n * compressed)]
  IN [sized EXCEPT !.total_values = Wrapped(@ + n),
                   !.total_bytes = Wrapped(@ + n * compressed),
                   !.uncompressed_bytes = Wrapped(@ + n * size)]

InsertVal(stats, size, compressed) == Count(stats, 1, size, compressed)
RemoveVal(stats, size, compressed) == Count(stats, -1, size, compressed)

ReplaceVal(stats, old, old_compressed, new, new_compressed) ==
  Count(Count(stats, -1, old, old_compressed), 1, new, new_compressed)

(***************************************************************************)
(* The statistics as the words that an index file holds, one after another. *)
(***************************************************************************)
BucketWords(f) == [n \in 1..HISTOGRAM_BUCKETS |-> f[n - 1]]

ToSlice(stats) ==
  BucketWords(stats.value_histogram)
  \o <<stats.oversized, stats.oversized_bytes, stats.total_values, stats.total_bytes,
       stats.uncompressed_bytes>>
  \o BucketWords(stats.compression_delta)

FromSlice(data) ==
  LET after == HISTOGRAM_BUCKETS IN
  [value_histogram |-> [b \in Buckets |-> data[b + 1]],
   oversized |-> data[after + 1], oversized_bytes |-> data[after + 2],
   total_values |-> data[after + 3], total_bytes |-> data[after + 4],
   uncompressed_bytes |-> data[after + 5],
   compression_delta |-> [b \in Buckets |-> data[after + 5 + b + 1]]]

\* The words of a file that was just created.
ZeroSlice == [n \in 1..2 * HISTOGRAM_BUCKETS + 5 |-> 0]
=============================================================================
