----------------------------- MODULE IndexTable -----------------------------
(***************************************************************************)
(* The entries and chunks of an index table, as arithmetic on the words    *)
(* that the file holds.  index.rs has words of 64 bits, chunks of 2^6      *)
(* entries and 2^8 size tiers; the constants scale that down.              *)
(*                                                                         *)
(* An entry of a table with b index bits is a word: its low bits hold the  *)
(* address of a value, the rest the bits of the key that follow the bits   *)
(* the chunk stands for.  The word 0 is the empty entry.  A chunk is a     *)
(* function from sub-indexes to entries.                                   *)
(***************************************************************************)
EXTENDS Integers, FiniteSetsExt

CONSTANTS
  ENTRY_LEN,            (* bits of a word, and of the key the index sees   *)
  CHUNK_ENTRIES_BITS,
  SIZE_TIERS_BITS

ASSUME IndexAssumption ==
  /\ {ENTRY_LEN, CHUNK_ENTRIES_BITS, SIZE_TIERS_BITS} \subseteq Nat \ {0}
  /\ CHUNK_ENTRIES_BITS + SIZE_TIERS_BITS < ENTRY_LEN

CHUNK_ENTRIES == 2 ^ CHUNK_ENTRIES_BITS
SubIndexes == 0..CHUNK_ENTRIES - 1

Words == 0..2 ^ ENTRY_LEN - 1

(***************************************************************************)
(* Addresses and entries.                                                  *)
(***************************************************************************)
Address(offset, size_tier) == offset * 2 ^ SIZE_TIERS_BITS + size_tier
Offset(address) == address \div 2 ^ SIZE_TIERS_BITS
SizeTier(address) == address % 2 ^ SIZE_TIERS_BITS

AddressBits(bits) == bits + CHUNK_ENTRIES_BITS + SIZE_TIERS_BITS
LastAddress(bits) == 2 ^ AddressBits(bits) - 1

Empty == 0
Entry(address, key_material, bits) == key_material * 2 ^ AddressBits(bits) + address
EntryAddress(entry, bits) == entry % 2 ^ AddressBits(bits)
KeyMaterial(entry, bits) == entry \div 2 ^ AddressBits(bits)

\* (key << index_bits) >> address_bits, on words.
ExtractKey(word, bits) == ((word * 2 ^ bits) % 2 ^ ENTRY_LEN) \div 2 ^ AddressBits(bits)

(***************************************************************************)
(* Chunks.                                                                 *)
(***************************************************************************)
TotalChunks(bits) == 2 ^ bits
Chunks(bits) == 0..TotalChunks(bits) - 1

EmptyChunk == [i \in SubIndexes |-> Empty]
EmptyTable(bits) == [c \in Chunks(bits) |-> EmptyChunk]

ChunkIndex(word, bits) == word \div 2 ^ (ENTRY_LEN - bits)

\* Mutant: the key material is put where a table with one bit less has it.
RecoverShifted(chunk, entry, bits) ==
  chunk * 2 ^ (ENTRY_LEN - bits)
    + KeyMaterial(entry, bits) * 2 ^ (AddressBits(bits) - bits - 1)

\* The first bits of the key that an entry of a chunk stands for, then zeros.
RecoverKeyPrefix(chunk, entry, bits) ==
  LET k == ENTRY_LEN - AddressBits(bits) IN
  chunk * 2 ^ (ENTRY_LEN - bits) + KeyMaterial(entry, bits) * 2 ^ (ENTRY_LEN - k - bits)

\* The sub-indexes from `from` on whose entry may be the one of the key.
Candidates(word, from, chunk, bits) ==
  {i \in SubIndexes : /\ i >= from /\ chunk[i] # Empty
                      /\ KeyMaterial(chunk[i], bits) = ExtractKey(word, bits)}

\* find_entry: the first candidate; the empty entry when there is none.
FindEntry(word, from, chunk, bits) ==
  LET found == Candidates(word, from, chunk, bits) IN
  IF found = {} THEN [entry |-> Empty, sub |-> 0]
  ELSE [entry |-> chunk[Min(found)], sub |-> Min(found)]

\* plan_insert_chunk: the chunk with the entry in it, in the place sub or, when
\* sub is not a place, in the first free one.
PlanInsertChunk(word, address, chunk, sub, bits) ==
  LET free == {i \in SubIndexes : chunk[i] = Empty}
      new_entry == Entry(address, ExtractKey(word, bits), bits)
  IN
  IF address > LastAddress(bits) THEN [outcome |-> "NeedReindex", chunk |-> chunk]
  ELSE IF sub \in SubIndexes
  THEN [outcome |-> "Written", chunk |-> [chunk EXCEPT ![sub] = new_entry]]
  ELSE IF free = {} THEN [outcome |-> "NeedReindex", chunk |-> chunk]
  ELSE [outcome |-> "Written", chunk |-> [chunk EXCEPT ![Min(free)] = new_entry]]

\* plan_remove_chunk
PlanRemoveChunk(word, chunk, sub, bits) ==
  IF chunk[sub] # Empty /\ KeyMaterial(chunk[sub], bits) = ExtractKey(word, bits)
  THEN [chunk EXCEPT ![sub] = Empty] ELSE chunk
=============================================================================
