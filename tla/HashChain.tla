------------------------------ MODULE HashChain ------------------------------
(***************************************************************************)
(* The hash chain of src/src/log/hash_chain.rs as operators on sequences   *)
(* of blocks.  SHA-256 is taken to be free of collisions: the hash of a    *)
(* block is the tuple of what is hashed.  Only the start-up at which a     *)
(* block was made is kept of its timestamp, and the nonce is always 0.     *)
(* The block at position p of a chain built by append has index p - 1.     *)
(***************************************************************************)
EXTENDS Integers, Sequences

CONSTANTS
    GenesisData,        \* "GENESIS_BLOCK"
    Redacted            \* "[REDACTED]"

ZeroHash == <<>>        \* "0" repeated 64 times

ComputeHash(index, prev, data, stamp) == <<prev, index, data, stamp>>

(* A block that is hashed over the hash over. *)
Sealed(index, prev, over, data, stamp) ==
    [index |-> index, prev |-> prev, data |-> data, stamp |-> stamp,
     hash |-> ComputeHash(index, over, data, stamp)]

Genesis(stamp) == Sealed(0, ZeroHash, ZeroHash, GenesisData, stamp)

NewChain(stamp) == <<Genesis(stamp)>>

NextLink(previous, data, stamp) ==
    Sealed(previous.index + 1, previous.hash, previous.hash, data, stamp)

AppendBlock(blocks, data, stamp) ==
    Append(blocks, NextLink(blocks[Len(blocks)], data, stamp))

HashOver(b, prev) == ComputeHash(b.index, prev, b.data, b.stamp)

(* Mutant: a block is believed. *)
VerifySelfAlways(b) == TRUE

VerifySelf(b) == b.hash = HashOver(b, b.prev)

(* The indices verify_chain reports. *)
VerifyChain(blocks) ==
    {0 : p \in {q \in {1} : blocks[q].prev # ZeroHash}}
    \cup {blocks[p].index : p \in {q \in DOMAIN blocks : ~VerifySelf(blocks[q])}}
    \cup {blocks[p].index :
             p \in {q \in 2 .. Len(blocks) : blocks[q].prev # blocks[q - 1].hash}}

-----------------------------------------------------------------------------
(* redact: the block keeps the previous hash it stores, but is hashed over *)
(* the hash its predecessor has; later blocks are linked anew.             *)
CanRedact(blocks, index) == index > 0 /\ index < Len(blocks)

(* Mutant: the blocks behind the redacted one are left alone. *)
RedactAlone(blocks, index) ==
    LET b == blocks[index + 1]
    IN  [blocks EXCEPT ![index + 1] =
            Sealed(b.index, b.prev, blocks[index].hash, Redacted, b.stamp)]

Redact(blocks, index) ==
    LET rehashed[p \in DOMAIN blocks] ==
            IF p <= index
            THEN blocks[p]
            ELSE LET before == rehashed[p - 1].hash
                     b == blocks[p]
                 IN  IF p = index + 1
                     THEN Sealed(b.index, b.prev, before, Redacted, b.stamp)
                     ELSE Sealed(b.index, before, before, b.data, b.stamp)
    IN  rehashed

-----------------------------------------------------------------------------
(* batch_verify_parallel.  A chunk is hashed over the hash of its          *)
(* predecessor; the stored previous hash is only compared where two chunks *)
(* meet.  A slice that would start behind the end panics.                  *)
DivCeil(a, b) == (a + b - 1) \div b

ChunkStart(total, n, k) == (k - 1) * DivCeil(total, n)      \* 0-based, k from 1

Sequential(total, n) == n <= 1 \/ total < n * 2

SlicesInRange(total, n) ==
    Sequential(total, n) \/ \A k \in 1 .. n : ChunkStart(total, n, k) <= total

BatchVerify(blocks, n) ==
    LET total == Len(blocks)
        Before(p) == IF p = 1 THEN ZeroHash ELSE blocks[p - 1].hash
        starts == {ChunkStart(total, n, k) + 1 : k \in 2 .. n} \cap 1 .. total
    IN  IF Sequential(total, n)
        THEN VerifyChain(blocks)
        ELSE {blocks[p].index :
                 p \in {q \in 1 .. total :
                           blocks[q].hash # HashOver(blocks[q], Before(q))}}
             \cup {blocks[p].index :
                      p \in {q \in starts : blocks[q].prev # Before(q)}}

(* parallel_verify_chain chooses the number of chunks: one for every       *)
(* perChunk blocks (256), at least 1 and at most most (16).                *)
NumChunks(total, perChunk, most) ==
    LET wanted == total \div perChunk
    IN  IF wanted < 1 THEN 1 ELSE IF wanted > most THEN most ELSE wanted

-----------------------------------------------------------------------------
(* proof_for_block and ChainProof::verify_position. *)
ProofForBlock(blocks, index) ==
    [block |-> blocks[index + 1],
     before |-> IF index > 0 THEN blocks[index].hash ELSE ZeroHash,
     hasBefore |-> index > 0]

VerifyPosition(proof) ==
    /\ VerifySelf(proof.block)
    /\ proof.hasBefore => proof.block.prev = proof.before
=============================================================================
