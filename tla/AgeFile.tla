------------------------------ MODULE AgeFile ------------------------------
(***************************************************************************)
(* Opening a message's age file (worker/age.c): the header's stanzas, its  *)
(* MAC and the payload, sealed chunk by chunk.                             *)
(*                                                                         *)
(* Cryptography is ideal: a stanza opens for whom it was made, a MAC is    *)
(* the header it was made over, and a sealed chunk is a row of cells that  *)
(* know their key, chunk and place.  Left out: base64, Bech32, lengths of  *)
(* lines (formed stands for them), and memory that runs out.               *)
(***************************************************************************)
EXTENDS Integers, Sequences, SequencesExt

CONSTANTS Me,           \* this identity
          MaxStanzas,   \* MAX_STANZAS
          ChunkSize,    \* CHUNK
          TagSize       \* TAG

Refused(err) == [err |-> err, text |-> <<>>]

-----------------------------------------------------------------------------
(* Sealing, as age does it for Kata's forwarder.                            *)

\* A stanza: formed as a stanza, shaped as its type wants, and the file key inside.
Stanza(type, to, key) == [type |-> type, to |-> to, key |-> key, formed |-> TRUE, shaped |-> TRUE]

\* A sealed chunk at its largest; a text's chunks, of which only the last may be smaller.
Box == ChunkSize + TagSize
Pieces(len) == IF len = 0 THEN 1 ELSE (len + ChunkSize - 1) \div ChunkSize
PieceSize(len, n) == TagSize + (IF n = Pieces(len) - 1 THEN len - n * ChunkSize ELSE ChunkSize)
\* The cell at a place of a chunk: its bytes, then its tag.
Cell(text, key, nonce, n, at) ==
    [key |-> key, nonce |-> nonce, n |-> n, last |-> n = Pieces(Len(text)) - 1, at |-> at, size |-> PieceSize(Len(text), n),
     byte |-> IF at + TagSize <= PieceSize(Len(text), n) THEN text[n * ChunkSize + at] ELSE "tag"]
\* The nonce stands before the first chunk, in nobody's place.
Salt(nonce) == [key |-> "none", nonce |-> nonce, n |-> 0, last |-> FALSE, at |-> 0, size |-> 0, byte |-> "salt"]
Body(text, key, nonce) ==
    [i \in 1..Len(text) + Pieces(Len(text)) * TagSize |->
       LET n == (i - 1) \div Box IN Cell(text, key, nonce, n, i - n * Box)]
Seal(text, stanzas, key, nonce) ==
    [intro |-> TRUE, stanzas |-> stanzas, end |-> TRUE, mac |-> [key |-> key, over |-> stanzas],
     payload |-> <<Salt(nonce)>> \o Body(text, key, nonce)]

-----------------------------------------------------------------------------
(* The payload: STREAM.                                                     *)

Slices(cells) == (Len(cells) + Box - 1) \div Box
SliceSize(cells, c) == IF Len(cells) - c * Box > Box THEN Box ELSE Len(cells) - c * Box
Slice(cells, c) == SubSeq(cells, c * Box + 1, c * Box + SliceSize(cells, c))
IsLast(cells, c) == c * Box + SliceSize(cells, c) = Len(cells)
\* chachapoly_auth_decrypt with the chunk's counter and the last-chunk flag in its nonce.
Authentic_AnyLast(slice, key, nonce, c, last) ==
    \A i \in DOMAIN slice :
      /\ slice[i].key = key /\ slice[i].nonce = nonce /\ slice[i].n = c
      /\ slice[i].at = i /\ slice[i].size = Len(slice)
Authentic(slice, key, nonce, c, last) ==
    \A i \in DOMAIN slice :
      /\ slice[i].key = key /\ slice[i].nonce = nonce /\ slice[i].n = c /\ slice[i].last = last
      /\ slice[i].at = i /\ slice[i].size = Len(slice)
\* Only the first chunk may be empty.
Sized(slice, c) == Len(slice) >= TagSize /\ (Len(slice) = TagSize => c = 0)
\* The bytes of every chunk, without its tag.
PlainText(cells) == [k \in 1..Len(cells) - Slices(cells) * TagSize |->
                    LET n == (k - 1) \div ChunkSize IN cells[n * Box + (k - n * ChunkSize)].byte]

payload(key, in) ==
    IF in = <<>> THEN Refused("header")
    ELSE LET cells == Tail(in) IN
         IF /\ in[1].at = 0 /\ Len(cells) >= TagSize
            /\ \A c \in 0..Slices(cells) - 1 : /\ Sized(Slice(cells, c), c)
                                               /\ Authentic(Slice(cells, c), key, in[1].nonce, c, IsLast(cells, c))
           THEN [err |-> "ok", text |-> PlainText(cells)]
           ELSE Refused("payload")

-----------------------------------------------------------------------------
(* The header.                                                              *)

X25519(stanzas) == {i \in DOMAIN stanzas : stanzas[i].type = "X25519"}
\* try_x25519, stanza after stanza: the first that opens; a misshapen one before it ends the search.
Tried(stanzas) == {i \in X25519(stanzas) : \A h \in X25519(stanzas) : h < i =>
                                              stanzas[h].shaped /\ stanzas[h].to # Me}
Opens(stanzas) == {i \in Tried(stanzas) : stanzas[i].shaped /\ stanzas[i].to = Me}

age_decrypt(file) ==
    LET st == file.stanzas IN
    IF \/ ~file.intro \/ ~file.end \/ st = <<>> \/ Len(st) > MaxStanzas
       \/ \E i \in DOMAIN st : ~st[i].formed
       \/ Len(st) > 1 /\ \E i \in DOMAIN st : st[i].type = "scrypt"
       \/ \E i \in Tried(st) : ~st[i].shaped
      THEN Refused("header")
    ELSE IF Opens(st) = {} THEN Refused("no match")
    ELSE LET key == st[CHOOSE i \in Opens(st) : TRUE].key IN
         IF file.mac # [key |-> key, over |-> st] THEN Refused("mac") ELSE payload(key, file.payload)

-----------------------------------------------------------------------------
\* What cannot be forged: what is under the file key, the MAC or a cell, is what the forwarder made, a
\* stanza that opens for this identity holds that key, and a nonce is no part of a chunk.
Unforged(sealed, key, file) ==
    /\ file.mac.key = key => file.mac = sealed.mac
    /\ \A i \in DOMAIN file.stanzas : file.stanzas[i].to = Me => file.stanzas[i].key = key
    /\ \A i \in DOMAIN file.payload :
         /\ file.payload[i].key = key => file.payload[i] \in Range(sealed.payload)
         /\ file.payload[i].at = 0 => file.payload[i] = Salt(file.payload[i].nonce)
\* What opens is what was sealed, whole: a file that lost its end, a chunk or a stanza, or has one
\* twice, does not open; and a file sealed for this identity does.
\* (age.c:1: "Follows the spec (age-encryption.org/v1) and the reference implementation's strictness".)
OpensOnlyWhole(sealed, text, file) ==
    LET r == age_decrypt(file) IN
    /\ r.err = "ok" => file = sealed /\ r.text = text
    /\ file = sealed /\ (\E i \in DOMAIN sealed.stanzas : sealed.stanzas[i].to = Me) => r.err = "ok"
=============================================================================
