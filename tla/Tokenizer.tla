----------------------------- MODULE Tokenizer -----------------------------
(***************************************************************************)
(* The canonical text of a message (worker/prep.c) and its token ids       *)
(* (tok/tok.c): Ollama's WordPiece, streamed, with greedy longest match.   *)
(*                                                                         *)
(* A text is a sequence of items: a code point, a NUL, a byte that is not  *)
(* UTF-8, or the literal text of a special token (which counts as one      *)
(* character here, and is never cut in two).  Left out: UTF-8 and the      *)
(* Unicode tables themselves (Class, Nfd, Lower stand for them), and the   *)
(* hash table, of which only "a later duplicate wins" is kept.             *)
(***************************************************************************)
EXTENDS Integers, Sequences, SequencesExt

CONSTANTS Hf,               \* the vocab as in mxbai.bin, id after id: [form, str]
          Class, Nfd, Lower, \* tok_tables.h: functions of code points
          Specials,         \* the literal texts of the special tokens
          TooHigh,          \* code points above U+10FFFF
          Cls, Sep, Unk,    \* TOK_CLS, TOK_SEP, TOK_UNK
          MaxChars          \* PREP_MAX_CHARS

Start == "start of a word"  \* "\xe2\x96\x81"
Replacement == "U+FFFD"
NoId == 0

-----------------------------------------------------------------------------
(* The canonical text.                                                      *)

\* prep_json_nuls: a NUL becomes the two characters Cal writes for it.
NulText == <<"\\", "0">>
Nuls(text) == FlattenSeq([i \in DOMAIN text |-> IF text[i] = "NUL" THEN NulText ELSE <<text[i]>>])
prep_truncate_Late(text) == SubSeq(text, 1, IF Len(text) > MaxChars THEN MaxChars + 1 ELSE Len(text))
prep_truncate(text) == SubSeq(text, 1, IF Len(text) > MaxChars THEN MaxChars ELSE Len(text))

-----------------------------------------------------------------------------
(* The vocab.                                                               *)

\* tok_init: back from HF's form: a bare word gets the start mark, a "##piece" loses its hashes.
Gguf == [id \in DOMAIN Hf |-> IF Hf[id].form = "word" THEN <<Start>> \o Hf[id].str ELSE Hf[id].str]
max_len == Max({Len(Gguf[id]) : id \in DOMAIN Gguf})
tok_lookup(s) == LET ids == {id \in DOMAIN Gguf : Gguf[id] = s}
                 IN IF ids = {} THEN NoId ELSE Max(ids)

-----------------------------------------------------------------------------
(* Words to ids.                                                            *)

\* The longest match of w from i: where it ends, i - 1 if there is none.
Matched(w, i) ==
    Max({i - 1} \cup {j \in i..Len(w) : j <= i + max_len /\ tok_lookup(SubSeq(w, i, j)) # NoId})
\* The ids of w from each place on; NoId among them if some place has no match.
Greedy(w) ==
    LET from[i \in 1..Len(w) + 1] ==
            IF i > Len(w) THEN <<>>
            ELSE IF Matched(w, i) < i THEN <<NoId>>
            ELSE <<tok_lookup(SubSeq(w, i, Matched(w, i)))>> \o from[Matched(w, i) + 1]
    IN from[1]
\* A word with no match at some place is one [UNK].
flush_word_Kept(w) == IF w = <<Start>> THEN <<>> ELSE SelectSeq(Greedy(w), LAMBDA id : id # NoId)
flush_word(w) == IF w = <<Start>> THEN <<>>
                 ELSE IF NoId \in Range(Greedy(w)) THEN <<Unk>> ELSE Greedy(w)

\* utf8_next and cpt_nfd: a bad byte costs one byte.
CodePoint(item) == Nfd[IF item = "bad byte" THEN Replacement ELSE item]

\* enc: the ids so far, the word being read, and whether the text cannot be tokenised.
Flushed(e) == [e EXCEPT !.ids = @ \o flush_word(e.word), !.word = <<Start>>]
\* fragment and the scan for special tokens, an item at a time.
Reads(e, item) ==
    IF e.failed THEN e
    ELSE IF item \in Specials
      THEN [Flushed(e) EXCEPT !.ids = @ \o <<tok_lookup(<<item>>)>>]
    ELSE LET cp == CodePoint(item) IN
         CASE Class[cp] = "ws" -> Flushed(e)
           [] Class[cp] = "drop" -> e
           [] Class[cp] = "keep" /\ cp \in TooHigh -> [e EXCEPT !.failed = TRUE]
           [] Class[cp] = "split" -> Flushed([Flushed(e) EXCEPT !.word = @ \o <<Lower[cp]>>])
           [] OTHER -> [e EXCEPT !.word = @ \o <<Lower[cp]>>]

\* tok_encode: [CLS], as many ids as fit, [SEP].
tok_encode(text, max_ids) ==
    LET read == FoldLeft(Reads, [ids |-> <<>>, word |-> <<Start>>, failed |-> FALSE], text)
        all == Flushed(read).ids
    IN IF read.failed \/ max_ids < 2 THEN [ids |-> <<>>, total |-> 0]
       ELSE [ids |-> <<Cls>> \o SubSeq(all, 1, Min({Len(all), max_ids - 2})) \o <<Sep>>, total |-> Len(all) + 2]

\* open_job: what a message's content is embedded as.
Tokens(content, max_ids) == tok_encode(prep_truncate(Nuls(content)), max_ids)

-----------------------------------------------------------------------------
(* What it should be, without reading left to right.                        *)

\* The characters that count, and the maximal runs of them that are words.
Plain(text) == FlattenSeq([i \in DOMAIN text |->
    IF text[i] \in Specials THEN <<text[i]>>
    ELSE IF Class[CodePoint(text[i])] = "drop" THEN <<>> ELSE <<CodePoint(text[i])>>])
IsKeep(c) == c \notin Specials /\ Class[c] = "keep"
Begins(s, i) == /\ s[i] \in Specials \/ Class[s[i]] # "ws"
                /\ i = 1 \/ ~IsKeep(s[i]) \/ ~IsKeep(s[i - 1])
WordAt(s, i) == LET end == IF ~IsKeep(s[i]) THEN i
                           ELSE Max({j \in i..Len(s) : \A k \in i..j : IsKeep(s[k])})
                IN SubSeq(s, i, end)

\* The token id is the longest that begins v, and of its duplicates the last.
Longest(v, id) ==
    /\ id = tok_lookup(Gguf[id]) /\ IsPrefix(Gguf[id], v)
    /\ \A other \in DOMAIN Gguf : IsPrefix(Gguf[other], v) => Len(Gguf[other]) <= Len(Gguf[id])
\* ids spell w, each the longest there is from where those before it end.
Spelt(ids) == FlattenSeq([k \in DOMAIN ids |-> Gguf[ids[k]]])
Spells(w, ids) ==
    /\ Spelt(ids) = w
    /\ \A k \in DOMAIN ids : Longest(SubSeq(w, Len(Spelt(SubSeq(ids, 1, k - 1))) + 1, Len(w)), ids[k])
Inside(w) == {id \in DOMAIN Gguf : \E i, j \in 1..Len(w) : Gguf[id] = SubSeq(w, i, j)}
\* The ids of a word, or of a special token's text.
WordIds(c) ==
    LET w == <<Start>> \o [i \in DOMAIN c |-> Lower[c[i]]]
        spellings == {ids \in BoundedSeq(Inside(w), Len(w)) : Spells(w, ids)}
    IN IF Head(c) \in Specials THEN <<tok_lookup(c)>>
       ELSE IF spellings = {} THEN <<Unk>> ELSE CHOOSE ids \in spellings : TRUE
\* The ids of a text, word after word.
TextIds(s) == FlattenSeq([i \in DOMAIN s |-> IF Begins(s, i) THEN WordIds(WordAt(s, i)) ELSE <<>>])

\* The ids of a text are cut only after the first max_ids - 2, and spell its words in order, each in
\* the longest tokens of the vocab, or as one [UNK] when those do not spell it.
\* (tok.h:1: "gives the same ids as Ollama"; ibid. "greedy longest match over UTF-8 bytes".)
SpellsTokens(content, max_ids) ==
    LET text == prep_truncate(Nuls(content))
        full == <<Cls>> \o TextIds(Plain(text)) \o <<Sep>>
        r == Tokens(content, max_ids)
    IN (\A i \in DOMAIN text : text[i] \in Specials \/ CodePoint(text[i]) \notin TooHigh) =>
         /\ Len(text) <= MaxChars /\ r.total = Len(full)
         /\ r.ids = IF Len(full) <= max_ids THEN full ELSE SubSeq(full, 1, max_ids - 1) \o <<Sep>>
=============================================================================
