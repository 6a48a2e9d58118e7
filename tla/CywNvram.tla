------------------------------- MODULE CywNvram -------------------------------
(***************************************************************************)
(* cyw_parse_nvram: the text of the NVRAM file is packed into tokens that  *)
(* end with a NUL, without comments, blank lines and carriage returns; a   *)
(* NUL ends the list, NULs pad it to words, and a word with the length     *)
(* follows.  The buffer is allocated from the length of the text alone.    *)
(***************************************************************************)
EXTENDS Integers, Sequences, FiniteSets

CONSTANT Texts   \* the NVRAM files, sequences over Chars

Chars == {"x", "hash", "nl", "cr"}
Nul   == "nul"

ASSUME TextsAssumption == Texts \subseteq Seq(Chars)

VARIABLES
  nvpc,        \* "idle", "scan", "done"
  raw, i,      \* the text and how much of it is read
  in_comment, at_bol,
  buf,         \* the bytes packed so far; buflen is its length
  token        \* nwords of the length token, 0 before it is written

nvVars == <<nvpc, raw, i, in_comment, at_bol, buf, token>>

RoundUp4(n) == ((n + 3) \div 4) * 4

\* Slip: there is no room for the NUL that ends the list.
AllocatedShort == RoundUp4(Len(raw) + 1) + 4

\* malloc(roundup(rawlen + 2, 4) + 4)
Allocated == RoundUp4(Len(raw) + 2) + 4

\* A NUL unless the buffer is empty or ends with one.
Terminate(b) ==
  IF b # << >> /\ b[Len(b)] # Nul THEN Append(b, Nul) ELSE b

NvInit ==
  /\ nvpc = "idle"
  /\ raw = << >>
  /\ i = 0
  /\ in_comment = FALSE
  /\ at_bol = TRUE
  /\ buf = << >>
  /\ token = 0

\* The call, with one of the files.
NvCall ==
  /\ nvpc = "idle"
  /\ nvpc' = "scan"
  /\ raw' \in Texts
  /\ i' = 0
  /\ in_comment' = FALSE
  /\ at_bol' = TRUE
  /\ buf' = << >>
  /\ token' = 0

\* Slip: a # begins a comment anywhere in a line.
NvCharHashAnywhere ==
  /\ nvpc = "scan"
  /\ i < Len(raw)
  /\ i' = i + 1
  /\ LET c == raw[i + 1] IN
       \/ /\ c = "cr"
          /\ UNCHANGED <<in_comment, at_bol, buf>>
       \/ /\ c = "nl"
          /\ buf' = IF in_comment \/ at_bol THEN buf ELSE Terminate(buf)
          /\ in_comment' = FALSE
          /\ at_bol' = TRUE
       \/ /\ c = "hash"
          /\ in_comment' = TRUE
          /\ at_bol' = FALSE
          /\ UNCHANGED buf
       \/ /\ c = "x"
          /\ at_bol' = FALSE
          /\ buf' = IF in_comment THEN buf ELSE Append(buf, c)
          /\ UNCHANGED in_comment
  /\ UNCHANGED <<nvpc, raw, token>>

\* One character of the loop.
NvChar ==
  /\ nvpc = "scan"
  /\ i < Len(raw)
  /\ i' = i + 1
  /\ LET c == raw[i + 1] IN
       \/ /\ c = "cr"
          /\ UNCHANGED <<in_comment, at_bol, buf>>
       \/ /\ c = "nl"
          /\ buf' = IF in_comment \/ at_bol THEN buf ELSE Terminate(buf)
          /\ in_comment' = FALSE
          /\ at_bol' = TRUE
       \/ /\ c = "hash" /\ at_bol
          /\ in_comment' = TRUE
          /\ at_bol' = FALSE
          /\ UNCHANGED buf
       \/ /\ c = "x" \/ (c = "hash" /\ ~at_bol)
          /\ at_bol' = FALSE
          /\ buf' = IF in_comment THEN buf ELSE Append(buf, c)
          /\ UNCHANGED in_comment
  /\ UNCHANGED <<nvpc, raw, token>>

\* The list with its terminator, padded to words.
Pad(b) ==
  LET t == Terminate(b)
  IN  t \o [k \in 1 .. (RoundUp4(Len(t) + 1) - Len(t)) |-> Nul]

\* The end of the text, the padding and the token.
NvEnd ==
  /\ nvpc = "scan"
  /\ i = Len(raw)
  /\ nvpc' = "done"
  /\ buf' = Pad(buf)
  /\ token' = Len(Pad(buf)) \div 4
  /\ UNCHANGED <<raw, i, in_comment, at_bol>>

\* The caller has written the packed text to the chip and frees it.
NvFree ==
  /\ nvpc' = "idle"
  /\ raw' = << >>
  /\ i' = 0
  /\ in_comment' = FALSE
  /\ at_bol' = TRUE
  /\ buf' = << >>
  /\ token' = 0

NvNext == NvCall \/ NvChar \/ NvEnd \/ NvFree

NvSpec == NvInit /\ [][NvNext]_nvVars

-----------------------------------------------------------------------------

NvTypeOK ==
  /\ nvpc \in {"idle", "scan", "done"}
  /\ raw \in Seq(Chars)
  /\ i \in 0 .. Len(raw)
  /\ in_comment \in BOOLEAN
  /\ at_bol \in BOOLEAN
  /\ buf \in Seq(Chars \union {Nul})
  /\ token \in Nat

\* The buffer is long enough for every text: for the tokens at any time, and in
\* the end for the terminator, the padding and the four bytes of the token,
\* whose length is the one the firmware finds before it.
NvramFits ==
  /\ Len(buf) <= Allocated
  /\ nvpc = "done" => Len(buf) + 4 <= Allocated /\ Len(buf) = 4 * token

-----------------------------------------------------------------------------
(* What the packed list should be, said of the text t as a whole.          *)

\* The places q <= p of the text are in one line; a newline ends its line.
SameLine(t, q, p) == \A r \in q .. (p - 1) : t[r] # "nl"

\* A # with nothing before it in its line but carriage returns.
StartsComment(t, q) ==
  /\ t[q] = "hash"
  /\ \A r \in 1 .. (q - 1) : SameLine(t, r, q) => t[r] = "cr"

\* The characters of the lines that are no comments, ...
Kept(t, p) ==
  /\ t[p] \notin {"cr", "nl"}
  /\ ~ \E q \in 1 .. p : SameLine(t, q, p) /\ StartsComment(t, q)

\* ... and the newlines behind some of them.
HasKept(t, p) == \E q \in 1 .. (p - 1) : SameLine(t, q, p) /\ Kept(t, q)
EndsToken(t, p) == t[p] = "nl" /\ HasKept(t, p)

\* Of the first n characters the ones that leave a byte, and how many they are.
Packed(t, n) == {p \in 1 .. n : Kept(t, p) \/ EndsToken(t, p)}
Place(t, n)  == Cardinality(Packed(t, n))

ByteOf(t, p) == IF t[p] = "nl" THEN Nul ELSE t[p]

\* What cyw_parse_nvram packs, character by character, is what the lines of the
\* file say: of each line that is no comment the characters, and a NUL if there
\* are any, then one NUL at least and NULs up to a word.
NvramIsTheFile ==
  nvpc = "done" =>
    LET n == Len(raw)
        tokens == Place(raw, n) + (IF HasKept(raw, n + 1) THEN 1 ELSE 0)
    IN  /\ \A p \in Packed(raw, n) : buf[Place(raw, p)] = ByteOf(raw, p)
        /\ Len(buf) \in (tokens + 1) .. (tokens + 4)
        /\ \A k \in (Place(raw, n) + 1) .. Len(buf) : buf[k] = Nul
=============================================================================
