--------------------------- MODULE Framing_proofs ---------------------------
(***************************************************************************)
(* Proofs about Framing: whatever the sizes of the records, of TCP's       *)
(* segments and of the callers' buffers, each layer gives its reader the   *)
(* bytes that were written, in order, and an end only where it belongs.    *)
(*                                                                         *)
(* What is between the writer and the reader is a sequence of cells that a *)
(* parser could read one by one.  The invariant says that there is such a  *)
(* run of the parser, from the state that the reader is in to the one that *)
(* the writer is in.  A writer's step appends a run, a reader's step takes *)
(* a first part of it away, and a broken connection its last part.         *)
(***************************************************************************)
EXTENDS Framing, SequenceTheorems, WellFoundedInduction, TLAPS

CellTypes ==
  {"salt", "iv", "size", "data", "tag", "hello", "overwritten",
   "handshake", "type", "len", "request", "header", "crlf"}
Cells == [t : CellTypes, k : Nat, n : Nat]

ModeTypes ==
  /\ layer \in {"aead", "stream", "tls", "http"}
  /\ writer \in {"write", "readFrom"}
  /\ reader \in {"read", "writeTo", "server"}
  /\ Obfs => writer = "write" /\ reader # "writeTo"
  /\ reader = "server" => Obfs
WriterTypes ==
  /\ written \in Nat /\ todo \in Nat /\ todo <= written
  /\ wkey \in Nat /\ wfirst \in BOOLEAN
PipeTypes ==
  /\ wire \in Seq(Cells) /\ arrived \in Seq(Cells)
  /\ fin \in BOOLEAN /\ broken \in BOOLEAN
ReaderTypes ==
  /\ rkey \in Nat /\ rfirst \in BOOLEAN /\ need \in Nat
  /\ rbuf \in Seq(Nat) /\ got \in Seq(Nat)
  /\ end \in {"open", "garbled", "zero chunk", "eof", "unexpected eof", "overwritten"}
FramingTypes == ModeTypes /\ WriterTypes /\ PipeTypes /\ ReaderTypes

-----------------------------------------------------------------------------
(* The parser: its phase, the key of the next cell that is sealed, the     *)
(* bytes left of the record or frame, and the bytes that came before.      *)

Phases == {"open", "head", "len", "data", "lost"}
States == [phase : Phases, key : Nat, left : Nat, byte : Nat]
State(phase, key, left, byte) == [phase |-> phase, key |-> key, left |-> left, byte |-> byte]

(* Payload: the i-th byte from state s on, and the state after it.  The    *)
(* record or frame must have i bytes left if the layer counts them.        *)
Counted == layer \in {"aead", "tls"}
DataCell(s, i) ==
  Cell("data", IF layer = "stream" THEN s.key + i ELSE IF layer = "aead" THEN s.key ELSE 0, s.byte + i)
DataState(s, i) ==
  State("data", IF layer = "stream" THEN s.key + i ELSE s.key, IF i <= s.left THEN s.left - i ELSE 0, s.byte + i)

DataLeads(s, c, t) ==
  /\ s.phase = "data" /\ (Counted => s.left > 0)
  /\ c = DataCell(s, 1) /\ t = DataState(s, 1)

AeadLeads(s, c, t) ==
  \/ s.phase = "open" /\ c.t = "salt" /\ t = State("head", s.key, 0, s.byte)
  \/ /\ s.phase = "head" /\ c.t = "size" /\ c.k = s.key
     /\ t = State(IF c.n = 0 THEN "lost" ELSE "data", s.key + 1, c.n, s.byte)
  \/ s.phase = "data" /\ s.left = 0 /\ c.t = "tag" /\ c.k = s.key /\ t = State("head", s.key + 1, 0, s.byte)

StreamLeads(s, c, t) == s.phase = "open" /\ c.t = "iv" /\ t = State("data", s.key, 0, s.byte)

TLSLeads(s, c, t) ==
  \/ s.phase = "open" /\ reader = "read" /\ c.t = "handshake" /\ t = State("len", s.key, 0, s.byte)
  \/ s.phase = "data" /\ s.left = 0 /\ c.t = "type" /\ c.n = 0 /\ t = State("len", s.key, 0, s.byte)
  \/ s.phase = "len" /\ s.left = 0 /\ c.t = "len" /\ c.n > 0 /\ t = State("data", s.key, c.n, s.byte)
  \/ s.phase = "open" /\ reader = "server" /\ c.t = "hello" /\ c.n > 0 /\ t = State("data", s.key, c.n, s.byte)
  \/ s.phase = "open" /\ reader = "server" /\ c.t = "overwritten" /\ t = State("lost", s.key, 0, s.byte)

HTTPLeads(s, c, t) ==
  \/ s.phase = "open" /\ reader = "read" /\ c.t = "header" /\ t = State("len", s.key, 0, s.byte)
  \/ s.phase = "len" /\ reader = "read" /\ c.t = "crlf" /\ t = State("data", s.key, 0, s.byte)
  \/ s.phase = "open" /\ reader = "server" /\ c.t = "request" /\ t = State("data", s.key, c.n, s.byte)

Leads(s, c, t) ==
  \/ DataLeads(s, c, t)
  \/ s.phase = "lost" /\ t = s
  \/ layer = "aead" /\ AeadLeads(s, c, t)
  \/ layer = "stream" /\ StreamLeads(s, c, t)
  \/ layer = "tls" /\ TLSLeads(s, c, t)
  \/ layer = "http" /\ HTTPLeads(s, c, t)

(* A run through states of L that reads cells.                             *)
Runs(f, cells) == \A i \in 1..Len(cells) : Leads(f[i], cells[i], f[i + 1])
Parse(L, cells, s, t) ==
  \E f \in [1..Len(cells) + 1 -> L] : f[1] = s /\ f[Len(cells) + 1] = t /\ Runs(f, cells)

(* States of runs over what was sent: no byte is missing before the first  *)
(* one, a run is lost where a record was empty, which with ReadFrom is the *)
(* last of all.                                                            *)
Legal ==
  {s \in States :
     /\ s.byte <= Sealed
     /\ s.phase = "open" => s.left = 0 /\ s.byte = 0
     /\ s.phase = "lost" /\ layer = "aead" =>
          s.byte \in zeroAt /\ (writer = "readFrom" => fin /\ s.byte = Sealed)}

(* Where the reader is, and where the writer is between two steps.         *)
AtReader(s) ==
  /\ s.left = need /\ s.byte = Len(got) + Len(rbuf) /\ s.phase # "lost"
  /\ layer \in {"aead", "stream"} => s.key = rkey
  /\ layer = "aead" => s.phase = IF rfirst THEN "open" ELSE IF need = 0 THEN "head" ELSE "data"
  /\ layer = "tls" /\ reader = "read" => s.phase \in {"open", "data"}
  /\ layer = "stream" \/ (layer = "http" /\ reader = "read") =>
       s.phase = (IF rfirst THEN "open" ELSE "data") /\ s.left = 0

Rests == IF wfirst THEN {"open"} ELSE IF layer = "aead" THEN {"head"} ELSE {"data"}
AtWriter(s) ==
  \/ s.phase = "lost" /\ layer \in {"tls", "aead"}
  \/ /\ s.left = 0 /\ s.byte = Sealed
     /\ layer \in {"aead", "stream"} => s.key = wkey
     /\ s.phase \in Rests

Pipe == arrived \o wire
PipeInv ==
  \E s, t \in Legal : Parse(Legal, Pipe, s, t) /\ AtReader(s) /\ (~broken => AtWriter(t))

WriterInv ==
  /\ fin \/ writer = "readFrom" => todo = 0
  /\ broken => fin

ReaderInv ==
  /\ got = Bytes(0, Len(got)) /\ rbuf = Bytes(Len(got), Len(rbuf))
  /\ Len(got) + Len(rbuf) <= Sealed
  /\ rbuf # <<>> => need = 0 /\ (layer = "aead" \/ (layer = "http" /\ reader = "read"))

EndInv ==
  /\ end # "garbled"
  /\ end = "overwritten" => layer = "tls" /\ reader = "server" /\ got = <<>>
  /\ end = "zero chunk" => Len(got) \in zeroAt /\ (writer = "readFrom" => fin /\ Len(got) = written)
  /\ end = "unexpected eof" => broken
  /\ end = "eof" => broken \/ HeaderSplit \/ (fin /\ Len(got) = written)

FramingInv ==
  /\ FramingTypes /\ WriterInv /\ ReaderInv /\ EndInv
  /\ end = "open" => PipeInv

-----------------------------------------------------------------------------
(* Induction over the natural numbers, for a set.                          *)
LEMMA NatSetInduction ==
  ASSUME NEW T, 0 \in T, \A n \in Nat : n \in T => n + 1 \in T
  PROVE  Nat \subseteq T
<1> SUFFICES ASSUME ~(Nat \subseteq T) PROVE FALSE
  OBVIOUS
<1> DEFINE U == Nat \ T
           R == {ss \in Nat \X Nat : ss[1] < ss[2]}
<1>1. U \subseteq Nat /\ U # {}
  OBVIOUS
<1>2. PICK x \in U : \A y \in U : ~(<<y, x>> \in R)
  <2>1. OpToRel(<, Nat) = R
    BY Zenon DEF OpToRel
  <2> HIDE DEF U, R
  <2>2. IsWellFoundedOn(R, Nat)
    BY <2>1, NatLessThanWellFounded, Zenon
  <2>3. QED BY <1>1, <2>2, WFMin
<1>3. x \in Nat /\ x \notin T /\ x # 0
  BY DEF U
<1>4. x - 1 \in Nat /\ x - 1 < x /\ x = (x - 1) + 1
  BY <1>3
<1>5. x - 1 \in U
  BY <1>3, <1>4
<1>6. <<x - 1, x>> \in R
  BY <1>3, <1>4
<1>7. QED BY <1>2, <1>5, <1>6

-----------------------------------------------------------------------------
(* Runs of the parser.                                                     *)

LEMMA ParseEnds ==
  ASSUME NEW L, NEW cells \in Seq(Cells), NEW s, NEW t, Parse(L, cells, s, t)
  PROVE  s \in L /\ t \in L /\ (cells = <<>> => t = s)
BY DEF Parse

LEMMA ParseNothing ==
  ASSUME NEW L, NEW s \in L PROVE Parse(L, <<>>, s, s)
<1> DEFINE f == [i \in 1..1 |-> s]
<1>1. f \in [1..Len(<<>>) + 1 -> L] /\ f[1] = s /\ f[Len(<<>>) + 1] = s /\ Runs(f, <<>>)
  BY DEF Runs
<1>2. QED BY <1>1 DEF Parse

LEMMA ParseOne ==
  ASSUME NEW L, NEW c, NEW s \in L, NEW t \in L, Leads(s, c, t)
  PROVE  Parse(L, <<c>>, s, t)
<1> DEFINE f == [i \in 1..2 |-> IF i = 1 THEN s ELSE t]
<1>1. f \in [1..Len(<<c>>) + 1 -> L] /\ f[1] = s /\ f[Len(<<c>>) + 1] = t
  OBVIOUS
<1>2. Runs(f, <<c>>)
  BY DEF Runs
<1>3. QED BY <1>1, <1>2 DEF Parse

LEMMA ParseTwo ==
  ASSUME NEW L, NEW c, NEW d, NEW s \in L, NEW t \in L, NEW u \in L, Leads(s, c, t), Leads(t, d, u)
  PROVE  Parse(L, <<c, d>>, s, u)
<1> DEFINE f == [i \in 1..3 |-> IF i = 1 THEN s ELSE IF i = 2 THEN t ELSE u]
<1>1. f \in [1..Len(<<c, d>>) + 1 -> L] /\ f[1] = s /\ f[Len(<<c, d>>) + 1] = u
  OBVIOUS
<1>2. Runs(f, <<c, d>>)
  BY DEF Runs
<1>3. QED BY <1>1, <1>2 DEF Parse

(* A run over one cell.                                                    *)
LEMMA ParsedOne ==
  ASSUME NEW L, NEW cells \in Seq(Cells), NEW s, NEW t, Parse(L, cells, s, t), Len(cells) = 1
  PROVE  Leads(s, cells[1], t)
BY DEF Parse, Runs

LEMMA ParsedTwo ==
  ASSUME NEW L, NEW cells \in Seq(Cells), NEW s, NEW t, Parse(L, cells, s, t), Len(cells) = 2
  PROVE  \E u \in L : Leads(s, cells[1], u) /\ Leads(u, cells[2], t)
BY DEF Parse, Runs

LEMMA ParseConcat ==
  ASSUME NEW L, NEW a \in Seq(Cells), NEW b \in Seq(Cells), NEW s, NEW t, NEW u,
         Parse(L, a, s, t), Parse(L, b, t, u)
  PROVE  Parse(L, a \o b, s, u)
<1> DEFINE m == Len(a)
           n == Len(b)
<1>1. PICK f \in [1..m + 1 -> L] : f[1] = s /\ f[m + 1] = t /\ Runs(f, a)
  BY DEF Parse
<1>2. PICK g \in [1..n + 1 -> L] : g[1] = t /\ g[n + 1] = u /\ Runs(g, b)
  BY DEF Parse
<1>3. m \in Nat /\ n \in Nat /\ Len(a \o b) = m + n
  OBVIOUS
<1>4. \A i \in 1..m + n : (a \o b)[i] = IF i <= m THEN a[i] ELSE b[i - m]
  OBVIOUS
<1> DEFINE h == [i \in 1..(m + n) + 1 |-> IF i <= m THEN f[i] ELSE g[i - m]]
<1> HIDE DEF m, n
<1>5. h \in [1..(m + n) + 1 -> L]
  BY <1>1, <1>2, <1>3
<1>6. h[1] = s
  BY <1>1, <1>2, <1>3
<1>7. h[(m + n) + 1] = u
  BY <1>2, <1>3
<1>8. ASSUME NEW i \in 1..m + n PROVE Leads(h[i], (a \o b)[i], h[i + 1])
  <2>1. CASE i <= m
    <3>1. i \in 1..m /\ h[i] = f[i] /\ (a \o b)[i] = a[i]
      BY <1>3, <1>4, <2>1
    <3>2. h[i + 1] = f[i + 1]
      BY <1>1, <1>2, <1>3, <2>1
    <3>3. QED BY <1>1, <3>1, <3>2 DEF Runs, m
  <2>2. CASE i > m
    <3>1. i - m \in 1..n /\ ~(i <= m)
      BY <1>3, <2>2
    <3>2. h[i] = g[i - m] /\ (a \o b)[i] = b[i - m]
      BY <1>3, <1>4, <3>1
    <3>3. h[i + 1] = g[(i - m) + 1]
      BY <1>3, <2>2
    <3>4. QED BY <1>2, <3>1, <3>2, <3>3 DEF Runs, n
  <2>3. QED BY <1>3, <2>1, <2>2
<1>9. Runs(h, a \o b)
  BY <1>3, <1>8 DEF Runs
<1>10. QED BY <1>3, <1>5, <1>6, <1>7, <1>9 DEF Parse

LEMMA ParseSplit ==
  ASSUME NEW L, NEW cells \in Seq(Cells), NEW s, NEW u, Parse(L, cells, s, u), NEW k \in 0..Len(cells)
  PROVE  \E t \in L : /\ Parse(L, SubSeq(cells, 1, k), s, t)
                      /\ Parse(L, SubSeq(cells, k + 1, Len(cells)), t, u)
<1> DEFINE n == Len(cells)
<1>1. PICK f \in [1..n + 1 -> L] : f[1] = s /\ f[n + 1] = u /\ Runs(f, cells)
  BY DEF Parse
<1> DEFINE a == SubSeq(cells, 1, k)
           b == SubSeq(cells, k + 1, n)
           g == [i \in 1..k + 1 |-> f[i]]
           h == [i \in 1..(n - k) + 1 |-> f[i + k]]
<1>2. /\ n \in Nat /\ Len(a) = k /\ Len(b) = n - k
      /\ \A i \in 1..k : a[i] = cells[i]
      /\ \A i \in 1..n - k : b[i] = cells[i + k]
  OBVIOUS
<1> HIDE DEF n, a, b
<1>3. /\ g \in [1..k + 1 -> L] /\ h \in [1..(n - k) + 1 -> L] /\ f[k + 1] \in L
      /\ g[1] = s /\ g[k + 1] = f[k + 1] /\ h[1] = f[k + 1] /\ h[(n - k) + 1] = u
  <2>1. k \in 0..n
    BY DEF n
  <2>2. QED BY <1>1, <1>2, <2>1
<1>4. Runs(g, a)
  <2> SUFFICES ASSUME NEW i \in 1..k PROVE Leads(g[i], a[i], g[i + 1])
    BY <1>2 DEF Runs
  <2>1. i \in 1..n /\ g[i] = f[i] /\ g[i + 1] = f[i + 1]
    BY <1>2 DEF n
  <2>2. QED BY <1>1, <1>2, <2>1 DEF Runs, n
<1>5. Runs(h, b)
  <2> SUFFICES ASSUME NEW i \in 1..n - k PROVE Leads(h[i], b[i], h[i + 1])
    BY <1>2 DEF Runs
  <2>1. i + k \in 1..n /\ h[i] = f[i + k] /\ h[i + 1] = f[(i + k) + 1]
    BY <1>2 DEF n
  <2>2. QED BY <1>1, <1>2, <2>1 DEF Runs, n
<1>6. Parse(L, a, s, f[k + 1]) /\ Parse(L, b, f[k + 1], u)
  BY <1>2, <1>3, <1>4, <1>5 DEF Parse
<1>7. QED BY <1>3, <1>6 DEF a, b, n

LEMMA ParseWider ==
  ASSUME NEW L, NEW M, L \subseteq M, NEW cells, NEW s, NEW t, Parse(L, cells, s, t)
  PROVE  Parse(M, cells, s, t)
BY DEF Parse

-----------------------------------------------------------------------------
(* Runs over payload.                                                      *)

LEMMA DataStates ==
  ASSUME NEW s \in States, s.phase = "data", NEW i \in Nat, Counted => i <= s.left
  PROVE  /\ DataState(s, i) \in States /\ DataCell(s, i + 1) \in Cells
         /\ DataState(s, i).phase = "data" /\ DataState(s, i).byte = s.byte + i
         /\ Counted => DataState(s, i).left = s.left - i
         /\ DataCell(s, i + 1) = DataCell(DataState(s, i), 1)
         /\ DataState(s, i + 1) = DataState(DataState(s, i), 1)
         /\ DataCell(s, i + 1).n = s.byte + (i + 1)
<1>1. s.key \in Nat /\ s.left \in Nat /\ s.byte \in Nat
  BY DEF States
<1>2. DataState(s, i) \in States /\ DataState(s, i).phase = "data" /\ DataState(s, i).byte = s.byte + i
  BY <1>1 DEF States, Phases, State, DataState
<1>3. DataCell(s, i + 1) \in Cells /\ DataCell(s, i + 1).n = s.byte + (i + 1)
  BY <1>1 DEF Cells, CellTypes, Cell, DataCell
<1>4. Counted => DataState(s, i).left = s.left - i
  BY <1>1 DEF State, DataState
<1>5. DataCell(s, i + 1) = DataCell(DataState(s, i), 1)
  BY <1>1 DEF State, DataState, Cell, DataCell
<1>6. DataState(s, i + 1) = DataState(DataState(s, i), 1)
  BY <1>1 DEF State, DataState
<1>7. QED BY <1>2, <1>3, <1>4, <1>5, <1>6

LEMMA DataStateZero ==
  ASSUME NEW s \in States, s.phase = "data" PROVE DataState(s, 0) = s
BY DEF States, State, DataState

(* The only way on from payload that is not complete.                      *)
LEMMA DataGoesOn ==
  ASSUME NEW s \in States, NEW c, NEW t, s.phase = "data", Counted => s.left > 0, Leads(s, c, t),
         layer \in {"aead", "stream", "tls", "http"}
  PROVE  c = DataCell(s, 1) /\ t = DataState(s, 1)
<1> SUFFICES ASSUME ~DataLeads(s, c, t) PROVE FALSE
  BY DEF DataLeads
<1>1. CASE layer = "aead" BY <1>1 DEF Leads, AeadLeads, Counted, States
<1>2. CASE layer = "stream" BY <1>2 DEF Leads, StreamLeads
<1>3. CASE layer = "tls" BY <1>3 DEF Leads, TLSLeads, Counted, States
<1>4. CASE layer = "http" BY <1>4 DEF Leads, HTTPLeads
<1>5. QED BY <1>1, <1>2, <1>3, <1>4

(* What a writer that sends n bytes of payload adds.                       *)
LEMMA ParseData ==
  ASSUME NEW L, NEW s \in States, s.phase = "data",
         NEW n \in Nat, Counted => n <= s.left,
         \A i \in 0..n : DataState(s, i) \in L
  PROVE  Parse(L, [i \in 1..n |-> DataCell(s, i)], s, DataState(s, n))
<1> DEFINE cells == [i \in 1..n |-> DataCell(s, i)]
           f == [i \in 1..n + 1 |-> DataState(s, i - 1)]
<1>1. Len(cells) = n
  OBVIOUS
<1>2. f \in [1..n + 1 -> L] /\ f[1] = s /\ f[n + 1] = DataState(s, n)
  <2>1. \A i \in 1..n + 1 : i - 1 \in 0..n
    OBVIOUS
  <2>2. f[1] = DataState(s, 1 - 1) /\ 1 - 1 = 0 /\ (n + 1) - 1 = n
    OBVIOUS
  <2>3. QED BY <2>1, <2>2, DataStateZero
<1>3. ASSUME NEW i \in 1..n PROVE Leads(f[i], cells[i], f[i + 1])
  <2> DEFINE j == i - 1
  <2>1. j \in Nat /\ j + 1 = i /\ j < n
    OBVIOUS
  <2>2. f[i] = DataState(s, j) /\ cells[i] = DataCell(s, j + 1) /\ f[i + 1] = DataState(s, j + 1)
    <3>1. (i + 1) - 1 = i
      OBVIOUS
    <3>2. QED BY <2>1, <3>1
  <2> HIDE DEF j, f, cells
  <2>3. Counted => j <= s.left /\ DataState(s, j).left > 0
    BY <2>1, DataStates DEF States
  <2>4. DataLeads(DataState(s, j), DataCell(s, j + 1), DataState(s, j + 1))
    BY <2>1, <2>3, DataStates DEF DataLeads
  <2>5. QED BY <2>2, <2>4 DEF Leads
<1> HIDE DEF f, cells
<1>4. Runs(f, cells)
  BY <1>1, <1>3 DEF Runs
<1>5. Parse(L, cells, s, DataState(s, n))
  BY <1>1, <1>2, <1>4 DEF Parse
<1>6. QED BY <1>5 DEF cells

(* What a reader finds that takes no more than the payload that is left.   *)
LEMMA ParsedData ==
  ASSUME ModeTypes, NEW L, L \subseteq States, NEW cells \in Seq(Cells), NEW s, NEW t,
         Parse(L, cells, s, t), s.phase = "data", Counted => Len(cells) <= s.left
  PROVE  /\ t = DataState(s, Len(cells))
         /\ \A i \in 1..Len(cells) : cells[i] = DataCell(s, i)
<1> DEFINE n == Len(cells)
<1>1. PICK f \in [1..n + 1 -> L] : f[1] = s /\ f[n + 1] = t /\ Runs(f, cells)
  BY DEF Parse
<1>2. n \in Nat /\ s \in States
  BY <1>1
<1> DEFINE T == {i \in Nat : i <= n => /\ f[i + 1] = DataState(s, i)
                                       /\ i > 0 => cells[i] = DataCell(s, i)}
<1> HIDE DEF n
<1>3. 0 \in T
  BY <1>1, <1>2, DataStateZero
<1>4. ASSUME NEW i \in Nat, i \in T PROVE i + 1 \in T
  <2> SUFFICES ASSUME i + 1 <= n
               PROVE  f[(i + 1) + 1] = DataState(s, i + 1) /\ cells[i + 1] = DataCell(s, i + 1)
    OBVIOUS
  <2>1. f[i + 1] = DataState(s, i) /\ i + 1 \in 1..n
    BY <1>2, <1>4
  <2>2. Leads(DataState(s, i), cells[i + 1], f[(i + 1) + 1])
    BY <1>1, <2>1 DEF Runs, n
  <2>3. (Counted => i <= s.left /\ i < s.left)
    BY <1>2, <2>1 DEF n, States
  <2>4. /\ DataState(s, i) \in States /\ DataState(s, i).phase = "data"
        /\ Counted => DataState(s, i).left > 0
    <3>1. /\ DataState(s, i) \in States /\ DataState(s, i).phase = "data"
          /\ Counted => DataState(s, i).left = s.left - i
      BY <1>2, <2>3, DataStates
    <3>2. s.left \in Nat
      BY <1>2 DEF States
    <3>3. Counted => s.left - i > 0
      BY <2>3, <3>2
    <3>4. QED BY <3>1, <3>3
  <2>5. cells[i + 1] = DataCell(DataState(s, i), 1) /\ f[(i + 1) + 1] = DataState(DataState(s, i), 1)
    BY <2>2, <2>4, DataGoesOn DEF ModeTypes
  <2>6. QED BY <1>2, <2>3, <2>5, DataStates
<1> HIDE DEF T
<1>5. Nat \subseteq T
  BY <1>3, <1>4, NatSetInduction
<1>6. \A i \in Nat : i <= n => f[i + 1] = DataState(s, i) /\ (i > 0 => cells[i] = DataCell(s, i))
  BY <1>5 DEF T
<1>7. t = DataState(s, n)
  BY <1>1, <1>2, <1>6
<1>8. \A i \in 1..n : cells[i] = DataCell(s, i)
  BY <1>2, <1>6
<1>9. QED BY <1>7, <1>8 DEF n

(* A stream has no meaning to its reader after a first message that was    *)
(* overwritten, or after an empty record.                                  *)
LEMMA ParseLost ==
  ASSUME NEW L, NEW s \in L, s.phase = "lost", NEW cells \in Seq(Cells)
  PROVE  Parse(L, cells, s, s)
<1> DEFINE f == [i \in 1..Len(cells) + 1 |-> s]
<1>1. f \in [1..Len(cells) + 1 -> L] /\ f[1] = s /\ f[Len(cells) + 1] = s
  OBVIOUS
<1>2. Runs(f, cells)
  BY DEF Runs, Leads
<1>3. QED BY <1>1, <1>2 DEF Parse

-----------------------------------------------------------------------------
(* The bytes of the stream.                                                *)

LEMMA BytesTyped ==
  ASSUME NEW a \in Nat, NEW n \in Nat
  PROVE  Bytes(a, n) \in Seq(Nat) /\ Len(Bytes(a, n)) = n /\ \A i \in 1..n : Bytes(a, n)[i] = a + i
BY DEF Bytes

LEMMA BytesJoin ==
  ASSUME NEW a \in Nat, NEW m \in Nat, NEW n \in Nat
  PROVE  Bytes(a, m) \o Bytes(a + m, n) = Bytes(a, m + n)
<1> DEFINE y == Bytes(a, m + n)
           b == Bytes(a, m)
           c == Bytes(a + m, n)
<1>1. /\ b \in Seq(Nat) /\ Len(b) = m /\ \A i \in 1..m : b[i] = a + i
      /\ c \in Seq(Nat) /\ Len(c) = n /\ \A i \in 1..n : c[i] = (a + m) + i
      /\ y \in Seq(Nat) /\ Len(y) = m + n /\ \A i \in 1..m + n : y[i] = a + i
  <2>1. a + m \in Nat /\ m + n \in Nat
    OBVIOUS
  <2>2. QED BY <2>1, BytesTyped
<1> HIDE DEF b, c, y
<1>2. b \o c \in Seq(Nat) /\ Len(b \o c) = m + n
  BY <1>1, ConcatProperties
<1>3. ASSUME NEW i \in 1..m + n PROVE (b \o c)[i] = y[i]
  <2>1. (b \o c)[i] = IF i <= m THEN b[i] ELSE c[i - m]
    BY <1>1, ConcatProperties
  <2>2. QED BY <1>1, <2>1
<1>4. b \o c = y
  BY <1>1, <1>2, <1>3, SeqEqual
<1>5. QED BY <1>4 DEF b, c, y

LEMMA BytesPart ==
  ASSUME NEW a \in Nat, NEW n \in Nat, NEW j \in 0..n
  PROVE  SubSeq(Bytes(a, n), 1, j) = Bytes(a, j) /\ SubSeq(Bytes(a, n), j + 1, n) = Bytes(a + j, n - j)
<1> DEFINE x == SubSeq(Bytes(a, n), 1, j)
           y == SubSeq(Bytes(a, n), j + 1, n)
<1>1. Bytes(a, n) \in Seq(Nat) /\ Len(Bytes(a, n)) = n /\ \A i \in 1..n : Bytes(a, n)[i] = a + i
  BY BytesTyped
<1>2. x \in Seq(Nat) /\ Len(x) = j /\ \A i \in 1..j : x[i] = a + i
  BY <1>1
<1>3. y \in Seq(Nat) /\ Len(y) = n - j /\ \A i \in 1..n - j : y[i] = a + (j + i)
  BY <1>1
<1>4. Bytes(a, j) \in Seq(Nat) /\ Len(Bytes(a, j)) = j /\ \A i \in 1..j : Bytes(a, j)[i] = a + i
  BY BytesTyped
<1>5. /\ Bytes(a + j, n - j) \in Seq(Nat) /\ Len(Bytes(a + j, n - j)) = n - j
      /\ \A i \in 1..n - j : Bytes(a + j, n - j)[i] = a + (j + i)
  <2>1. a + j \in Nat /\ n - j \in Nat
    OBVIOUS
  <2>2. QED BY <2>1, BytesTyped
<1> HIDE DEF x, y
<1>6. x = Bytes(a, j)
  BY <1>2, <1>4, SeqEqual
<1>7. y = Bytes(a + j, n - j)
  BY <1>3, <1>5, SeqEqual
<1>8. QED BY <1>6, <1>7 DEF x, y

LEMMA NumbersOfData ==
  ASSUME NEW cells \in Seq(Cells), NEW s \in States, \A i \in 1..Len(cells) : cells[i] = DataCell(s, i)
  PROVE  Numbers(cells) = Bytes(s.byte, Len(cells))
<1>1. Numbers(cells) = [i \in 1..Len(cells) |-> DataCell(s, i).n]
  BY DEF Numbers
<1>2. \A i \in 1..Len(cells) : DataCell(s, i).n = s.byte + i
  BY DEF DataCell, Cell
<1>3. QED BY <1>1, <1>2 DEF Bytes

(* The reader's caller gets more of the stream.                            *)
LEMMA GotMore ==
  ASSUME got \in Seq(Nat), got = Bytes(0, Len(got)), NEW n \in Nat, got' = got \o Bytes(Len(got), n)
  PROVE  got' \in Seq(Nat) /\ Len(got') = Len(got) + n /\ got' = Bytes(0, Len(got'))
<1>1. Len(got) \in Nat /\ Bytes(Len(got), n) \in Seq(Nat) /\ Len(Bytes(Len(got), n)) = n
  BY BytesTyped
<1>2. got' \in Seq(Nat) /\ Len(got') = Len(got) + n
  <2>1. ASSUME NEW y \in Seq(Nat) PROVE got \o y \in Seq(Nat) /\ Len(got \o y) = Len(got) + Len(y)
    BY ConcatProperties, Zenon
  <2>2. QED BY <1>1, <2>1, Zenon
<1>3. Bytes(0, Len(got)) \o Bytes(0 + Len(got), n) = Bytes(0, Len(got) + n)
  BY <1>1, BytesJoin
<1>4. QED BY <1>1, <1>2, <1>3

LEMMA ReturnsInOrder ==
  ASSUME got \in Seq(Nat), got = Bytes(0, Len(got)), NEW n \in Nat, Returns(Bytes(Len(got), n))
  PROVE  /\ got' \in Seq(Nat) /\ rbuf' \in Seq(Nat)
         /\ got' = Bytes(0, Len(got')) /\ rbuf' = Bytes(Len(got'), Len(rbuf'))
         /\ Len(got') + Len(rbuf') = Len(got) + n
<1> DEFINE ready == Bytes(Len(got), n)
           g == Len(got)
<1>1. g \in Nat /\ ready \in Seq(Nat) /\ Len(ready) = n
  BY BytesTyped
<1>2. PICK c \in IF reader = "read" THEN Capacities ELSE {MaxRecord + 1} :
        got' = got \o SubSeq(ready, 1, Least(c, n)) /\ rbuf' = SubSeq(ready, Least(c, n) + 1, n)
  BY <1>1 DEF Returns
<1>3. c \in Nat
  BY FramingAssumption DEF Capacities
<1> DEFINE j == Least(c, n)
<1>4. j \in 0..n /\ j \in Nat /\ n - j \in Nat /\ g + j \in Nat /\ (g + j) + (n - j) = g + n
  <2>1. j \in Nat /\ j <= n
    BY <1>3 DEF Least
  <2> HIDE DEF j, g
  <2>2. QED BY <1>1, <2>1
<1> HIDE DEF j
<1>5. SubSeq(ready, 1, j) = Bytes(g, j) /\ SubSeq(ready, j + 1, n) = Bytes(g + j, n - j)
  BY <1>1, <1>4, BytesPart
<1>6. got' = got \o Bytes(g, j) /\ rbuf' = Bytes(g + j, n - j)
  BY <1>2, <1>5 DEF j
<1>7. got' \in Seq(Nat) /\ Len(got') = g + j /\ got' = Bytes(0, Len(got'))
  BY <1>4, <1>6, GotMore, Zenon
<1>8. rbuf' \in Seq(Nat) /\ Len(rbuf') = n - j
  BY <1>4, <1>6, BytesTyped
<1>9. rbuf' = Bytes(Len(got'), Len(rbuf')) /\ Len(got') + Len(rbuf') = g + n
  BY <1>4, <1>6, <1>7, <1>8
<1>10. QED BY <1>7, <1>8, <1>9

-----------------------------------------------------------------------------
(* From one state of the system to the next.                               *)

LEMMA LeadsStable ==
  ASSUME UNCHANGED modes, NEW s, NEW c, NEW t
  PROVE  Leads(s, c, t)' <=> Leads(s, c, t)
BY DEF modes, Leads, DataLeads, AeadLeads, StreamLeads, TLSLeads, HTTPLeads, Counted,
       DataCell, DataState, State, Cell

LEMMA PipeNext ==
  ASSUME UNCHANGED modes, NEW s, NEW t, Parse(Legal', Pipe', s, t),
         AtReader(s)', ~broken' => AtWriter(t)'
  PROVE  PipeInv'
<1>1. Parse(Legal, Pipe, s, t)'
  BY LeadsStable DEF Parse, Runs
<1>2. s \in Legal' /\ t \in Legal'
  BY DEF Parse
<1>3. QED BY <1>1, <1>2 DEF PipeInv

LEMMA SealedTyped == WriterTypes => Sealed \in Nat /\ Sealed <= written
BY DEF WriterTypes, Sealed

LEMMA SealedTypedNext == WriterTypes' => Sealed' \in Nat
<1>1. \A m, n \in Nat : n <= m => m - n \in Nat
  OBVIOUS
<1>2. QED BY <1>1 DEF WriterTypes, Sealed

LEMMA LegalStates == Legal \subseteq States
BY DEF Legal

LEMMA PipeTyped ==
  PipeTypes => /\ Pipe \in Seq(Cells) /\ Len(Pipe) = Len(arrived) + Len(wire)
               /\ Len(arrived) \in Nat /\ Len(wire) \in Nat
BY DEF PipeTypes, Pipe

(* A writer that has not ended keeps the runs legal, and may add to them.  *)
Inner(b) == {s \in States : s.phase \in {"head", "len", "data"} /\ s.byte <= b}

LEMMA LegalGrows ==
  ASSUME ~fin, UNCHANGED modes, zeroAt \subseteq zeroAt', Sealed \in Nat, Sealed' \in Nat, Sealed <= Sealed'
  PROVE  Legal \subseteq Legal' /\ Inner(Sealed') \subseteq Legal'
BY DEF Legal, Inner, States, modes

LEMMA CellsAssociate == \A a, b, c \in Seq(Cells) : (a \o b) \o c = a \o (b \o c)
BY ConcatAssociative

(* A writer's step appends cells to the pipe.                              *)
LEMMA WriterKeeps ==
  ASSUME FramingInv, ~fin, UNCHANGED <<modes, broken, arrived, readerVars>>,
         NEW cells \in Seq(Cells), wire' = wire \o cells,
         written' \in Nat, todo' \in Nat, todo' <= written', Sealed <= Sealed', zeroAt \subseteq zeroAt',
         wkey' \in Nat, wfirst' \in BOOLEAN, fin' \in BOOLEAN,
         fin' \/ writer = "readFrom" => todo' = 0,
         \A s \in Legal : AtWriter(s) => \E t : AtWriter(t)' /\ Parse(Legal', cells, s, t)
  PROVE  FramingInv'
<1> USE DEF FramingInv
<1>1. FramingTypes'
  <2>1. ModeTypes' /\ ReaderTypes'
    BY DEF FramingTypes, ModeTypes, ReaderTypes, modes, readerVars, Obfs
  <2>2. PipeTypes'
    BY DEF FramingTypes, PipeTypes
  <2>3. QED BY <2>1, <2>2 DEF FramingTypes, WriterTypes
<1>2. WriterInv' /\ ~broken
  BY DEF WriterInv, modes
<1>3. Sealed \in Nat /\ Sealed' \in Nat
  <2>1. WriterTypes /\ WriterTypes'
    BY <1>1 DEF FramingTypes
  <2>2. QED BY <2>1, SealedTyped, SealedTypedNext, Zenon
<1>4. ReaderInv'
  BY <1>3 DEF ReaderInv, FramingTypes, modes, readerVars, Bytes
<1>5. EndInv'
  BY DEF EndInv, HeaderSplit, modes, readerVars
<1>6. ASSUME end' = "open" PROVE PipeInv'
  <2>1. PICK s \in Legal, t \in Legal : Parse(Legal, Pipe, s, t) /\ AtReader(s) /\ AtWriter(t)
    BY <1>2, <1>6 DEF PipeInv, readerVars
  <2>2. PICK u : AtWriter(u)' /\ Parse(Legal', cells, t, u)
    BY <2>1
  <2>3. Legal \subseteq Legal'
    BY <1>3, LegalGrows
  <2>4. Parse(Legal', Pipe, s, t)
    BY <2>1, <2>3, ParseWider
  <2>5. Parse(Legal', Pipe \o cells, s, u)
    BY <2>2, <2>4, PipeTyped, ParseConcat DEF FramingTypes
  <2>6. Pipe' = Pipe \o cells
    <3>1. arrived \in Seq(Cells) /\ wire \in Seq(Cells)
      BY DEF FramingTypes, PipeTypes
    <3>2. (arrived \o wire) \o cells = arrived \o (wire \o cells)
      BY <3>1, CellsAssociate, Zenon
    <3>3. QED BY <3>2 DEF Pipe
  <2>7. AtReader(s)'
    BY <2>1 DEF AtReader, modes, readerVars
  <2>8. QED BY <2>2, <2>5, <2>6, <2>7, PipeNext
<1>7. QED BY <1>1, <1>2, <1>4, <1>5, <1>6

(* What the reader finds in the first k cells that have arrived: j of      *)
(* them, and the others.                                                   *)
LEMMA FirstParts ==
  ASSUME PipeTypes, NEW k \in 0..Len(arrived), NEW j \in 0..k
  PROVE  /\ First(k) \in Seq(Cells) /\ Len(First(k)) = k /\ \A i \in 1..k : First(k)[i] = arrived[i]
         /\ SubSeq(First(k), 1, j) = First(j) /\ SubSeq(First(k), j + 1, k) = SubSeq(arrived, j + 1, k)
         /\ SubSeq(arrived, j + 1, k) \in Seq(Cells) /\ Len(SubSeq(arrived, j + 1, k)) = k - j
         /\ \A i \in 1..k - j : SubSeq(arrived, j + 1, k)[i] = arrived[j + i]
<1>1. \A m \in 0..Len(arrived) :
        First(m) \in Seq(Cells) /\ Len(First(m)) = m /\ \A i \in 1..m : First(m)[i] = arrived[i]
  BY DEF First, PipeTypes
<1> DEFINE x == SubSeq(arrived, j + 1, k)
           y == SubSeq(First(k), j + 1, k)
           z == SubSeq(First(k), 1, j)
<1>2. x \in Seq(Cells) /\ Len(x) = k - j /\ \A i \in 1..k - j : x[i] = arrived[j + i]
  BY DEF PipeTypes
<1>3. y \in Seq(Cells) /\ Len(y) = k - j /\ \A i \in 1..k - j : y[i] = First(k)[j + i]
  BY <1>1 DEF PipeTypes
<1>4. z \in Seq(Cells) /\ Len(z) = j /\ \A i \in 1..j : z[i] = First(k)[i]
  BY <1>1 DEF PipeTypes
<1>5. j \in 0..Len(arrived) /\ Len(arrived) \in Nat
  BY DEF PipeTypes
<1> HIDE DEF x, y, z
<1>6. ASSUME NEW i \in 1..k - j PROVE y[i] = x[i]
  <2>1. j + i \in 1..k /\ k \in 0..Len(arrived)
    BY <1>5
  <2>2. First(k)[j + i] = arrived[j + i]
    BY <1>1, <2>1
  <2>3. QED BY <1>2, <1>3, <2>2
<1>7. \A i \in 1..j : z[i] = First(j)[i]
  BY <1>1, <1>4, <1>5
<1>8. y = x
  BY <1>2, <1>3, <1>6, SeqEqual
<1>9. z = First(j)
  BY <1>1, <1>4, <1>5, <1>7, SeqEqual
<1>10. QED BY <1>1, <1>2, <1>8, <1>9 DEF x, y, z

LEMMA ReaderFinds ==
  ASSUME FramingInv, end = "open", NEW k \in 0..Len(arrived), NEW j \in 0..k
  PROVE  \E s, v, m, t \in Legal :
           /\ AtReader(s) /\ Parse(Legal, First(j), s, v) /\ Parse(Legal, SubSeq(arrived, j + 1, k), v, m)
           /\ Parse(Legal, SubSeq(Pipe, k + 1, Len(Pipe)), m, t) /\ (~broken => AtWriter(t))
<1>1. PICK s \in Legal, t \in Legal : Parse(Legal, Pipe, s, t) /\ AtReader(s) /\ (~broken => AtWriter(t))
  BY DEF FramingInv, PipeInv
<1>2. PipeTypes /\ Pipe \in Seq(Cells) /\ k \in 0..Len(Pipe)
  BY PipeTyped DEF FramingInv, FramingTypes
<1>3. PICK m \in Legal : Parse(Legal, SubSeq(Pipe, 1, k), s, m) /\ Parse(Legal, SubSeq(Pipe, k + 1, Len(Pipe)), m, t)
  BY <1>1, <1>2, ParseSplit
<1>4. SubSeq(Pipe, 1, k) = First(k)
  <2>1. /\ SubSeq(Pipe, 1, k) \in Seq(Cells) /\ First(k) \in Seq(Cells)
        /\ Len(SubSeq(Pipe, 1, k)) = k /\ Len(First(k)) = k
    BY <1>2 DEF First, PipeTypes
  <2>2. \A i \in 1..k : SubSeq(Pipe, 1, k)[i] = First(k)[i]
    BY <1>2 DEF First, Pipe, PipeTypes
  <2>3. QED BY <2>1, <2>2, SeqEqual
<1>5. First(k) \in Seq(Cells) /\ Len(First(k)) = k /\ Parse(Legal, First(k), s, m)
  BY <1>2, <1>3, <1>4, FirstParts
<1>6. PICK v \in Legal : Parse(Legal, SubSeq(First(k), 1, j), s, v) /\ Parse(Legal, SubSeq(First(k), j + 1, k), v, m)
  BY <1>5, ParseSplit
<1>7. Parse(Legal, First(j), s, v) /\ Parse(Legal, SubSeq(arrived, j + 1, k), v, m)
  BY <1>2, <1>6, FirstParts
<1>8. QED BY <1>1, <1>3, <1>7

(* If nothing more will come, the reader finds what the writer has left.   *)
LEMMA NothingLeft ==
  ASSUME FramingTypes, wire = <<>>, NEW m, NEW t,
         Parse(Legal, SubSeq(Pipe, Len(arrived) + 1, Len(Pipe)), m, t)
  PROVE  t = m
<1>1. Pipe \in Seq(Cells) /\ Len(Pipe) = Len(arrived) /\ Len(arrived) \in Nat
  BY PipeTyped DEF FramingTypes
<1>2. SubSeq(Pipe, Len(arrived) + 1, Len(Pipe)) = <<>>
  BY <1>1
<1>3. <<>> \in Seq(Cells)
  OBVIOUS
<1>4. Parse(Legal, <<>>, m, t)
  BY <1>2
<1>5. QED BY <1>3, <1>4, ParseEnds

(* Payload among what has arrived.                                         *)
LEMMA ArrivedData ==
  ASSUME FramingTypes, NEW k \in 0..Len(arrived), NEW j \in 0..k, NEW v \in Legal, NEW m,
         Parse(Legal, SubSeq(arrived, j + 1, k), v, m), v.phase = "data", Counted => k - j <= v.left
  PROVE  /\ m = DataState(v, k - j) /\ m.phase = "data" /\ m.byte = v.byte + (k - j)
         /\ Counted => m.left = v.left - (k - j)
         /\ Numbers(SubSeq(arrived, j + 1, k)) = Bytes(v.byte, k - j)
         /\ \A i \in 1..k - j : arrived[j + i] = DataCell(v, i)
<1> DEFINE cells == SubSeq(arrived, j + 1, k)
           n == k - j
<1>1. cells \in Seq(Cells) /\ Len(cells) = n /\ \A i \in 1..n : cells[i] = arrived[j + i]
  BY FirstParts DEF FramingTypes
<1>2. n \in Nat /\ v \in States /\ Legal \subseteq States /\ ModeTypes
  <2>1. n \in Nat
    OBVIOUS
  <2>2. QED BY <2>1, LegalStates DEF FramingTypes
<1> HIDE DEF cells
<1>3. m = DataState(v, n) /\ \A i \in 1..n : cells[i] = DataCell(v, i)
  <2> HIDE DEF n
  <2>1. Parse(Legal, cells, v, m) /\ (Counted => Len(cells) <= v.left)
    BY <1>1 DEF cells, n
  <2>2. QED BY <1>1, <1>2, <2>1, ParsedData
<1>4. m.phase = "data" /\ m.byte = v.byte + n /\ (Counted => m.left = v.left - n)
  BY <1>2, <1>3, DataStates
<1>5. Numbers(cells) = Bytes(v.byte, n)
  BY <1>1, <1>2, <1>3, NumbersOfData
<1>6. QED BY <1>1, <1>3, <1>4, <1>5 DEF cells

LEMMA FirstData ==
  ASSUME FramingTypes, NEW k \in 0..Len(arrived), NEW v \in Legal, NEW m,
         Parse(Legal, SubSeq(arrived, 0 + 1, k), v, m), v.phase = "data", Counted => k <= v.left
  PROVE  /\ m = DataState(v, k) /\ m.phase = "data" /\ m.byte = v.byte + k
         /\ Counted => m.left = v.left - k
         /\ Numbers(First(k)) = Bytes(v.byte, k)
         /\ \A i \in 1..k : arrived[i] = DataCell(v, i)
<1>1. k \in Nat /\ k - 0 = k /\ 0 \in 0..k /\ \A i \in 1..k : 0 + i = i
  BY DEF FramingTypes, PipeTypes
<1>2. /\ m = DataState(v, k - 0) /\ m.phase = "data" /\ m.byte = v.byte + (k - 0)
      /\ Counted => m.left = v.left - (k - 0)
      /\ Numbers(SubSeq(arrived, 0 + 1, k)) = Bytes(v.byte, k - 0)
      /\ \A i \in 1..k - 0 : arrived[0 + i] = DataCell(v, i)
  <2>1. Counted => k - 0 <= v.left
    BY <1>1
  <2>2. QED BY <1>1, <2>1, ArrivedData
<1>3. First(k) = SubSeq(arrived, 0 + 1, k)
  BY DEF First
<1>4. QED BY <1>1, <1>2, <1>3

LEMMA HeadData ==
  ASSUME FramingTypes, NEW k \in 2..Len(arrived), NEW v \in Legal, NEW m,
         Parse(Legal, SubSeq(arrived, 2 + 1, k), v, m), v.phase = "data", Counted => k - 2 <= v.left
  PROVE  /\ m = DataState(v, k - 2) /\ m.phase = "data" /\ m.byte = v.byte + (k - 2)
         /\ Counted => m.left = v.left - (k - 2)
         /\ Numbers(SubSeq(arrived, 3, k)) = Bytes(v.byte, k - 2)
<1>1. k \in 0..Len(arrived) /\ 2 \in 0..k /\ 2 + 1 = 3
  BY DEF FramingTypes, PipeTypes
<1>2. /\ m = DataState(v, k - 2) /\ m.phase = "data" /\ m.byte = v.byte + (k - 2)
      /\ Counted => m.left = v.left - (k - 2)
      /\ Numbers(SubSeq(arrived, 2 + 1, k)) = Bytes(v.byte, k - 2)
  <2>1. PICK j : j = 2
    OBVIOUS
  <2>2. j \in 0..k /\ Parse(Legal, SubSeq(arrived, j + 1, k), v, m) /\ (Counted => k - j <= v.left)
    BY <1>1, <2>1
  <2>3. /\ m = DataState(v, k - j) /\ m.phase = "data" /\ m.byte = v.byte + (k - j)
        /\ Counted => m.left = v.left - (k - j)
        /\ Numbers(SubSeq(arrived, j + 1, k)) = Bytes(v.byte, k - j)
    BY <1>1, <2>2, ArrivedData
  <2>4. QED BY <2>1, <2>3
<1>3. QED BY <1>1, <1>2

(* ... and the rest, when it has taken them.                               *)
LEMMA ReaderTook ==
  ASSUME PipeTypes, UNCHANGED <<modes, writerVars, wire, fin, broken>>,
         NEW k \in 0..Len(arrived), Take(k), NEW m, NEW t,
         Parse(Legal, SubSeq(Pipe, k + 1, Len(Pipe)), m, t), ~broken => AtWriter(t), AtReader(m)'
  PROVE  PipeInv'
<1>1. Legal' = Legal
  BY DEF Legal, Sealed, modes, writerVars
<1>2. Pipe' = SubSeq(Pipe, k + 1, Len(Pipe))
  <2> DEFINE x == SubSeq(arrived, k + 1, Len(arrived))
             y == SubSeq(Pipe, k + 1, Len(Pipe))
  <2>1. Pipe' = x \o wire
    BY DEF Pipe, Take
  <2>2. /\ x \in Seq(Cells) /\ Len(x) = Len(arrived) - k
        /\ \A i \in 1..Len(arrived) - k : x[i] = arrived[k + i]
    BY DEF PipeTypes
  <2>3. /\ y \in Seq(Cells) /\ Len(y) = (Len(arrived) + Len(wire)) - k
        /\ \A i \in 1..(Len(arrived) + Len(wire)) - k : y[i] = Pipe[k + i]
    BY PipeTyped
  <2> HIDE DEF x, y
  <2>4. /\ x \o wire \in Seq(Cells) /\ Len(x \o wire) = (Len(arrived) + Len(wire)) - k
    BY <2>2, PipeTyped, ConcatProperties DEF PipeTypes
  <2>5. ASSUME NEW i \in 1..(Len(arrived) + Len(wire)) - k PROVE (x \o wire)[i] = y[i]
    <3>1. y[i] = IF k + i <= Len(arrived) THEN arrived[k + i] ELSE wire[(k + i) - Len(arrived)]
      <4>1. \A l \in 1..Len(arrived) + Len(wire) :
              Pipe[l] = IF l <= Len(arrived) THEN arrived[l] ELSE wire[l - Len(arrived)]
        BY ConcatProperties DEF Pipe, PipeTypes
      <4>2. k + i \in 1..Len(arrived) + Len(wire)
        BY PipeTyped
      <4>3. QED BY <2>3, <4>1, <4>2
    <3>2. (x \o wire)[i] = IF i <= Len(arrived) - k THEN x[i] ELSE wire[i - (Len(arrived) - k)]
      BY <2>2, PipeTyped DEF PipeTypes
    <3>3. (k + i) - Len(arrived) = i - (Len(arrived) - k) /\ (k + i <= Len(arrived) <=> i <= Len(arrived) - k)
      BY PipeTyped
    <3>4. QED BY <2>2, <3>1, <3>2, <3>3, PipeTyped
  <2>6. x \o wire = y
    BY <2>3, <2>4, <2>5, SeqEqual
  <2>7. QED BY <2>1, <2>6 DEF y
<1>3. ~broken' => AtWriter(t)'
  BY DEF AtWriter, Rests, Sealed, modes, writerVars
<1>4. QED BY <1>1, <1>2, <1>3, PipeNext

-----------------------------------------------------------------------------
(* What the writers send.                                                  *)

LEMMA ParseRecord ==
  ASSUME layer = "aead", NEW s \in States, s.phase = "head", NEW n \in Nat, n > 0,
         NEW L, Inner(s.byte + n) \subseteq L
  PROVE  Parse(L, Record(s.key, s.byte, n), s, State("head", s.key + 2, 0, s.byte + n))
<1> DEFINE t == State("data", s.key + 1, n, s.byte)
           u == State("data", s.key + 1, 0, s.byte + n)
           v == State("head", s.key + 2, 0, s.byte + n)
           size == Cell("size", s.key, n)
           tag == Cell("tag", s.key + 1, n)
           cells == [i \in 1..n |-> DataCell(t, i)]
<1>1. s.key \in Nat /\ s.left \in Nat /\ s.byte \in Nat /\ (s.key + 1) + 1 = s.key + 2
  BY DEF States
<1>2. t \in States /\ t \in L /\ t.phase = "data" /\ t.left = n /\ t.byte = s.byte
  BY <1>1 DEF States, Phases, State, Inner
<1>3. s \in L /\ u \in L /\ v \in L
  BY <1>1 DEF States, Phases, State, Inner
<1>4. Parse(L, <<size>>, s, t)
  <2>1. Leads(s, size, t)
    BY DEF Leads, AeadLeads, Cell
  <2>2. QED BY <1>2, <1>3, <2>1, ParseOne
<1>5. Parse(L, cells, t, u)
  <2>1. \A i \in 0..n : DataState(t, i) \in L
    BY <1>1 DEF States, Phases, State, Inner, DataState
  <2>2. DataState(t, n) = u
    BY <1>1 DEF State, DataState
  <2> HIDE DEF t, u
  <2>3. Parse(L, cells, t, DataState(t, n))
    BY <1>2, <2>1, ParseData
  <2>4. QED BY <2>2, <2>3
<1>6. Parse(L, <<tag>>, u, v)
  <2>1. Leads(u, tag, v)
    BY <1>1 DEF Leads, AeadLeads, Cell, State
  <2>2. QED BY <1>3, <2>1, ParseOne
<1>7. <<size>> \in Seq(Cells) /\ cells \in Seq(Cells) /\ <<tag>> \in Seq(Cells) /\ <<size>> \o cells \in Seq(Cells)
  <2>1. size \in Cells /\ tag \in Cells
    BY <1>1 DEF Cell, Cells, CellTypes
  <2>2. \A i \in 1..n : DataCell(t, i) \in Cells
    BY <1>1 DEF Cell, Cells, CellTypes, DataCell, State
  <2> HIDE DEF size, tag, t
  <2>3. cells \in Seq(Cells)
    BY <2>2
  <2>4. QED BY <2>1, <2>3, ConcatProperties
<1>8. Record(s.key, s.byte, n) = <<size>> \o cells \o <<tag>>
  BY DEF Record, DataCell, State
<1> HIDE DEF t, u, v, size, tag, cells
<1>9. Parse(L, <<size>> \o cells, s, u)
  BY <1>4, <1>5, <1>7, ParseConcat
<1>10. Parse(L, <<size>> \o cells \o <<tag>>, s, v)
  BY <1>6, <1>7, <1>9, ParseConcat
<1>11. QED BY <1>8, <1>10 DEF v

LEMMA ParseLastRecord ==
  ASSUME layer = "aead", NEW s \in States, s.phase = "head", NEW L, s \in L,
         NEW t \in L, t = State("lost", s.key + 1, 0, s.byte)
  PROVE  Parse(L, <<Cell("size", s.key, 0)>>, s, t) /\ Parse(L, Record(s.key, s.byte, 0), s, t)
<1> DEFINE size == Cell("size", s.key, 0)
           tag == Cell("tag", s.key + 1, 0)
<1>1. s.key \in Nat /\ s.byte \in Nat
  BY DEF States
<1>2. t.phase = "lost"
  BY DEF State
<1>3. Parse(L, <<size>>, s, t)
  <2>1. Leads(s, size, t)
    BY DEF Leads, AeadLeads, Cell
  <2>2. QED BY <2>1, ParseOne
<1>4. <<size>> \in Seq(Cells) /\ <<tag>> \in Seq(Cells)
  BY <1>1 DEF Cell, Cells, CellTypes
<1>5. Parse(L, <<tag>>, t, t)
  BY <1>2, <1>4, ParseLost
<1>6. Record(s.key, s.byte, 0) = <<size>> \o <<tag>>
  <2> DEFINE none == [i \in 1..0 |-> Cell("data", s.key + 1, s.byte + i)]
  <2>1. none = <<>>
    OBVIOUS
  <2>2. Record(s.key, s.byte, 0) = <<size>> \o none \o <<tag>>
    BY DEF Record
  <2> HIDE DEF size, tag, none
  <2>3. <<size>> \o <<>> = <<size>>
    BY <1>4, ConcatEmptySeq
  <2>4. QED BY <2>1, <2>2, <2>3
<1> HIDE DEF size, tag
<1>7. Parse(L, <<size>> \o <<tag>>, s, t)
  BY <1>3, <1>4, <1>5, ParseConcat
<1>8. QED BY <1>3, <1>6, <1>7 DEF size

(* Payload that is not sealed by records: of a key stream, of obfs.        *)
LEMMA ParsePayload ==
  ASSUME layer # "aead", NEW s \in States, s.phase = "data", NEW n \in Nat, layer = "tls" => n <= s.left,
         NEW L, Inner(s.byte + n) \subseteq L
  PROVE  /\ layer = "stream" => Parse(L, Encrypted(s.key, s.byte, n), s, DataState(s, n))
         /\ layer \in {"tls", "http"} => Parse(L, Plain(s.byte, n), s, DataState(s, n))
         /\ Encrypted(s.key, s.byte, n) \in Seq(Cells) /\ Plain(s.byte, n) \in Seq(Cells)
<1>1. s.key \in Nat /\ s.left \in Nat /\ s.byte \in Nat
  BY DEF States
<1>2. \A i \in 0..n : DataState(s, i) \in L
  BY <1>1 DEF States, Phases, State, Inner, DataState
<1>3. Parse(L, [i \in 1..n |-> DataCell(s, i)], s, DataState(s, n))
  BY <1>2, ParseData DEF Counted
<1>4. layer = "stream" => Encrypted(s.key, s.byte, n) = [i \in 1..n |-> DataCell(s, i)]
  BY DEF Encrypted, DataCell
<1>5. layer \in {"tls", "http"} => Plain(s.byte, n) = [i \in 1..n |-> DataCell(s, i)]
  BY DEF Plain, DataCell
<1>6. Encrypted(s.key, s.byte, n) \in Seq(Cells) /\ Plain(s.byte, n) \in Seq(Cells)
  BY <1>1 DEF Encrypted, Plain, Cell, Cells, CellTypes
<1>7. QED BY <1>3, <1>4, <1>5, <1>6

(* One cell, or the two of a head, before n bytes of payload in the dress  *)
(* of simple-obfs.                                                         *)
LEMMA ParseFrame ==
  ASSUME layer \in {"tls", "http"}, NEW s \in States, NEW L, s \in L, NEW n \in Nat, Inner(s.byte + n) \subseteq L,
         NEW left \in Nat, layer = "tls" => left = n,
         NEW head \in Seq(Cells),
         LET t == State("data", s.key, left, s.byte)
         IN  \/ \E c : head = <<c>> /\ Leads(s, c, t)
             \/ \E c, d : head = <<c, d>> /\ \E u \in States : u.phase = "len" /\ u.byte = s.byte /\ Leads(s, c, u) /\ Leads(u, d, t)
  PROVE  Parse(L, head \o Plain(s.byte, n), s, DataState(State("data", s.key, left, s.byte), n))
<1> DEFINE t == State("data", s.key, left, s.byte)
<1>1. s.key \in Nat /\ s.byte \in Nat
  BY DEF States
<1>2. t \in States /\ t.phase = "data" /\ t.left = left /\ t.byte = s.byte /\ t \in L
  BY <1>1 DEF States, Phases, State, Inner
<1>3. Inner(s.byte) \subseteq L
  BY <1>1 DEF Inner, States
<1> HIDE DEF t
<1>4. Parse(L, head, s, t)
  <2>1. CASE \E c : head = <<c>> /\ Leads(s, c, t)
    BY <1>2, <2>1, ParseOne
  <2>2. CASE \E c, d : head = <<c, d>> /\ \E u \in States : u.phase = "len" /\ u.byte = s.byte /\ Leads(s, c, u) /\ Leads(u, d, t)
    <3>0. PICK c, d : head = <<c, d>> /\ \E u \in States : u.phase = "len" /\ u.byte = s.byte /\ Leads(s, c, u) /\ Leads(u, d, t)
      BY <2>2
    <3>1. PICK u \in States :
            head = <<c, d>> /\ u.phase = "len" /\ u.byte = s.byte /\ Leads(s, c, u) /\ Leads(u, d, t)
      BY <3>0
    <3>2. u \in L
      BY <1>1, <1>3, <3>1 DEF Inner
    <3>3. Parse(L, <<c, d>>, s, t)
      BY <1>2, <3>1, <3>2, ParseTwo
    <3>4. QED BY <3>1, <3>3
  <2>3. QED BY <2>1, <2>2 DEF t
<1>5. Parse(L, Plain(t.byte, n), t, DataState(t, n)) /\ Plain(t.byte, n) \in Seq(Cells)
  <2>1. layer # "aead" /\ (layer = "tls" => n <= t.left) /\ Inner(t.byte + n) \subseteq L
    BY <1>2
  <2>2. QED BY <1>2, <2>1, ParsePayload
<1>6. Parse(L, head \o Plain(t.byte, n), s, DataState(t, n))
  BY <1>4, <1>5, ParseConcat
<1>7. QED BY <1>2, <1>6 DEF t

-----------------------------------------------------------------------------
(* One lemma for each step.                                                *)

LEMMA FramingInvInit == Init => FramingInv
<1> SUFFICES ASSUME Init PROVE FramingInv
  OBVIOUS
<1> USE DEF Init
<1>1. FramingTypes
  <2>1. ModeTypes
    BY DEF ModeTypes, Obfs
  <2>2. WriterTypes
    BY DEF WriterTypes
  <2>3. <<>> \in Seq(Cells) /\ <<>> \in Seq(Nat)
    OBVIOUS
  <2>4. PipeTypes /\ ReaderTypes
    BY <2>3 DEF PipeTypes, ReaderTypes
  <2>5. QED BY <2>1, <2>2, <2>3, <2>4 DEF FramingTypes
<1>2. WriterInv /\ EndInv
  BY DEF WriterInv, EndInv
<1>3. ReaderInv
  BY DEF ReaderInv, Bytes, Sealed
<1>4. PipeInv
  <2> DEFINE s == State("open", 0, 0, 0)
  <2>1. s \in Legal
    BY DEF Legal, States, Phases, State, Sealed
  <2>2. Pipe = <<>>
    BY DEF Pipe
  <2>3. Parse(Legal, Pipe, s, s)
    BY <2>1, <2>2, ParseNothing
  <2>4. AtReader(s) /\ AtWriter(s)
    BY DEF AtReader, AtWriter, Rests, State, Sealed
  <2>5. QED BY <2>1, <2>3, <2>4 DEF PipeInv
<1>5. QED BY <1>1, <1>2, <1>3, <1>4 DEF FramingInv

LEMMA WriteStep == ASSUME FramingInv, NEW n \in Nat, Write(n) PROVE FramingInv'
<1> USE DEF Write, CanWrite
<1>1. FramingTypes /\ ModeTypes /\ WriterTypes /\ PipeTypes /\ WriterInv
  BY DEF FramingInv, FramingTypes
<1>2. Sealed' = Sealed /\ Sealed \in Nat /\ Sealed <= Sealed'
  <2>1. (written + n) - n = written - 0 /\ written - 0 \in Nat
    BY <1>1 DEF WriterTypes
  <2>2. QED BY <2>1 DEF Sealed
<1> zeroAt' = zeroAt
  OBVIOUS
<1>3. written' \in Nat /\ todo' \in Nat /\ todo' <= written'
  <2>1. written + n \in Nat /\ n <= written + n
    BY <1>1 DEF WriterTypes
  <2>2. QED BY <2>1
<1>4. wire' = wire \o <<>> /\ <<>> \in Seq(Cells)
  BY <1>1, ConcatEmptySeq DEF PipeTypes
<1>5. ASSUME NEW s \in Legal, AtWriter(s) PROVE \E t : AtWriter(t)' /\ Parse(Legal', <<>>, s, t)
  <2>1. AtWriter(s)'
    BY <1>2, <1>5 DEF AtWriter, Rests, modes
  <2>2. s \in Legal'
    BY <1>2, LegalGrows
  <2>3. QED BY <2>1, <2>2, ParseNothing
<1>6. wkey' \in Nat /\ wfirst' \in BOOLEAN /\ fin' \in BOOLEAN /\ ~fin /\ (fin' \/ writer = "readFrom" => todo' = 0)
  BY <1>1 DEF WriterTypes, PipeTypes
<1>7. UNCHANGED <<modes, broken, arrived, readerVars>>
  OBVIOUS
<1>8. QED
  <2> HIDE DEF Write, CanWrite
  <2>1. QED BY <1>2, <1>3, <1>4, <1>5, <1>6, <1>7, WriterKeeps

LEMMA InitWriterStep == FramingInv /\ (InitAeadWriter \/ InitStreamWriter) => FramingInv'
<1> SUFFICES ASSUME FramingInv, InitAeadWriter \/ InitStreamWriter PROVE FramingInv'
  OBVIOUS
<1> DEFINE c == Cell(IF layer = "aead" THEN "salt" ELSE "iv", 0, 0)
<1>1. FramingTypes /\ ModeTypes /\ WriterTypes /\ PipeTypes /\ WriterInv
  BY DEF FramingInv, FramingTypes
<1>2. /\ layer \in {"aead", "stream"} /\ ~fin /\ wfirst /\ wire' = Append(wire, c) /\ wfirst' = FALSE
      /\ UNCHANGED <<modes, written, todo, wkey, fin, broken, arrived, readerVars, zeroAt>>
  BY DEF InitAeadWriter, InitStreamWriter
<1>3. Sealed' = Sealed /\ Sealed \in Nat /\ Sealed <= Sealed'
  BY <1>1, <1>2, SealedTyped DEF Sealed
<1>4. c \in Cells /\ <<c>> \in Seq(Cells)
  BY DEF Cell, Cells, CellTypes
<1>5. wire' = wire \o <<c>>
  BY <1>1, <1>2, <1>4, AppendIsConcat DEF PipeTypes
<1>6. ASSUME NEW s \in Legal, AtWriter(s) PROVE \E t : AtWriter(t)' /\ Parse(Legal', <<c>>, s, t)
  <2>0. CASE s.phase = "lost"
    <3>1. AtWriter(s)' /\ s \in Legal'
      BY <1>2, <1>3, <1>6, <2>0, LegalGrows DEF AtWriter, Rests, modes
    <3> HIDE DEF c
    <3>2. QED BY <1>4, <2>0, <3>1, ParseLost
  <2> SUFFICES ASSUME s.phase # "lost" PROVE \E t : AtWriter(t)' /\ Parse(Legal', <<c>>, s, t)
    BY <2>0
  <2>1. PICK t : t = State(IF layer = "aead" THEN "head" ELSE "data", s.key, 0, s.byte)
    OBVIOUS
  <2>2. s \in States /\ s.phase = "open" /\ s.byte = Sealed /\ s.left = 0 /\ s.key = wkey /\ s \in Legal'
    BY <1>2, <1>3, <1>6, LegalStates, LegalGrows DEF AtWriter, Rests
  <2>3. t \in Legal'
    <3>1. t \in Inner(Sealed')
      BY <1>3, <2>1, <2>2 DEF Inner, States, Phases, State
    <3>2. QED BY <1>2, <1>3, <3>1, LegalGrows
  <2>4. AtWriter(t)'
    BY <1>2, <1>3, <2>1, <2>2 DEF AtWriter, Rests, State, modes
  <2>5. Leads(s, c, t)
    BY <1>2, <2>1, <2>2 DEF Leads, AeadLeads, StreamLeads, Cell
  <2> HIDE DEF c
  <2>6. Parse(Legal', <<c>>, s, t)
    BY <2>2, <2>3, <2>5, ParseOne
  <2>7. QED BY <2>4, <2>6
<1>7. /\ written' \in Nat /\ todo' \in Nat /\ todo' <= written'
      /\ wkey' \in Nat /\ wfirst' \in BOOLEAN /\ fin' \in BOOLEAN /\ (fin' \/ writer = "readFrom" => todo' = 0)
  BY <1>1, <1>2 DEF WriterTypes, PipeTypes, WriterInv
<1> HIDE DEF c
<1>8. UNCHANGED <<modes, broken, arrived, readerVars>>
  BY <1>2
<1>9. QED BY <1>2, <1>3, <1>4, <1>5, <1>6, <1>7, <1>8, WriterKeeps

(* Sealed moves on by the n bytes that a step sends.                       *)
LEMMA SealedMore ==
  ASSUME WriterTypes, NEW n \in Nat,
         \/ n <= todo /\ todo' = todo - n /\ written' = written
         \/ todo = 0 /\ todo' = todo /\ written' = written + n
  PROVE  /\ Sealed \in Nat /\ Sealed' = Sealed + n /\ Sealed' \in Nat /\ Sealed <= Sealed'
         /\ written' \in Nat /\ todo' \in Nat /\ todo' <= written'
<1>1. CASE n <= todo /\ todo' = todo - n /\ written' = written
  <2>1. /\ written - todo \in Nat /\ written - (todo - n) = (written - todo) + n
        /\ todo - n \in Nat /\ todo - n <= written
        /\ (written - todo) + n \in Nat /\ written - todo <= (written - todo) + n
    BY <1>1 DEF WriterTypes
  <2>2. QED BY <1>1, <2>1 DEF Sealed, WriterTypes
<1>2. CASE todo = 0 /\ todo' = todo /\ written' = written + n
  <2>1. /\ written - 0 = written /\ (written + n) - 0 = (written - 0) + n
        /\ written + n \in Nat /\ 0 <= written + n /\ written <= written + n
    BY <1>2 DEF WriterTypes
  <2>2. QED BY <1>2, <2>1 DEF Sealed, WriterTypes
<1>3. QED BY <1>1, <1>2

(* A record, or a part of the key stream, of n bytes.                      *)
LEMMA CipherStep ==
  ASSUME FramingInv, layer \in {"aead", "stream"}, ~wfirst, ~fin, NEW n \in Nat,
         \/ n <= todo /\ todo' = todo - n /\ written' = written
         \/ todo = 0 /\ todo' = todo /\ written' = written + n,
         layer = "aead" /\ n = 0 => writer = "readFrom" /\ fin' /\ zeroAt' = zeroAt \cup {written},
         zeroAt \subseteq zeroAt', fin' \in BOOLEAN, fin' => todo' = 0,
         wire' = wire \o (IF layer = "aead" THEN Record(wkey, Sealed, n) ELSE Encrypted(wkey, Sealed, n)),
         wkey' = IF layer = "aead" THEN wkey + 2 ELSE wkey + n,
         UNCHANGED <<modes, wfirst, broken, arrived, readerVars>>
  PROVE  FramingInv'
<1> DEFINE cells == IF layer = "aead" THEN Record(wkey, Sealed, n) ELSE Encrypted(wkey, Sealed, n)
<1>1. FramingTypes /\ ModeTypes /\ WriterTypes /\ PipeTypes /\ WriterInv
  BY DEF FramingInv, FramingTypes
<1>2. /\ Sealed \in Nat /\ Sealed' = Sealed + n /\ Sealed' \in Nat /\ Sealed <= Sealed'
      /\ written' \in Nat /\ todo' \in Nat /\ todo' <= written'
  BY <1>1, SealedMore
<1>3. wkey \in Nat /\ wkey' \in Nat
  <2>1. wkey \in Nat /\ wkey + 2 \in Nat /\ wkey + n \in Nat
    BY <1>1 DEF WriterTypes
  <2>2. QED BY <2>1
<1>4. cells \in Seq(Cells)
  <2>1. Encrypted(wkey, Sealed, n) \in Seq(Cells)
    BY <1>2, <1>3 DEF Encrypted, Cell, Cells, CellTypes
  <2>2. Record(wkey, Sealed, n) \in Seq(Cells)
    <3> DEFINE data == [i \in 1..n |-> Cell("data", wkey + 1, Sealed + i)]
    <3>1. Cell("size", wkey, n) \in Cells /\ Cell("tag", wkey + 1, n) \in Cells /\ data \in Seq(Cells)
      BY <1>2, <1>3 DEF Cell, Cells, CellTypes
    <3> HIDE DEF data
    <3>2. <<Cell("size", wkey, n)>> \in Seq(Cells) /\ <<Cell("tag", wkey + 1, n)>> \in Seq(Cells)
      BY <3>1
    <3>3. <<Cell("size", wkey, n)>> \o data \o <<Cell("tag", wkey + 1, n)>> \in Seq(Cells)
      BY <3>1, <3>2, ConcatProperties
    <3>4. QED BY <3>3 DEF Record, data
  <2>3. QED BY <2>1, <2>2
<1>5. ASSUME NEW s \in Legal, AtWriter(s) PROVE \E t : AtWriter(t)' /\ Parse(Legal', cells, s, t)
  <2>0. CASE s.phase = "lost" /\ layer = "aead"
    <3>1. AtWriter(s)' /\ s \in Legal'
      BY <1>2, <2>0, LegalGrows DEF AtWriter, modes
    <3> HIDE DEF cells
    <3>2. QED BY <1>4, <2>0, <3>1, ParseLost
  <2> SUFFICES ASSUME ~(s.phase = "lost" /\ layer = "aead") PROVE \E t : AtWriter(t)' /\ Parse(Legal', cells, s, t)
    BY <2>0
  <2>1. /\ s \in States /\ s.byte = Sealed /\ s.left = 0 /\ s.key = wkey /\ s \in Legal'
        /\ s.phase = IF layer = "aead" THEN "head" ELSE "data"
    BY <1>2, <1>5, LegalStates, LegalGrows DEF AtWriter, Rests
  <2>2. Inner(s.byte + n) \subseteq Legal'
    BY <1>2, <2>1, LegalGrows
  <2>3. CASE layer = "aead" /\ n > 0
    <3>1. Parse(Legal', cells, s, State("head", s.key + 2, 0, s.byte + n))
      BY <2>1, <2>2, <2>3, ParseRecord
    <3>2. AtWriter(State("head", s.key + 2, 0, s.byte + n))'
      BY <1>2, <2>1, <2>3 DEF AtWriter, Rests, State, modes
    <3>3. QED BY <3>1, <3>2
  <2>4. CASE layer = "aead" /\ n = 0
    <3>1. PICK t : t = State("lost", s.key + 1, 0, s.byte)
      OBVIOUS
    <3>2. writer = "readFrom" /\ fin' /\ Sealed = written /\ Sealed' = Sealed /\ Sealed \in zeroAt'
      <4>1. todo = 0 /\ written - 0 = written
        BY <1>1, <2>4 DEF WriterInv, WriterTypes
      <4>2. QED BY <1>2, <2>4, <4>1 DEF Sealed
    <3>3. t \in Legal'
      BY <1>2, <2>1, <3>1, <3>2 DEF Legal, States, Phases, State, modes
    <3>4. Parse(Legal', cells, s, t)
      BY <2>1, <2>4, <3>1, <3>3, ParseLastRecord
    <3>5. AtWriter(t)'
      BY <2>4, <3>1 DEF AtWriter, State, modes
    <3>6. QED BY <3>4, <3>5
  <2>5. CASE layer = "stream"
    <3>1. PICK t : t = DataState(s, n)
      OBVIOUS
    <3>2. Parse(Legal', cells, s, t)
      BY <2>1, <2>2, <2>5, <3>1, ParsePayload
    <3>3. t.phase = "data" /\ t.left = 0 /\ t.byte = Sealed' /\ t.key = wkey'
      BY <1>2, <2>1, <2>5, <3>1 DEF DataState, State
    <3>4. AtWriter(t)'
      BY <2>5, <3>3 DEF AtWriter, Rests, modes
    <3>5. QED BY <3>2, <3>4
  <2>6. n = 0 \/ n > 0
    OBVIOUS
  <2>7. QED BY <2>3, <2>4, <2>5, <2>6
<1>6. fin' \/ writer = "readFrom" => todo' = 0
  <2>1. CASE n <= todo /\ todo' = todo - n /\ writer = "readFrom"
    BY <1>1, <2>1 DEF WriterInv, WriterTypes
  <2>2. QED BY <1>1, <2>1 DEF WriterInv
<1>7. wire' = wire \o cells /\ wfirst' \in BOOLEAN /\ UNCHANGED <<modes, broken, arrived, readerVars>>
  BY <1>1 DEF WriterTypes
<1> HIDE DEF cells
<1>8. QED BY <1>2, <1>3, <1>4, <1>5, <1>6, <1>7, WriterKeeps

(* A Write of nothing sends an empty record, and the salt before it if it  *)
(* is the first.                                                           *)
LEMMA AeadWriteEmptyStep == FramingInv /\ AeadWriteEmpty => FramingInv'
<1> SUFFICES ASSUME FramingInv, AeadWriteEmpty PROVE FramingInv'
  OBVIOUS
<1> DEFINE size == Cell("size", wkey, 0)
           salt == Cell("salt", 0, 0)
           cells == (IF wfirst THEN <<salt>> ELSE <<>>) \o <<size>>
<1>1. FramingTypes /\ ModeTypes /\ WriterTypes /\ PipeTypes /\ WriterInv
  BY DEF FramingInv, FramingTypes
<1>2. /\ layer = "aead" /\ writer = "write" /\ ~fin /\ todo = 0 /\ wfirst' = FALSE /\ wkey' = wkey + 1
      /\ zeroAt' = zeroAt \cup {written}
      /\ UNCHANGED <<modes, written, todo, fin, broken, arrived, readerVars>>
  BY DEF AeadWriteEmpty
<1>3. Sealed' = Sealed /\ Sealed = written /\ Sealed \in Nat /\ Sealed <= Sealed'
  <2>1. written \in Nat /\ written - 0 = written
    BY <1>1 DEF WriterTypes
  <2>2. QED BY <1>2, <2>1 DEF Sealed
<1>4. size \in Cells /\ <<size>> \in Seq(Cells) /\ <<salt>> \in Seq(Cells) /\ <<>> \in Seq(Cells)
  <2>1. size \in Cells /\ salt \in Cells
    BY <1>1 DEF Cell, Cells, CellTypes, WriterTypes
  <2> HIDE DEF size, salt
  <2>2. QED BY <2>1
<1>5. cells \in Seq(Cells) /\ wire' = wire \o cells
  <2>1. wire' = wire \o (IF wfirst THEN <<salt>> ELSE <<>>) \o <<size>>
    BY DEF AeadWriteEmpty
  <2>2. wire \in Seq(Cells)
    BY <1>1 DEF PipeTypes
  <2> HIDE DEF size, salt
  <2>3. \A a \in Seq(Cells) : a \o <<size>> \in Seq(Cells) /\ (wire \o a) \o <<size>> = wire \o (a \o <<size>>)
    BY <1>4, <2>2, CellsAssociate, ConcatProperties
  <2>4. (IF wfirst THEN <<salt>> ELSE <<>>) \in Seq(Cells)
    BY <1>4
  <2>5. QED BY <2>1, <2>3, <2>4
<1>6. ASSUME NEW s \in Legal, AtWriter(s) PROVE \E t : AtWriter(t)' /\ Parse(Legal', cells, s, t)
  <2>1. s \in States /\ s \in Legal' /\ Inner(Sealed') \subseteq Legal'
    BY <1>2, <1>3, LegalStates, LegalGrows
  <2>2. CASE s.phase = "lost"
    <3>1. AtWriter(s)'
      BY <1>2, <2>2 DEF AtWriter, modes
    <3> HIDE DEF cells
    <3>2. QED BY <1>5, <2>1, <2>2, <3>1, ParseLost
  <2>3. CASE s.phase # "lost"
    <3>1. s.byte = Sealed /\ s.key = wkey /\ s.left = 0 /\ s.phase = IF wfirst THEN "open" ELSE "head"
      BY <1>2, <1>6, <2>3 DEF AtWriter, Rests
    <3>2. PICK h, t : h = State("head", s.key, 0, s.byte) /\ t = State("lost", s.key + 1, 0, s.byte)
      OBVIOUS
    <3>3. h \in States /\ h.phase = "head" /\ h.key = wkey /\ h.byte = s.byte /\ h \in Legal'
      <4>1. h \in Inner(Sealed')
        BY <1>1, <1>3, <2>1, <3>1, <3>2 DEF Inner, States, Phases, State
      <4>2. QED BY <2>1, <3>1, <3>2, <4>1 DEF Inner, State
    <3>4. t \in Legal'
      BY <1>2, <1>3, <2>1, <3>1, <3>2 DEF Legal, States, Phases, State, modes
    <3>5. AtWriter(t)'
      BY <1>2, <3>2 DEF AtWriter, State, modes
    <3>6. Parse(Legal', <<size>>, h, t)
      BY <1>2, <3>1, <3>2, <3>3, <3>4, ParseLastRecord
    <3>7. CASE wfirst
      <4>1. Leads(s, salt, h)
        BY <1>2, <3>1, <3>2, <3>7 DEF Leads, AeadLeads, Cell
      <4> HIDE DEF salt, size
      <4>2. Parse(Legal', <<salt>>, s, h)
        BY <2>1, <3>3, <4>1, ParseOne
      <4>3. Parse(Legal', <<salt>> \o <<size>>, s, t)
        BY <1>4, <3>6, <4>2, ParseConcat
      <4>4. QED BY <3>5, <3>7, <4>3
    <3>8. CASE ~wfirst
      <4>1. h = s
        BY <2>1, <3>1, <3>2, <3>8 DEF States, State
      <4>2. cells = <<size>>
        <5>1. <<>> \o <<size>> = <<size>>
          BY <1>4, ConcatEmptySeq
        <5>2. QED BY <3>8, <5>1
      <4>3. QED BY <3>5, <3>6, <4>1, <4>2
    <3>9. QED BY <3>7, <3>8
  <2>4. QED BY <2>2, <2>3
<1>7. /\ written' \in Nat /\ todo' \in Nat /\ todo' <= written' /\ wkey' \in Nat /\ wfirst' \in BOOLEAN
      /\ fin' \in BOOLEAN /\ (fin' \/ writer = "readFrom" => todo' = 0) /\ zeroAt \subseteq zeroAt'
      /\ UNCHANGED <<modes, broken, arrived, readerVars>>
  <2> HIDE DEF cells, size, salt
  <2>1. wkey + 1 \in Nat
    BY <1>1 DEF WriterTypes
  <2>2. zeroAt \subseteq zeroAt'
    BY <1>2
  <2>3. QED BY <1>1, <1>2, <2>1, <2>2 DEF WriterTypes, PipeTypes
<1> HIDE DEF cells, size, salt
<1>8. QED BY <1>2, <1>3, <1>5, <1>6, <1>7, WriterKeeps

LEMMA CipherWriteStep ==
  FramingInv /\ (AeadWrite \/ AeadReadFrom \/ StreamWrite \/ StreamReadFrom) => FramingInv'
<1> SUFFICES ASSUME FramingInv PROVE AeadWrite \/ AeadReadFrom \/ StreamWrite \/ StreamReadFrom => FramingInv'
  OBVIOUS
<1>1. FramingTypes /\ WriterTypes /\ PipeTypes /\ WriterInv /\ MaxRecord \in Nat /\ MaxRecord > 0 /\ MaxBytes \in Nat
  BY FramingAssumption DEF FramingInv, FramingTypes
<1>2. todo > 0 => LET n == Least(MaxRecord, todo) IN n \in Nat /\ n > 0 /\ n <= todo
  BY <1>1 DEF WriterTypes, Least
<1>3. todo > 0 => ~fin /\ fin \in BOOLEAN /\ writer # "readFrom"
  BY <1>1 DEF WriterTypes, WriterInv, PipeTypes
<1>4. todo = 0 => Sealed = written
  BY <1>1 DEF WriterTypes, Sealed
<1>5. writer = "readFrom" => todo = 0
  BY <1>1 DEF WriterInv
<1>6. ASSUME AeadWrite PROVE FramingInv'
  <2>1. PICK n : n = Least(MaxRecord, todo)
    OBVIOUS
  <2>2. /\ layer = "aead" /\ ~wfirst /\ todo > 0 /\ wire' = wire \o Record(wkey, Sealed, n)
        /\ todo' = todo - n /\ wkey' = wkey + 2
        /\ UNCHANGED <<modes, written, wfirst, fin, broken, arrived, readerVars, zeroAt>>
    BY <1>6, <2>1 DEF AeadWrite
  <2>3. n \in Nat /\ n > 0 /\ n <= todo /\ ~fin /\ fin' \in BOOLEAN /\ ~fin'
    BY <1>2, <1>3, <2>1, <2>2
  <2>4. QED BY <2>2, <2>3, CipherStep
<1>7. ASSUME StreamWrite PROVE FramingInv'
  <2>1. PICK n : n = Least(MaxRecord, todo)
    OBVIOUS
  <2>2. /\ layer = "stream" /\ ~wfirst /\ todo > 0 /\ wire' = wire \o Encrypted(wkey, Sealed, n)
        /\ todo' = todo - n /\ wkey' = wkey + n
        /\ UNCHANGED <<modes, written, wfirst, fin, broken, arrived, readerVars, zeroAt>>
    BY <1>7, <2>1 DEF StreamWrite
  <2>3. n \in Nat /\ n > 0 /\ n <= todo /\ ~fin /\ fin' \in BOOLEAN /\ ~fin'
    BY <1>2, <1>3, <2>1, <2>2
  <2>4. QED BY <2>2, <2>3, CipherStep
<1>8. ASSUME AeadReadFrom PROVE FramingInv'
  <2>1. PICK n \in 0..Least(MaxRecord, MaxBytes - written) :
          /\ wire' = wire \o Record(wkey, written, n) /\ written' = written + n /\ fin' \in {TRUE, n = 0}
          /\ zeroAt' = IF n = 0 THEN zeroAt \cup {written} ELSE zeroAt
    BY <1>8 DEF AeadReadFrom
  <2>2. /\ layer = "aead" /\ writer = "readFrom" /\ ~wfirst /\ ~fin /\ wkey' = wkey + 2
        /\ UNCHANGED <<modes, todo, wfirst, broken, arrived, readerVars>>
    BY <1>8 DEF AeadReadFrom
  <2>3. n \in Nat /\ fin' \in BOOLEAN /\ (n = 0 => fin') /\ zeroAt \subseteq zeroAt'
    <3>1. fin' = TRUE \/ fin' = (n = 0)
      BY <2>1
    <3>2. fin' \in BOOLEAN /\ (n = 0 => fin')
      BY <3>1
    <3>3. QED BY <2>1, <3>2
  <2>4. QED BY <1>4, <1>5, <2>1, <2>2, <2>3, CipherStep
<1>9. ASSUME StreamReadFrom PROVE FramingInv'
  <2>1. PICK n \in 0..Least(MaxRecord, MaxBytes - written) :
          /\ wire' = wire \o Encrypted(wkey, written, n) /\ wkey' = wkey + n
          /\ written' = written + n /\ fin' \in {TRUE, n = 0}
    BY <1>9 DEF StreamReadFrom
  <2>2. /\ layer = "stream" /\ writer = "readFrom" /\ ~wfirst /\ ~fin
        /\ UNCHANGED <<modes, todo, wfirst, broken, arrived, readerVars, zeroAt>>
    BY <1>9 DEF StreamReadFrom
  <2>3. n \in Nat /\ fin' \in BOOLEAN
    <3>1. fin' = TRUE \/ fin' = (n = 0)
      BY <2>1
    <3>2. fin' \in BOOLEAN
      BY <3>1
    <3>3. QED BY <3>2
  <2>4. QED BY <1>4, <1>5, <2>1, <2>2, <2>3, CipherStep
<1>10. QED BY <1>6, <1>7, <1>8, <1>9

(* What comes before n bytes of payload in the dress of simple-obfs.       *)
ObfsHead(n) ==
  IF layer = "tls" THEN
    IF wfirst /\ reader = "server" THEN <<Cell("hello", 0, n)>>
    ELSE <<Cell(IF wfirst THEN "handshake" ELSE "type", 0, 0), Cell("len", 0, n)>>
  ELSE IF ~wfirst THEN <<>>
  ELSE IF reader = "server" THEN <<Cell("request", 0, n)>>
  ELSE <<Cell("header", 0, 0), Cell("crlf", 0, 0)>>

LEMMA ParseObfs ==
  ASSUME ModeTypes, Obfs, NEW s \in States, s.left = 0, s.phase = IF wfirst THEN "open" ELSE "data",
         NEW n \in Nat, n > 0 \/ layer = "http", NEW L, s \in L, Inner(s.byte + n) \subseteq L
  PROVE  \E t : /\ t.phase = "data" /\ t.left = 0 /\ t.byte = s.byte + n
                /\ Parse(L, ObfsHead(n) \o Plain(s.byte, n), s, t)
<1> DEFINE left == IF layer = "http" /\ reader = "read" THEN 0 ELSE n
           t == State("data", s.key, left, s.byte)
           u == State("len", s.key, 0, s.byte)
           after(v) == v.phase = "data" /\ v.left = 0 /\ v.byte = s.byte + n
<1>1. s.key \in Nat /\ s.byte \in Nat /\ layer \in {"tls", "http"} /\ reader \in {"read", "server"}
  BY DEF States, ModeTypes, Obfs
<1>2. u \in States /\ u.phase = "len" /\ u.byte = s.byte
  BY <1>1 DEF States, Phases, State
<1>3. after(DataState(t, n))
  BY <1>1 DEF DataState, State
<1>4. CASE layer = "tls" /\ wfirst /\ reader = "server"
  <2>1. ObfsHead(n) = <<Cell("hello", 0, n)>> /\ ObfsHead(n) \in Seq(Cells)
    BY <1>4 DEF ObfsHead, Cell, Cells, CellTypes
  <2>2. Leads(s, Cell("hello", 0, n), t)
    BY <1>1, <1>4 DEF Leads, TLSLeads, Cell
  <2>3. Parse(L, ObfsHead(n) \o Plain(s.byte, n), s, DataState(t, n))
    BY <1>1, <1>4, <2>1, <2>2, ParseFrame
  <2>4. QED BY <1>3, <2>3
<1>5. CASE layer = "tls" /\ ~(wfirst /\ reader = "server")
  <2> DEFINE c == Cell(IF wfirst THEN "handshake" ELSE "type", 0, 0)
             d == Cell("len", 0, n)
  <2>1. ObfsHead(n) = <<c, d>> /\ ObfsHead(n) \in Seq(Cells)
    <3>1. c \in Cells /\ d \in Cells
      BY DEF Cell, Cells, CellTypes
    <3>2. <<c, d>> \in Seq(Cells)
      BY <3>1
    <3>3. QED BY <1>5, <3>2 DEF ObfsHead
  <2>2. Leads(s, c, u) /\ Leads(u, d, t)
    BY <1>1, <1>5 DEF Leads, TLSLeads, Cell, State
  <2>3. Parse(L, ObfsHead(n) \o Plain(s.byte, n), s, DataState(t, n))
    <3> HIDE DEF c, d, u
    <3>1. left \in Nat /\ left = n
      BY <1>5
    <3>2. QED BY <1>1, <1>2, <1>5, <2>1, <2>2, <3>1, ParseFrame
  <2>4. QED BY <1>3, <2>3
<1>6. CASE layer = "http" /\ wfirst /\ reader = "server"
  <2>1. ObfsHead(n) = <<Cell("request", 0, n)>> /\ ObfsHead(n) \in Seq(Cells)
    BY <1>6 DEF ObfsHead, Cell, Cells, CellTypes
  <2>2. Leads(s, Cell("request", 0, n), t)
    BY <1>1, <1>6 DEF Leads, HTTPLeads, Cell
  <2>3. Parse(L, ObfsHead(n) \o Plain(s.byte, n), s, DataState(t, n))
    BY <1>1, <1>6, <2>1, <2>2, ParseFrame
  <2>4. QED BY <1>3, <2>3
<1>7. CASE layer = "http" /\ wfirst /\ reader = "read"
  <2> DEFINE c == Cell("header", 0, 0)
             d == Cell("crlf", 0, 0)
  <2>1. ObfsHead(n) = <<c, d>> /\ ObfsHead(n) \in Seq(Cells)
    BY <1>7 DEF ObfsHead, Cell, Cells, CellTypes
  <2>2. Leads(s, c, u) /\ Leads(u, d, t)
    BY <1>1, <1>7 DEF Leads, HTTPLeads, Cell, State
  <2>3. Parse(L, ObfsHead(n) \o Plain(s.byte, n), s, DataState(t, n))
    <3> HIDE DEF c, d, u
    <3>1. left \in Nat
      OBVIOUS
    <3>2. QED BY <1>1, <1>2, <1>7, <2>1, <2>2, <3>1, ParseFrame
  <2>4. QED BY <1>3, <2>3
<1>8. CASE layer = "http" /\ ~wfirst
  <2>1. ObfsHead(n) = <<>>
    BY <1>8 DEF ObfsHead
  <2>2. Plain(s.byte, n) \in Seq(Cells) /\ Parse(L, Plain(s.byte, n), s, DataState(s, n))
    BY <1>8, ParsePayload
  <2>3. ObfsHead(n) \o Plain(s.byte, n) = Plain(s.byte, n)
    BY <2>1, <2>2, ConcatEmptySeq
  <2>4. after(DataState(s, n))
    BY <1>1, <1>8 DEF DataState, State
  <2>5. QED BY <2>2, <2>3, <2>4
<1>9. QED BY <1>1, <1>4, <1>5, <1>6, <1>7, <1>8

(* The hello's buffer was overwritten before it was sent.                  *)
LEMMA ParseOverwritten ==
  ASSUME layer = "tls", reader = "server", NEW L, NEW s \in L, s.phase = "open",
         NEW t \in L, t = State("lost", s.key, 0, s.byte), NEW n \in Nat
  PROVE  Parse(L, [i \in 1..n + 1 |-> Cell("overwritten", 0, 0)], s, t)
<1> DEFINE cells == [i \in 1..n + 1 |-> Cell("overwritten", 0, 0)]
           f == [i \in 1..(n + 1) + 1 |-> IF i = 1 THEN s ELSE t]
<1>1. Len(cells) = n + 1
  OBVIOUS
<1>2. f \in [1..(n + 1) + 1 -> L] /\ f[1] = s /\ f[(n + 1) + 1] = t
  OBVIOUS
<1>3. ASSUME NEW i \in 1..n + 1 PROVE Leads(f[i], cells[i], f[i + 1])
  <2>1. f[i] = (IF i = 1 THEN s ELSE t) /\ f[i + 1] = t /\ cells[i] = Cell("overwritten", 0, 0)
    OBVIOUS
  <2> HIDE DEF f, cells
  <2>2. Cell("overwritten", 0, 0).t = "overwritten" /\ t.phase = "lost"
    BY DEF Cell, State
  <2>3. Leads(f[i], cells[i], f[i + 1])
    BY <2>1, <2>2 DEF Leads, TLSLeads
  <2>4. QED BY <2>3
<1> HIDE DEF f, cells
<1>4. Runs(f, cells)
  BY <1>1, <1>3 DEF Runs
<1>5. Parse(L, cells, s, t)
  BY <1>1, <1>2, <1>4 DEF Parse
<1>6. QED BY <1>5 DEF cells

LEMMA ObfsTyped ==
  ASSUME WriterTypes, NEW n \in Nat
  PROVE  /\ ObfsHead(n) \in Seq(Cells) /\ Plain(Sealed, n) \in Seq(Cells)
         /\ [i \in 1..n + 1 |-> Cell("overwritten", 0, 0)] \in Seq(Cells)
<1>1. Sealed \in Nat
  BY SealedTyped
<1>2. Plain(Sealed, n) \in Seq(Cells)
  BY <1>1 DEF Plain, Cell, Cells, CellTypes
<1>3. \A c \in {"hello", "handshake", "type", "len", "request", "header", "crlf", "overwritten"} :
        \A m \in {0, n} : Cell(c, 0, m) \in Cells
  BY DEF Cell, Cells, CellTypes
<1>4. ObfsHead(n) \in Seq(Cells)
  BY <1>3 DEF ObfsHead
<1>5. QED BY <1>2, <1>3, <1>4

LEMMA ObfsStep ==
  ASSUME FramingInv, Obfs, NEW n \in Nat, n > 0 \/ (layer = "http" /\ ~fin),
         n <= todo, todo' = todo - n, wfirst' = FALSE,
         UNCHANGED <<modes, written, wkey, fin, broken, arrived, readerVars, zeroAt>>,
         NEW cells, wire' = wire \o cells,
         \/ cells = ObfsHead(n) \o Plain(Sealed, n)
         \/ layer = "tls" /\ reader = "server" /\ wfirst /\ cells = [i \in 1..n + 1 |-> Cell("overwritten", 0, 0)]
  PROVE  FramingInv'
<1>1. FramingTypes /\ ModeTypes /\ WriterTypes /\ PipeTypes /\ WriterInv
  BY DEF FramingInv, FramingTypes
<1>2. /\ Sealed \in Nat /\ Sealed' = Sealed + n /\ Sealed' \in Nat /\ Sealed <= Sealed'
      /\ written' \in Nat /\ todo' \in Nat /\ todo' <= written'
  BY <1>1, SealedMore
<1>3. cells \in Seq(Cells)
  BY <1>1, ObfsTyped, ConcatProperties
<1>4. ~fin /\ fin' \in BOOLEAN /\ ~fin' /\ writer # "readFrom"
  BY <1>1 DEF WriterInv, WriterTypes, PipeTypes, ModeTypes
<1>5. ASSUME NEW s \in Legal, AtWriter(s) PROVE \E t : AtWriter(t)' /\ Parse(Legal', cells, s, t)
  <2>1. s \in States /\ s \in Legal' /\ Inner(Sealed') \subseteq Legal'
    BY <1>2, <1>4, LegalStates, LegalGrows
  <2>2. CASE s.phase = "lost" /\ layer = "tls"
    <3>1. AtWriter(s)'
      BY <2>2 DEF AtWriter, modes
    <3>2. QED BY <1>3, <2>1, <2>2, <3>1, ParseLost
  <2>3. CASE ~(s.phase = "lost" /\ layer = "tls")
    <3>1. s.left = 0 /\ s.byte = Sealed /\ s.phase = IF wfirst THEN "open" ELSE "data"
      BY <1>5, <2>3 DEF AtWriter, Rests, Obfs
    <3>2. CASE cells = ObfsHead(n) \o Plain(Sealed, n)
      <4>1. PICK t : t.phase = "data" /\ t.left = 0 /\ t.byte = s.byte + n /\ Parse(Legal', cells, s, t)
        BY <1>1, <1>2, <2>1, <3>1, <3>2, ParseObfs
      <4>2. AtWriter(t)'
        BY <1>2, <3>1, <4>1 DEF AtWriter, Rests, modes, Obfs
      <4>3. QED BY <4>1, <4>2
    <3>3. CASE layer = "tls" /\ reader = "server" /\ wfirst /\ cells = [i \in 1..n + 1 |-> Cell("overwritten", 0, 0)]
      <4>1. PICK t : t = State("lost", s.key, 0, s.byte)
        OBVIOUS
      <4>2. t \in Legal' /\ t.phase = "lost"
        BY <1>2, <2>1, <3>1, <3>3, <4>1 DEF Legal, States, Phases, State, modes
      <4>3. Parse(Legal', cells, s, t)
        BY <2>1, <3>1, <3>3, <4>1, <4>2, ParseOverwritten
      <4>4. AtWriter(t)'
        BY <3>3, <4>2 DEF AtWriter, modes
      <4>5. QED BY <4>3, <4>4
    <3>4. QED BY <3>2, <3>3
  <2>4. QED BY <2>2, <2>3
<1>6. wkey' \in Nat /\ wfirst' \in BOOLEAN /\ UNCHANGED <<modes, broken, arrived, readerVars>>
  BY <1>1 DEF WriterTypes
<1>7. QED BY <1>2, <1>3, <1>4, <1>5, <1>6, WriterKeeps

LEMMA ObfsWriteStep == FramingInv /\ ~foreign' /\ (TLSWrite \/ HTTPWrite \/ ServerFrame) => FramingInv'
<1> SUFFICES ASSUME FramingInv, ~foreign' PROVE TLSWrite \/ HTTPWrite \/ ServerFrame => FramingInv'
  OBVIOUS
<1>1. /\ ModeTypes /\ WriterTypes /\ wire \in Seq(Cells) /\ todo \in Nat
      /\ MaxRecord \in Nat /\ MaxRecord > 0
  BY FramingAssumption DEF FramingInv, FramingTypes, WriterTypes, PipeTypes
<1>2. todo > 0 => LET n == Least(MaxRecord, todo) IN n \in Nat /\ n > 0 /\ n <= todo
  BY <1>1 DEF Least
<1>3. ASSUME NEW n \in Nat
      PROVE  (wire \o ObfsHead(n)) \o Plain(Sealed, n) = wire \o (ObfsHead(n) \o Plain(Sealed, n))
  <2>1. ObfsHead(n) \in Seq(Cells) /\ Plain(Sealed, n) \in Seq(Cells)
    BY <1>1, ObfsTyped
  <2>2. QED BY <1>1, <2>1, ConcatAssociative
<1>4. ASSUME TLSWrite PROVE FramingInv'
  <2>1. PICK n : n = Least(MaxRecord, todo)
    OBVIOUS
  <2>2. /\ layer = "tls" /\ reader = "server" /\ todo > 0 /\ todo' = todo - n /\ wfirst' = FALSE
        /\ IF wfirst
           THEN \E hello \in ClientHello(Sealed, n) : wire' = wire \o hello
           ELSE wire' = wire \o <<Cell("type", 0, 0), Cell("len", 0, n)>> \o Plain(Sealed, n)
        /\ UNCHANGED <<modes, written, wkey, fin, broken, arrived, readerVars, zeroAt>>
    BY <1>4, <2>1 DEF TLSWrite, SendHello, SendFrame
  <2>3. n \in Nat /\ n > 0 /\ n <= todo /\ Obfs
    BY <1>2, <2>1, <2>2 DEF Obfs
  <2>4. CASE wfirst
    <3>1. ObfsHead(n) = <<Cell("hello", 0, n)>>
      BY <2>2, <2>4 DEF ObfsHead
    <3>2. \E cells : wire' = wire \o cells /\ (\/ cells = ObfsHead(n) \o Plain(Sealed, n)
                                              \/ cells = [i \in 1..n + 1 |-> Cell("overwritten", 0, 0)])
      BY <2>2, <2>4, <3>1 DEF ClientHello
    <3>3. QED BY <2>2, <2>3, <2>4, <3>2, ObfsStep
  <2>5. CASE ~wfirst
    <3>1. ObfsHead(n) = <<Cell("type", 0, 0), Cell("len", 0, n)>>
      BY <2>2, <2>5 DEF ObfsHead
    <3>2. wire' = wire \o (ObfsHead(n) \o Plain(Sealed, n))
      BY <1>3, <2>2, <2>3, <2>5, <3>1
    <3>3. QED BY <2>2, <2>3, <3>2, ObfsStep
  <2>6. QED BY <2>4, <2>5
<1>5. ASSUME HTTPWrite PROVE FramingInv'
  <2>1. /\ layer = "http" /\ reader = "server" /\ (todo > 0 \/ ~fin) /\ todo' = 0 /\ wfirst' = FALSE
        /\ wire' = wire \o (IF wfirst THEN <<Cell("request", 0, todo)>> ELSE <<>>) \o Plain(Sealed, todo)
        /\ UNCHANGED <<modes, written, wkey, fin, broken, arrived, readerVars, zeroAt>>
    BY <1>5 DEF HTTPWrite
  <2>2. ObfsHead(todo) = IF wfirst THEN <<Cell("request", 0, todo)>> ELSE <<>>
    BY <2>1 DEF ObfsHead
  <2>3. wire' = wire \o (ObfsHead(todo) \o Plain(Sealed, todo))
    BY <1>1, <1>3, <2>1, <2>2
  <2>4. todo' = todo - todo /\ todo <= todo /\ Obfs
    BY <1>1, <2>1 DEF Obfs
  <2>5. QED BY <1>1, <2>1, <2>3, <2>4, ObfsStep
<1>6. ASSUME ServerFrame PROVE FramingInv'
  <2>1. PICK n \in 1..todo :
          /\ LET head == IF layer = "tls" THEN <<Cell(IF wfirst THEN "handshake" ELSE "type", 0, 0), Cell("len", 0, n)>>
                         ELSE IF wfirst THEN <<Cell("header", 0, 0), Cell("crlf", 0, 0)>>
                         ELSE <<>>
             IN  wire' = wire \o head \o Plain(Sealed, n)
          /\ todo' = todo - n
    BY <1>6 DEF ServerFrame
  <2>2. /\ Obfs /\ reader = "read" /\ wfirst' = FALSE
        /\ UNCHANGED <<modes, written, wkey, fin, broken, arrived, readerVars, zeroAt>>
    BY <1>6 DEF ServerFrame
  <2>3. n \in Nat /\ n > 0 /\ n <= todo
    BY <1>1, <2>1
  <2>4. ObfsHead(n) = IF layer = "tls" THEN <<Cell(IF wfirst THEN "handshake" ELSE "type", 0, 0), Cell("len", 0, n)>>
                      ELSE IF wfirst THEN <<Cell("header", 0, 0), Cell("crlf", 0, 0)>>
                      ELSE <<>>
    BY <2>2 DEF ObfsHead
  <2>5. wire' = wire \o (ObfsHead(n) \o Plain(Sealed, n))
    BY <1>3, <2>1, <2>3, <2>4
  <2>6. QED BY <2>1, <2>2, <2>3, <2>5, ObfsStep
<1>7. QED BY <1>4, <1>5, <1>6

LEMMA CloseWriteStep == FramingInv /\ CloseWrite => FramingInv'
<1> SUFFICES ASSUME FramingInv, CloseWrite PROVE FramingInv'
  OBVIOUS
<1>1. FramingTypes /\ WriterTypes /\ PipeTypes
  BY DEF FramingInv, FramingTypes
<1>2. /\ ~fin /\ fin' = TRUE /\ todo = 0
      /\ UNCHANGED <<modes, written, todo, wkey, wfirst, wire, broken, arrived, readerVars, zeroAt>>
  BY DEF CloseWrite, writerVars
<1>3. Sealed' = Sealed /\ Sealed \in Nat /\ Sealed <= Sealed'
  BY <1>1, <1>2, SealedTyped DEF Sealed
<1>4. wire' = wire \o <<>> /\ <<>> \in Seq(Cells)
  BY <1>1, <1>2, ConcatEmptySeq DEF PipeTypes
<1>5. ASSUME NEW s \in Legal, AtWriter(s) PROVE \E t : AtWriter(t)' /\ Parse(Legal', <<>>, s, t)
  <2>1. AtWriter(s)'
    BY <1>2, <1>3, <1>5 DEF AtWriter, Rests, modes
  <2>2. s \in Legal'
    BY <1>2, <1>3, LegalGrows
  <2>3. QED BY <2>1, <2>2, ParseNothing
<1>6. /\ written' \in Nat /\ todo' \in Nat /\ todo' <= written' /\ wkey' \in Nat /\ wfirst' \in BOOLEAN
      /\ fin' \in BOOLEAN /\ (fin' \/ writer = "readFrom" => todo' = 0)
      /\ UNCHANGED <<modes, broken, arrived, readerVars>>
  BY <1>1, <1>2 DEF WriterTypes
<1>7. QED BY <1>2, <1>3, <1>4, <1>5, <1>6, WriterKeeps

LEMMA ArriveStep == FramingInv /\ Arrive => FramingInv'
<1> SUFFICES ASSUME FramingInv, Arrive PROVE FramingInv'
  OBVIOUS
<1>1. FramingTypes /\ PipeTypes /\ wire \in Seq(Cells) /\ arrived \in Seq(Cells)
  BY DEF FramingInv, FramingTypes, PipeTypes
<1>2. /\ wire # <<>> /\ arrived' = Append(arrived, Head(wire)) /\ wire' = Tail(wire)
      /\ UNCHANGED <<modes, writerVars, fin, broken, readerVars>>
  BY DEF Arrive
<1>3. arrived' \in Seq(Cells) /\ wire' \in Seq(Cells)
  BY <1>1, <1>2
<1>4. FramingTypes'
  BY <1>1, <1>2, <1>3 DEF FramingTypes, ModeTypes, WriterTypes, PipeTypes, ReaderTypes, modes, writerVars, readerVars, Obfs
<1>5. Sealed' = Sealed /\ Legal' = Legal
  BY <1>2 DEF Sealed, Legal, modes, writerVars
<1>6. WriterInv' /\ ReaderInv' /\ EndInv'
  BY <1>2, <1>5 DEF FramingInv, WriterInv, ReaderInv, EndInv, HeaderSplit, Bytes, modes, writerVars, readerVars
<1>7. Pipe' = Pipe
  <2>1. /\ Pipe \in Seq(Cells) /\ Len(Pipe) = Len(arrived) + Len(wire)
        /\ Pipe' \in Seq(Cells) /\ Len(Pipe') = Len(arrived') + Len(wire')
    BY <1>1, <1>3, ConcatProperties DEF Pipe
  <2>2. Len(arrived') = Len(arrived) + 1 /\ Len(wire') = Len(wire) - 1
    BY <1>1, <1>2
  <2>3. Len(Pipe') = Len(Pipe)
    BY <1>1, <2>1, <2>2
  <2>4. ASSUME NEW i \in 1..Len(Pipe) PROVE Pipe'[i] = Pipe[i]
    BY <1>1, <1>2, <2>4 DEF Pipe
  <2>5. QED BY <2>1, <2>3, <2>4, SeqEqual
<1>8. ASSUME end' = "open" PROVE PipeInv'
  <2>1. PICK s \in Legal, t \in Legal : Parse(Legal, Pipe, s, t) /\ AtReader(s) /\ (~broken => AtWriter(t))
    BY <1>2, <1>8 DEF FramingInv, PipeInv, readerVars
  <2>2. AtReader(s)' /\ (~broken' => AtWriter(t)')
    BY <1>2, <1>5, <2>1 DEF AtReader, AtWriter, Rests, modes, writerVars, readerVars
  <2>3. QED BY <1>2, <1>5, <1>7, <2>1, <2>2, PipeNext
<1>9. QED BY <1>4, <1>6, <1>8 DEF FramingInv

LEMMA BreakStep == FramingInv /\ Break => FramingInv'
<1> SUFFICES ASSUME FramingInv, Break PROVE FramingInv'
  OBVIOUS
<1>1. FramingTypes /\ WriterTypes /\ PipeTypes /\ wire \in Seq(Cells) /\ arrived \in Seq(Cells)
  BY DEF FramingInv, FramingTypes, PipeTypes
<1>2. /\ ~broken /\ broken' = TRUE /\ fin' = TRUE /\ wire' = <<>> /\ todo' = 0 /\ written' = Sealed
      /\ UNCHANGED <<modes, wkey, wfirst, arrived, readerVars, zeroAt>>
  BY DEF Break
<1>3. Sealed' = Sealed /\ Sealed \in Nat
  <2>1. Sealed \in Nat /\ Sealed - 0 = Sealed
    BY <1>1, SealedTyped
  <2>2. QED BY <1>2, <2>1 DEF Sealed
<1>4. FramingTypes'
  <2>1. WriterTypes'
    BY <1>1, <1>2, <1>3 DEF WriterTypes
  <2>2. <<>> \in Seq(Cells)
    OBVIOUS
  <2>3. PipeTypes'
    BY <1>1, <1>2, <2>2 DEF PipeTypes
  <2>4. ModeTypes' /\ ReaderTypes'
    BY <1>1, <1>2 DEF FramingTypes, ModeTypes, ReaderTypes, modes, readerVars, Obfs
  <2>5. QED BY <2>1, <2>3, <2>4 DEF FramingTypes
<1>5. WriterInv' /\ ReaderInv'
  BY <1>2, <1>3 DEF FramingInv, WriterInv, ReaderInv, Bytes, modes, readerVars
<1>6. EndInv'
  <2>1. fin => Sealed = written
    <3>1. fin => todo = 0
      BY DEF FramingInv, WriterInv
    <3>2. written - 0 = written
      BY <1>1 DEF WriterTypes
    <3>3. QED BY <3>1, <3>2 DEF Sealed
  <2>2. QED BY <1>2, <2>1 DEF FramingInv, EndInv, HeaderSplit, modes, readerVars
<1>7. ASSUME end' = "open" PROVE PipeInv'
  <2>1. PICK s \in Legal, m \in Legal : AtReader(s) /\ Parse(Legal, First(Len(arrived)), s, m)
    <3>1. Len(arrived) \in 0..Len(arrived) /\ end = "open"
      BY <1>1, <1>2, <1>7 DEF readerVars
    <3>2. QED BY <3>1, ReaderFinds
  <2>2. First(Len(arrived)) = arrived /\ Pipe' = arrived
    BY <1>1, <1>2, ConcatEmptySeq DEF First, Pipe
  <2>3. Legal \subseteq Legal'
    BY <1>2, <1>3 DEF Legal, modes
  <2>4. Parse(Legal', Pipe', s, m)
    BY <2>1, <2>2, <2>3, ParseWider
  <2>5. AtReader(s)'
    BY <1>2, <2>1 DEF AtReader, modes, readerVars
  <2>6. QED BY <1>2, <2>4, <2>5, PipeNext
<1>8. QED BY <1>4, <1>5, <1>6, <1>7 DEF FramingInv

LEMMA FramingStutters == FramingInv /\ UNCHANGED vars => FramingInv'
<1> SUFFICES ASSUME FramingInv, UNCHANGED vars PROVE FramingInv'
  OBVIOUS
<1>1. UNCHANGED <<modes, writerVars, wire, fin, broken, arrived, readerVars>>
  BY DEF vars
<1>2. FramingTypes'
  BY <1>1 DEF FramingInv, FramingTypes, ModeTypes, WriterTypes, PipeTypes, ReaderTypes, modes, writerVars, readerVars, Obfs
<1>3. Sealed' = Sealed /\ Legal' = Legal /\ Pipe' = Pipe
  BY <1>1 DEF Sealed, Legal, Pipe, modes, writerVars
<1>4. WriterInv' /\ ReaderInv' /\ EndInv'
  BY <1>1, <1>3 DEF FramingInv, WriterInv, ReaderInv, EndInv, HeaderSplit, Bytes, modes, writerVars, readerVars
<1>5. ASSUME end' = "open" PROVE PipeInv'
  <2>1. PICK s \in Legal, t \in Legal : Parse(Legal, Pipe, s, t) /\ AtReader(s) /\ (~broken => AtWriter(t))
    BY <1>1, <1>5 DEF FramingInv, PipeInv, readerVars
  <2>2. AtReader(s)' /\ (~broken' => AtWriter(t)')
    BY <1>1, <1>3, <2>1 DEF AtReader, AtWriter, Rests, modes, writerVars, readerVars
  <2>3. QED BY <1>1, <1>3, <2>1, <2>2, PipeNext
<1>6. QED BY <1>2, <1>4, <1>5 DEF FramingInv

(* A reader that took k cells goes on, or has come to an end.              *)
LEMMA ReaderGoesOn ==
  ASSUME FramingInv, UNCHANGED <<modes, writerVars, wire, fin, broken>>,
         NEW k \in 0..Len(arrived), Take(k), NEW m, NEW t,
         Parse(Legal, SubSeq(Pipe, k + 1, Len(Pipe)), m, t), ~broken => AtWriter(t), AtReader(m)', end' = "open",
         rkey' \in Nat, rfirst' \in BOOLEAN, need' \in Nat, got' \in Seq(Nat), rbuf' \in Seq(Nat),
         got' = Bytes(0, Len(got')), rbuf' = Bytes(Len(got'), Len(rbuf')),
         rbuf' # <<>> => need' = 0 /\ (layer = "aead" \/ (layer = "http" /\ reader = "read"))
  PROVE  FramingInv'
<1>1. FramingTypes /\ PipeTypes /\ Pipe \in Seq(Cells) /\ Len(Pipe) = Len(arrived) + Len(wire)
  BY PipeTyped DEF FramingInv, FramingTypes
<1>2. arrived' \in Seq(Cells)
  BY <1>1 DEF Take, PipeTypes
<1>3. FramingTypes'
  BY <1>1, <1>2 DEF FramingTypes, ModeTypes, WriterTypes, PipeTypes, ReaderTypes, modes, writerVars, Obfs
<1>4. Sealed' = Sealed
  BY DEF Sealed, writerVars
<1>5. m \in Legal
  <2>1. SubSeq(Pipe, k + 1, Len(Pipe)) \in Seq(Cells)
    BY <1>1 DEF PipeTypes
  <2>2. QED BY <2>1, ParseEnds
<1>6. ReaderInv'
  <2>1. Len(got') + Len(rbuf') = m.byte /\ m.byte <= Sealed
    BY <1>5 DEF AtReader, Legal
  <2>2. ReaderInv' <=> /\ got' = Bytes(0, Len(got')) /\ rbuf' = Bytes(Len(got'), Len(rbuf'))
                       /\ Len(got') + Len(rbuf') <= Sealed'
                       /\ rbuf' # <<>> => need' = 0 /\ (layer' = "aead" \/ (layer' = "http" /\ reader' = "read"))
    BY DEF ReaderInv, Bytes
  <2>3. QED BY <1>4, <2>1, <2>2 DEF modes
<1>7. WriterInv' /\ EndInv'
  BY DEF FramingInv, WriterInv, EndInv, modes, writerVars
<1>8. PipeInv'
  BY <1>1, ReaderTook
<1>9. QED BY <1>3, <1>6, <1>7, <1>8 DEF FramingInv

LEMMA NothingBuffered ==
  /\ \A q \in Seq(Nat) : Len(q) \in Nat /\ (Len(q) = 0 => q = <<>>)
  /\ <<>> \in Seq(Nat) /\ <<>> \in Seq(Cells) /\ Len(<<>>) = 0
  /\ \A a \in Nat : Bytes(a, 0) = <<>> /\ a + 0 = a
BY DEF Bytes

LEMMA ReaderStops ==
  ASSUME FramingInv, UNCHANGED <<modes, writerVars, wire, fin, broken>>, arrived' \in Seq(Cells),
         end' \in {"zero chunk", "eof", "unexpected eof", "overwritten"}, EndInv',
         rkey' \in Nat, rfirst' \in BOOLEAN, need' \in Nat, got' \in Seq(Nat), rbuf' = <<>>,
         got' = Bytes(0, Len(got')), Len(got') <= Sealed
  PROVE  FramingInv'
<1>1. FramingTypes /\ PipeTypes /\ rbuf' \in Seq(Nat)
  <2>1. <<>> \in Seq(Nat)
    BY NothingBuffered
  <2>2. QED BY <2>1 DEF FramingInv, FramingTypes
<1>2. FramingTypes'
  BY <1>1 DEF FramingTypes, ModeTypes, WriterTypes, PipeTypes, ReaderTypes, modes, writerVars, Obfs
<1>3. Sealed' = Sealed
  BY DEF Sealed, writerVars
<1>4. ReaderInv'
  <2>1. Len(rbuf') = 0 /\ Len(got') \in Nat
    BY NothingBuffered, Zenon
  <2>2. rbuf' = Bytes(Len(got'), Len(rbuf')) /\ Len(got') + Len(rbuf') = Len(got')
    BY <2>1, NothingBuffered
  <2>3. ReaderInv' <=> /\ got' = Bytes(0, Len(got')) /\ rbuf' = Bytes(Len(got'), Len(rbuf'))
                       /\ Len(got') + Len(rbuf') <= Sealed'
                       /\ rbuf' # <<>> => need' = 0 /\ (layer' = "aead" \/ (layer' = "http" /\ reader' = "read"))
    BY DEF ReaderInv, Bytes
  <2>4. QED BY <1>3, <2>2, <2>3
<1>5. WriterInv' /\ end' # "open"
  BY DEF FramingInv, WriterInv, modes, writerVars
<1>6. QED BY <1>2, <1>4, <1>5 DEF FramingInv

-----------------------------------------------------------------------------
(* What the readers take.                                                  *)

LEMMA CapacityTyped == \A c \in Capacities : c \in Nat
BY FramingAssumption DEF Capacities

LEMMA SumTyped == \A m, n \in Nat : m + n \in Nat /\ m + 1 \in Nat
OBVIOUS

LEMMA TakeTyped ==
  ASSUME PipeTypes, NEW k \in 0..Len(arrived), Take(k) PROVE arrived' \in Seq(Cells)
BY DEF Take, PipeTypes

(* Its next cell ...                                                       *)
LEMMA FindsOne ==
  ASSUME FramingInv, end = "open", arrived # <<>>
  PROVE  /\ 1 \in 0..Len(arrived) /\ Head(arrived) = arrived[1] /\ arrived[1] \in Cells
         /\ \E s, m, t \in Legal :
              /\ AtReader(s) /\ Leads(s, arrived[1], m)
              /\ Parse(Legal, SubSeq(Pipe, 1 + 1, Len(Pipe)), m, t) /\ (~broken => AtWriter(t))
<1>1. PipeTypes
  BY DEF FramingInv, FramingTypes
<1>2. 1 \in 0..Len(arrived) /\ Head(arrived) = arrived[1] /\ arrived[1] \in Cells
  BY <1>1 DEF PipeTypes
<1>3. PICK s, v, m, t \in Legal :
        /\ AtReader(s) /\ Parse(Legal, First(1), s, v) /\ Parse(Legal, SubSeq(arrived, 1 + 1, 1), v, m)
        /\ Parse(Legal, SubSeq(Pipe, 1 + 1, Len(Pipe)), m, t) /\ (~broken => AtWriter(t))
  BY <1>2, ReaderFinds
<1>4. First(1) \in Seq(Cells) /\ Len(First(1)) = 1 /\ First(1)[1] = arrived[1]
  BY <1>1, <1>2 DEF First, PipeTypes
<1>5. Leads(s, arrived[1], v)
  BY <1>3, <1>4, ParsedOne
<1>6. SubSeq(arrived, 1 + 1, 1) = <<>> /\ <<>> \in Seq(Cells)
  BY <1>1, <1>2 DEF PipeTypes
<1>7. m = v
  <2>1. Parse(Legal, <<>>, v, m)
    BY <1>3, <1>6
  <2>2. QED BY <1>6, <2>1, ParseEnds, Zenon
<1>8. QED BY <1>2, <1>3, <1>5, <1>7

(* ... k cells, ...                                                        *)
LEMMA FindsSome ==
  ASSUME FramingInv, end = "open", NEW k \in 0..Len(arrived)
  PROVE  \E s, m, t \in Legal :
           /\ AtReader(s) /\ Parse(Legal, SubSeq(arrived, 0 + 1, k), s, m)
           /\ Parse(Legal, SubSeq(Pipe, k + 1, Len(Pipe)), m, t) /\ (~broken => AtWriter(t))
<1>1. PipeTypes
  BY DEF FramingInv, FramingTypes
<1>2. 0 \in 0..k
  BY <1>1 DEF PipeTypes
<1>3. PICK s, v, m, t \in Legal :
        /\ AtReader(s) /\ Parse(Legal, First(0), s, v) /\ Parse(Legal, SubSeq(arrived, 0 + 1, k), v, m)
        /\ Parse(Legal, SubSeq(Pipe, k + 1, Len(Pipe)), m, t) /\ (~broken => AtWriter(t))
  BY <1>2, ReaderFinds
<1>4. First(0) = <<>> /\ <<>> \in Seq(Cells)
  BY <1>1 DEF First, PipeTypes
<1>5. v = s
  BY <1>3, <1>4, ParseEnds
<1>6. QED BY <1>3, <1>5

(* ... or the two cells of a head, and what follows them.                  *)
LEMMA FindsHead ==
  ASSUME FramingInv, end = "open", NEW k \in 2..Len(arrived)
  PROVE  /\ arrived[1] \in Cells /\ arrived[2] \in Cells
         /\ \E s, u, v, m, t \in Legal :
              /\ AtReader(s) /\ Leads(s, arrived[1], u) /\ Leads(u, arrived[2], v)
              /\ Parse(Legal, SubSeq(arrived, 2 + 1, k), v, m)
              /\ Parse(Legal, SubSeq(Pipe, k + 1, Len(Pipe)), m, t) /\ (~broken => AtWriter(t))
<1>1. PipeTypes
  BY DEF FramingInv, FramingTypes
<1>2. 2 \in 0..k /\ k \in 0..Len(arrived) /\ arrived[1] \in Cells /\ arrived[2] \in Cells
  BY <1>1 DEF PipeTypes
<1>3. PICK s, v, m, t \in Legal :
        /\ AtReader(s) /\ Parse(Legal, First(2), s, v) /\ Parse(Legal, SubSeq(arrived, 2 + 1, k), v, m)
        /\ Parse(Legal, SubSeq(Pipe, k + 1, Len(Pipe)), m, t) /\ (~broken => AtWriter(t))
  BY <1>2, ReaderFinds
<1>4. First(2) \in Seq(Cells) /\ Len(First(2)) = 2 /\ First(2)[1] = arrived[1] /\ First(2)[2] = arrived[2]
  <2>1. 2 \in 0..Len(arrived)
    BY <1>1, <1>2 DEF PipeTypes
  <2>2. QED BY <1>1, <2>1 DEF First, PipeTypes
<1>5. PICK u \in Legal : Leads(s, arrived[1], u) /\ Leads(u, arrived[2], v)
  BY <1>3, <1>4, ParsedTwo
<1>6. QED BY <1>2, <1>3, <1>5

LEMMA InitReaderStep == FramingInv /\ (InitAeadReader \/ InitStreamReader) => FramingInv'
<1> SUFFICES ASSUME FramingInv, InitAeadReader \/ InitStreamReader PROVE FramingInv'
  OBVIOUS
<1>1. ReaderTypes /\ ReaderInv
  BY DEF FramingInv, FramingTypes
<1>2. /\ layer \in {"aead", "stream"} /\ end = "open" /\ rfirst /\ arrived # <<>> /\ Take(1) /\ rfirst' = FALSE
      /\ UNCHANGED <<modes, writerVars, wire, fin, broken, rkey, need, rbuf, got, end>>
  BY DEF InitAeadReader, InitStreamReader, Reading
<1>3. PICK s, m, t \in Legal :
        /\ AtReader(s) /\ Leads(s, arrived[1], m)
        /\ Parse(Legal, SubSeq(Pipe, 1 + 1, Len(Pipe)), m, t) /\ (~broken => AtWriter(t))
  BY <1>2, FindsOne
<1>4. s.phase = "open" /\ s.left = 0
  BY <1>2, <1>3 DEF AtReader, Legal
<1>5. m = State(IF layer = "aead" THEN "head" ELSE "data", s.key, 0, s.byte)
  BY <1>2, <1>3, <1>4 DEF Leads, DataLeads, AeadLeads, StreamLeads
<1>6. AtReader(m)'
  BY <1>1, <1>2, <1>3, <1>4, <1>5 DEF AtReader, State, modes
<1>7. /\ got' = Bytes(0, Len(got')) /\ rbuf' = Bytes(Len(got'), Len(rbuf'))
      /\ rbuf' # <<>> => need' = 0 /\ (layer = "aead" \/ (layer = "http" /\ reader = "read"))
      /\ end' = "open" /\ rkey' \in Nat /\ rfirst' \in BOOLEAN /\ need' \in Nat /\ got' \in Seq(Nat) /\ rbuf' \in Seq(Nat)
  BY <1>1, <1>2 DEF ReaderTypes, ReaderInv
<1>8. 1 \in 0..Len(arrived)
  BY <1>2, FindsOne
<1>9. QED BY <1>2, <1>3, <1>6, <1>7, <1>8, ReaderGoesOn

LEMMA AeadReadSizeStep == FramingInv /\ AeadReadSize => FramingInv'
<1> SUFFICES ASSUME FramingInv, AeadReadSize PROVE FramingInv'
  OBVIOUS
<1>1. WriterTypes /\ PipeTypes /\ ReaderTypes /\ ReaderInv /\ WriterInv
  BY DEF FramingInv, FramingTypes
<1>2. /\ layer = "aead" /\ end = "open" /\ ~rfirst /\ rbuf = <<>> /\ need = 0 /\ arrived # <<>> /\ Take(1)
      /\ rkey' = rkey + 1 /\ need' = Head(arrived).n
      /\ end' = IF Head(arrived).t # "size" \/ Head(arrived).k # rkey THEN "garbled"
                ELSE IF Head(arrived).n = 0 THEN "zero chunk" ELSE "open"
      /\ UNCHANGED <<modes, writerVars, wire, fin, broken, rfirst, rbuf, got>>
  BY DEF AeadReadSize, Reading
<1>3. PICK s, m, t \in Legal :
        /\ AtReader(s) /\ Leads(s, arrived[1], m)
        /\ Parse(Legal, SubSeq(Pipe, 1 + 1, Len(Pipe)), m, t) /\ (~broken => AtWriter(t))
  BY <1>2, FindsOne
<1> DEFINE c == arrived[1]
<1>4. 1 \in 0..Len(arrived) /\ Head(arrived) = c /\ c.n \in Nat
  BY <1>2, FindsOne DEF Cells
<1>5. s.phase = "head" /\ s.key = rkey /\ s.byte = Len(got)
  <2>1. s.byte = Len(got) + Len(rbuf) /\ Len(rbuf) = 0 /\ Len(got) \in Nat
    BY <1>1, <1>2, <1>3, NothingBuffered, Zenon DEF AtReader, ReaderTypes
  <2>2. s.phase = "head" /\ s.key = rkey
    BY <1>2, <1>3 DEF AtReader
  <2>3. QED BY <2>1, <2>2
<1> HIDE DEF c
<1>6. c.t = "size" /\ c.k = rkey /\ m = State(IF c.n = 0 THEN "lost" ELSE "data", rkey + 1, c.n, s.byte)
  BY <1>2, <1>3, <1>5 DEF Leads, DataLeads, AeadLeads, c
<1>7. /\ rkey' \in Nat /\ rfirst' \in BOOLEAN /\ need' \in Nat /\ got' \in Seq(Nat) /\ rbuf' \in Seq(Nat) /\ rbuf' = <<>>
      /\ got' = Bytes(0, Len(got')) /\ rbuf' = Bytes(Len(got'), Len(rbuf'))
  <2>1. rkey' \in Nat
    BY <1>1, <1>2, SumTyped, Zenon DEF ReaderTypes
  <2>2. QED BY <1>1, <1>2, <1>4, <2>1, Zenon DEF ReaderTypes, ReaderInv
<1>8. CASE c.n = 0
  <2>1. end' = "zero chunk"
    BY <1>2, <1>4, <1>6, <1>8
  <2>2. m.phase = "lost" /\ m.byte = s.byte
    BY <1>6, <1>8 DEF State
  <2>3. Len(got) \in zeroAt /\ Len(got) <= Sealed /\ (writer = "readFrom" => fin /\ Len(got) = Sealed)
    BY <1>2, <1>5, <2>2 DEF Legal
  <2>4. writer = "readFrom" => Sealed = written
    <3>1. writer = "readFrom" => todo = 0 /\ written - 0 = written
      BY <1>1 DEF WriterInv, WriterTypes
    <3>2. QED BY <3>1 DEF Sealed
  <2>5. EndInv'
    BY <1>2, <2>1, <2>3, <2>4 DEF EndInv, modes, writerVars
  <2>6. Len(got') <= Sealed
    BY <1>2, <2>3
  <2>7. arrived' \in Seq(Cells)
    BY <1>1, <1>2, <1>4, TakeTyped, Zenon
  <2>8. QED BY <1>2, <1>7, <2>1, <2>5, <2>6, <2>7, ReaderStops
<1>9. CASE c.n > 0
  <2> c.n # 0
    BY <1>4, <1>9
  <2>1. end' = "open" /\ need' = c.n /\ need' # 0
    BY <1>2, <1>4, <1>6, Zenon
  <2>2. AtReader(m)'
    BY <1>1, <1>2, <1>3, <1>5, <1>6, <1>9, <2>1 DEF AtReader, State, modes
  <2>3. QED BY <1>2, <1>3, <1>4, <1>7, <2>1, <2>2, ReaderGoesOn
<1>10. QED BY <1>4, <1>8, <1>9

(* Read or WriteTo gets what comes next of the stream.                     *)
LEMMA ReturnsTyped ==
  ASSUME ReaderTypes, ReaderInv, NEW n \in Nat, NEW ready, ready = Bytes(Len(got), n), Returns(ready)
  PROVE  /\ got' \in Seq(Nat) /\ rbuf' \in Seq(Nat)
         /\ got' = Bytes(0, Len(got')) /\ rbuf' = Bytes(Len(got'), Len(rbuf'))
         /\ Len(got') + Len(rbuf') = Len(got) + n
BY ReturnsInOrder DEF ReaderTypes, ReaderInv

LEMMA AeadReadPayloadStep == FramingInv /\ AeadReadPayload => FramingInv'
<1> SUFFICES ASSUME FramingInv, AeadReadPayload PROVE FramingInv'
  OBVIOUS
<1>1. FramingTypes /\ PipeTypes /\ ReaderTypes /\ ReaderInv
  BY DEF FramingInv, FramingTypes
<1>2. /\ layer = "aead" /\ end = "open" /\ need > 0 /\ Len(arrived) > need /\ Take(need + 1)
      /\ rkey' = rkey + 1 /\ need' = 0
      /\ IF \A i \in 1..need + 1 : arrived[i].k = rkey
         THEN Returns(Numbers(First(need))) /\ UNCHANGED end
         ELSE end' = "garbled" /\ UNCHANGED <<got, rbuf>>
      /\ UNCHANGED <<modes, writerVars, wire, fin, broken, rfirst>>
  BY DEF AeadReadPayload, Reading
<1>3. need \in Nat /\ need # 0 /\ need + 1 \in 0..Len(arrived) /\ need \in 0..need + 1 /\ need \in 0..Len(arrived)
  BY <1>1, <1>2 DEF ReaderTypes, PipeTypes
<1>4. PICK s, v, m, t \in Legal :
        /\ AtReader(s) /\ Parse(Legal, First(need), s, v) /\ Parse(Legal, SubSeq(arrived, need + 1, need + 1), v, m)
        /\ Parse(Legal, SubSeq(Pipe, (need + 1) + 1, Len(Pipe)), m, t) /\ (~broken => AtWriter(t))
  BY <1>2, <1>3, ReaderFinds
<1>5. rbuf = <<>> /\ Len(rbuf) = 0 /\ Len(got) \in Nat
  BY <1>1, <1>3, NothingBuffered, Zenon DEF ReaderInv, ReaderTypes
<1>6. s.key = rkey /\ s.left = need /\ s.byte = Len(got) /\ s.phase = "data" /\ rfirst = FALSE
  <2>1. s.byte = Len(got) + 0 /\ Len(got) + 0 = Len(got)
    BY <1>4, <1>5 DEF AtReader
  <2>2. s.phase = "data"
    BY <1>2, <1>3, <1>4 DEF AtReader, Legal
  <2>3. QED BY <1>1, <1>2, <1>3, <1>4, <2>1, <2>2 DEF AtReader, ReaderTypes
<1>7. /\ v = DataState(s, need) /\ Numbers(First(need)) = Bytes(Len(got), need)
      /\ \A i \in 1..need : arrived[i] = DataCell(s, i)
  <2>1. First(need) \in Seq(Cells) /\ Len(First(need)) = need /\ \A i \in 1..need : First(need)[i] = arrived[i]
    BY <1>1, <1>3 DEF First, PipeTypes
  <2>2. Len(First(need)) <= s.left
    BY <1>3, <1>6, <2>1
  <2>3. v = DataState(s, need) /\ \A i \in 1..need : First(need)[i] = DataCell(s, i)
    BY <1>1, <1>4, <1>6, <2>1, <2>2, ParsedData, LegalStates DEF FramingTypes
  <2>4. Numbers(First(need)) = Bytes(s.byte, need)
    BY <2>1, <2>3, NumbersOfData, LegalStates
  <2>5. QED BY <1>6, <2>1, <2>3, <2>4
<1>8. v.phase = "data" /\ v.left = 0 /\ v.key = rkey /\ v.byte = Len(got) + need
  BY <1>2, <1>3, <1>6, <1>7 DEF DataState, State
<1>9. arrived[need + 1].k = rkey /\ m = State("head", rkey + 1, 0, Len(got) + need)
  <2> DEFINE tag == SubSeq(arrived, need + 1, need + 1)
  <2>1. tag \in Seq(Cells) /\ Len(tag) = 1 /\ tag[1] = arrived[need + 1]
    BY <1>1, <1>3 DEF PipeTypes
  <2>2. Leads(v, tag[1], m)
    BY <1>4, <2>1, ParsedOne
  <2>3. ~DataLeads(v, tag[1], m)
    BY <1>2, <1>8 DEF DataLeads, Counted
  <2>4. QED BY <1>2, <1>8, <2>1, <2>2, <2>3 DEF Leads, AeadLeads
<1>10. ASSUME NEW i \in 1..need PROVE arrived[i].k = rkey
  <2>1. arrived[i] = DataCell(s, i) /\ layer # "stream"
    BY <1>2, <1>7
  <2>2. QED BY <1>2, <1>6, <2>1 DEF DataCell, Cell
<1>11. \A i \in 1..need + 1 : arrived[i].k = rkey
  BY <1>3, <1>9, <1>10
<1>12. Returns(Numbers(First(need))) /\ end' = "open"
  BY <1>2, <1>11
<1>13. /\ got' \in Seq(Nat) /\ rbuf' \in Seq(Nat)
       /\ got' = Bytes(0, Len(got')) /\ rbuf' = Bytes(Len(got'), Len(rbuf'))
       /\ Len(got') + Len(rbuf') = Len(got) + need
  BY <1>1, <1>3, <1>7, <1>12, ReturnsTyped
<1>14. AtReader(m)'
  BY <1>2, <1>6, <1>9, <1>13 DEF AtReader, State, modes
<1>15. rkey' \in Nat /\ rfirst' \in BOOLEAN /\ need' \in Nat
  BY <1>1, <1>2, SumTyped, Zenon DEF ReaderTypes
<1>16. QED BY <1>2, <1>3, <1>4, <1>12, <1>13, <1>14, <1>15, ReaderGoesOn

(* What an earlier Read has left, or HTTPObfs read with the header.        *)
LEMMA ReadBufferedStep == FramingInv /\ (ReadBuffered \/ HTTPReadBuffered) => FramingInv'
<1> SUFFICES ASSUME FramingInv, ReadBuffered \/ HTTPReadBuffered PROVE FramingInv'
  OBVIOUS
<1>1. FramingTypes /\ PipeTypes /\ ReaderTypes /\ ReaderInv
  BY DEF FramingInv, FramingTypes
<1>2. /\ layer = "aead" \/ (layer = "http" /\ reader = "read")
      /\ end = "open" /\ rbuf # <<>> /\ Returns(rbuf)
      /\ UNCHANGED <<modes, writerVars, wire, fin, broken, arrived, rkey, rfirst, need, end>>
  BY DEF ReadBuffered, HTTPReadBuffered, Reading
<1>3. PICK s, m, t \in Legal :
        /\ AtReader(s) /\ Parse(Legal, SubSeq(arrived, 0 + 1, 0), s, m)
        /\ Parse(Legal, SubSeq(Pipe, 0 + 1, Len(Pipe)), m, t) /\ (~broken => AtWriter(t))
  <2>1. 0 \in 0..Len(arrived)
    BY <1>1 DEF PipeTypes
  <2>2. QED BY <1>2, <2>1, FindsSome
<1>4. m = s
  <2>1. SubSeq(arrived, 0 + 1, 0) = <<>>
    BY <1>1 DEF PipeTypes
  <2>2. Parse(Legal, <<>>, s, m)
    BY <1>3, <2>1
  <2>3. QED BY <2>2, NothingBuffered, ParseEnds, Zenon
<1>5. need = 0 /\ rbuf = Bytes(Len(got), Len(rbuf)) /\ Len(rbuf) \in Nat
  BY <1>1, <1>2, NothingBuffered, Zenon DEF ReaderInv, ReaderTypes
<1>6. /\ got' \in Seq(Nat) /\ rbuf' \in Seq(Nat)
      /\ got' = Bytes(0, Len(got')) /\ rbuf' = Bytes(Len(got'), Len(rbuf'))
      /\ Len(got') + Len(rbuf') = Len(got) + Len(rbuf)
  BY <1>1, <1>2, <1>5, ReturnsTyped
<1>7. AtReader(m)'
  BY <1>2, <1>3, <1>4, <1>6 DEF AtReader, modes
<1>8. 0 \in 0..Len(arrived) /\ Take(0)
  <2>1. SubSeq(arrived, 0 + 1, Len(arrived)) = arrived /\ 0 \in 0..Len(arrived)
    BY <1>1 DEF PipeTypes
  <2>2. QED BY <1>2, <2>1 DEF Take
<1>9. rkey' \in Nat /\ rfirst' \in BOOLEAN /\ need' \in Nat /\ need' = 0 /\ end' = "open"
  BY <1>1, <1>2, <1>5 DEF ReaderTypes
<1>10. QED BY <1>2, <1>3, <1>6, <1>7, <1>8, <1>9, ReaderGoesOn

(* The key of the i-th byte of a key stream from state s on.               *)
LEMMA StreamKeys ==
  ASSUME NEW s, layer = "stream", NEW i, arrived[i] = DataCell(s, i)
  PROVE  arrived[i].k = s.key + i /\ arrived[i].n = s.byte + i
BY DEF DataCell, Cell

LEMMA StreamReadStep == FramingInv /\ StreamRead => FramingInv'
<1> SUFFICES ASSUME FramingInv, StreamRead PROVE FramingInv'
  OBVIOUS
<1>1. FramingTypes /\ PipeTypes /\ ReaderTypes /\ ReaderInv
  BY DEF FramingInv, FramingTypes
<1>2. PICK n \in 1..Least(Len(arrived), MaxRecord + 1) :
        /\ layer = "stream" /\ end = "open" /\ ~rfirst /\ Take(n) /\ rkey' = rkey + n
        /\ got' = got \o [i \in 1..n |-> IF arrived[i].k = rkey + i THEN arrived[i].n ELSE 0]
        /\ UNCHANGED <<modes, writerVars, wire, fin, broken, rfirst, need, rbuf, end>>
  BY DEF StreamRead, Reading
<1>3. n \in Nat /\ n \in 0..Len(arrived)
  BY <1>1, FramingAssumption DEF Least, PipeTypes
<1>4. PICK s, m, t \in Legal :
        /\ AtReader(s) /\ Parse(Legal, SubSeq(arrived, 0 + 1, n), s, m)
        /\ Parse(Legal, SubSeq(Pipe, n + 1, Len(Pipe)), m, t) /\ (~broken => AtWriter(t))
  BY <1>2, <1>3, FindsSome
<1>5. rbuf = <<>> /\ Len(rbuf) = 0 /\ Len(got) \in Nat
  BY <1>1, <1>2, NothingBuffered, Zenon DEF ReaderInv, ReaderTypes
<1>6. s.key = rkey /\ s.byte = Len(got) /\ s.phase = "data" /\ s.left = 0 /\ need = 0
  <2>1. s.byte = Len(got) + 0 /\ Len(got) + 0 = Len(got)
    BY <1>4, <1>5 DEF AtReader
  <2>2. QED BY <1>2, <1>4, <2>1 DEF AtReader
<1>7. m = DataState(s, n) /\ \A i \in 1..n : arrived[i] = DataCell(s, i)
  <2>1. ~Counted /\ n \in 0..Len(arrived)
    BY <1>2, <1>3 DEF Counted
  <2>2. QED BY <1>1, <1>4, <1>6, <2>1, FirstData
<1>8. [i \in 1..n |-> IF arrived[i].k = rkey + i THEN arrived[i].n ELSE 0] = Bytes(Len(got), n)
  <2>1. ASSUME NEW i \in 1..n PROVE arrived[i].k = rkey + i /\ arrived[i].n = Len(got) + i
    <3>1. arrived[i] = DataCell(s, i)
      BY <1>7
    <3>2. QED BY <1>2, <1>6, <3>1, StreamKeys
  <2>2. QED BY <2>1 DEF Bytes
<1>9. got' \in Seq(Nat) /\ Len(got') = Len(got) + n /\ got' = Bytes(0, Len(got'))
  BY <1>1, <1>2, <1>3, <1>8, GotMore DEF ReaderTypes, ReaderInv
<1>10. rbuf' = <<>> /\ Len(rbuf') = 0 /\ rbuf' = Bytes(Len(got'), Len(rbuf')) /\ Len(got') + Len(rbuf') = Len(got) + n
  <2>1. Len(got') \in Nat /\ rbuf' = <<>> /\ Len(rbuf') = 0
    BY <1>2, <1>5, <1>9, NothingBuffered, Zenon
  <2>2. Bytes(Len(got'), 0) = <<>> /\ Len(got') + 0 = Len(got')
    BY <2>1, NothingBuffered, Zenon
  <2>3. QED BY <1>9, <2>1, <2>2
<1>11. AtReader(m)'
  <2>1. m.phase = "data" /\ m.key = rkey + n /\ m.byte = Len(got) + n
    BY <1>2, <1>6, <1>7 DEF DataState, State
  <2>2. m.left = need
    BY <1>3, <1>6, <1>7 DEF DataState, State
  <2>3. QED BY <1>2, <1>6, <1>10, <2>1, <2>2 DEF AtReader, modes
<1>12. rkey' \in Nat /\ rfirst' \in BOOLEAN /\ need' \in Nat /\ end' = "open" /\ rbuf' \in Seq(Nat)
  BY <1>1, <1>2, <1>3, SumTyped, Zenon DEF ReaderTypes
<1>13. QED BY <1>2, <1>3, <1>4, <1>9, <1>10, <1>11, <1>12, ReaderGoesOn

(* Nothing was left to return, and nothing is left now.                    *)
LEMMA GotBytes ==
  ASSUME ReaderTypes, ReaderInv, rbuf = <<>>, rbuf' = <<>>, NEW n \in Nat, NEW ready, ready = Bytes(Len(got), n),
         got' = got \o ready
  PROVE  /\ got' \in Seq(Nat) /\ rbuf' \in Seq(Nat)
         /\ got' = Bytes(0, Len(got')) /\ rbuf' = Bytes(Len(got'), Len(rbuf'))
         /\ Len(got') = Len(got) + n /\ Len(got') + Len(rbuf') = Len(got) + n
<1>1. got' \in Seq(Nat) /\ Len(got') = Len(got) + n /\ got' = Bytes(0, Len(got'))
  BY GotMore DEF ReaderTypes, ReaderInv
<1>2. Len(got') \in Nat /\ rbuf' = <<>> /\ Len(rbuf') = 0
  BY <1>1, NothingBuffered, Zenon
<1>3. Bytes(Len(got'), 0) = <<>> /\ Len(got') + 0 = Len(got')
  BY <1>2, NothingBuffered, Zenon
<1>4. rbuf' \in Seq(Nat)
  BY NothingBuffered, Zenon
<1>5. QED BY <1>1, <1>2, <1>3, <1>4

LEMMA NoneBuffered ==
  ASSUME ReaderTypes, rbuf = <<>>, NEW s, AtReader(s) PROVE s.byte = Len(got) /\ Len(got) \in Nat
<1>1. s.byte = Len(got) + 0 /\ Len(got) + 0 = Len(got) /\ Len(got) \in Nat
  BY NothingBuffered, Zenon DEF AtReader, ReaderTypes
<1>2. QED BY <1>1

LEMMA HTTPReadStep == FramingInv /\ HTTPRead => FramingInv'
<1> SUFFICES ASSUME FramingInv, HTTPRead PROVE FramingInv'
  OBVIOUS
<1>1. FramingTypes /\ PipeTypes /\ ReaderTypes /\ ReaderInv
  BY DEF FramingInv, FramingTypes
<1>2. PICK n \in 1..Least(Len(arrived), MaxRecord + 1) :
        /\ layer = "http" /\ reader = "read" /\ end = "open" /\ ~rfirst /\ rbuf = <<>> /\ Take(n)
        /\ got' = got \o Numbers(First(n))
        /\ UNCHANGED <<modes, writerVars, wire, fin, broken, rkey, rfirst, need, rbuf, end>>
  BY DEF HTTPRead, Reading
<1>3. n \in Nat /\ n \in 0..Len(arrived)
  BY <1>1, FramingAssumption DEF Least, PipeTypes
<1>4. PICK s, m, t \in Legal :
        /\ AtReader(s) /\ Parse(Legal, SubSeq(arrived, 0 + 1, n), s, m)
        /\ Parse(Legal, SubSeq(Pipe, n + 1, Len(Pipe)), m, t) /\ (~broken => AtWriter(t))
  BY <1>2, <1>3, FindsSome
<1>5. s.phase = "data" /\ s.left = 0 /\ need = 0 /\ s.byte = Len(got)
  <2>1. s.byte = Len(got)
    BY <1>1, <1>2, <1>4, NoneBuffered
  <2>2. QED BY <1>2, <1>4, <2>1 DEF AtReader
<1>6. m = DataState(s, n) /\ m.phase = "data" /\ m.byte = Len(got) + n /\ Numbers(First(n)) = Bytes(Len(got), n)
  <2>1. ~Counted
    BY <1>2 DEF Counted
  <2>2. QED BY <1>1, <1>3, <1>4, <1>5, <2>1, FirstData
<1>7. /\ got' \in Seq(Nat) /\ rbuf' \in Seq(Nat)
      /\ got' = Bytes(0, Len(got')) /\ rbuf' = Bytes(Len(got'), Len(rbuf'))
      /\ Len(got') + Len(rbuf') = Len(got) + n /\ rbuf' = <<>>
  <2>1. rbuf' = <<>>
    BY <1>2
  <2>2. QED BY <1>1, <1>2, <1>3, <1>6, <2>1, GotBytes
<1>8. AtReader(m)'
  <2>1. m.left = 0
    BY <1>3, <1>5, <1>6 DEF DataState, State
  <2>2. QED BY <1>2, <1>5, <1>6, <1>7, <2>1 DEF AtReader, modes
<1>9. rkey' \in Nat /\ rfirst' \in BOOLEAN /\ need' \in Nat /\ end' = "open"
  BY <1>1, <1>2 DEF ReaderTypes
<1>10. QED BY <1>2, <1>3, <1>4, <1>7, <1>8, <1>9, ReaderGoesOn

LEMMA HTTPReadHeaderStep == FramingInv /\ HTTPReadHeader => FramingInv'
<1> SUFFICES ASSUME FramingInv, HTTPReadHeader PROVE FramingInv'
  OBVIOUS
<1>1. FramingTypes /\ PipeTypes /\ ReaderTypes /\ ReaderInv
  BY DEF FramingInv, FramingTypes
<1>2. PICK n \in 1..Len(arrived) :
        /\ layer = "http" /\ reader = "read" /\ end = "open" /\ rfirst /\ rbuf = <<>> /\ Take(n)
        /\ IF n = 1
           THEN end' = "eof" /\ UNCHANGED <<rfirst, got, rbuf>>
           ELSE rfirst' = FALSE /\ Returns(Numbers(SubSeq(arrived, 3, n))) /\ UNCHANGED end
        /\ UNCHANGED <<modes, writerVars, wire, fin, broken, rkey, need>>
  BY DEF HTTPReadHeader, Reading
<1>3. n \in 0..Len(arrived) /\ rkey' \in Nat /\ need' \in Nat
  BY <1>1, <1>2 DEF PipeTypes, ReaderTypes
<1>4. CASE n = 1
  <2>1. end' = "eof" /\ rfirst' = rfirst /\ got' = got /\ rbuf' = <<>>
    BY <1>2, <1>4
  <2>2. EndInv'
    BY <1>2, <2>1 DEF EndInv, HeaderSplit, modes
  <2>3. got' \in Seq(Nat) /\ rfirst' \in BOOLEAN /\ got' = Bytes(0, Len(got'))
    BY <1>1, <2>1, Zenon DEF ReaderTypes, ReaderInv
  <2>4. Len(got') <= Sealed
    <3>1. Len(got) + 0 <= Sealed /\ Len(got) + 0 = Len(got)
      BY <1>1, <1>2, NothingBuffered, Zenon DEF ReaderTypes, ReaderInv
    <3>2. QED BY <2>1, <3>1, Zenon
  <2>5. arrived' \in Seq(Cells)
    BY <1>1, <1>2, <1>3, TakeTyped
  <2>6. QED BY <1>2, <1>3, <2>1, <2>2, <2>3, <2>4, <2>5, ReaderStops
<1>5. CASE n # 1
  <2>1. n \in 2..Len(arrived) /\ 2 \in 0..n /\ n - 2 \in Nat /\ 2 + 1 = 3
    BY <1>1, <1>5 DEF PipeTypes
  <2>2. rfirst' = FALSE /\ Returns(Numbers(SubSeq(arrived, 3, n))) /\ end' = "open"
    BY <1>2, <1>5
  <2>3. PICK s, u, v, m, t \in Legal :
          /\ AtReader(s) /\ Leads(s, arrived[1], u) /\ Leads(u, arrived[2], v)
          /\ Parse(Legal, SubSeq(arrived, 2 + 1, n), v, m)
          /\ Parse(Legal, SubSeq(Pipe, n + 1, Len(Pipe)), m, t) /\ (~broken => AtWriter(t))
    BY <1>2, <2>1, FindsHead
  <2>4. s.phase = "open" /\ need = 0 /\ s.byte = Len(got)
    <3>1. s.byte = Len(got)
      BY <1>1, <1>2, <2>3, NoneBuffered
    <3>2. QED BY <1>2, <2>3, <3>1 DEF AtReader
  <2>5. u = State("len", s.key, 0, s.byte)
    BY <1>2, <2>3, <2>4 DEF Leads, DataLeads, HTTPLeads
  <2>6. u.phase = "len" /\ u.key = s.key /\ u.byte = Len(got)
    BY <2>4, <2>5 DEF State
  <2>7. v = State("data", u.key, 0, u.byte)
    BY <1>2, <2>3, <2>6 DEF Leads, DataLeads, HTTPLeads
  <2>8. v.phase = "data" /\ v.left = 0 /\ v.byte = Len(got)
    BY <2>6, <2>7 DEF State
  <2>9. /\ m = DataState(v, n - 2) /\ m.phase = "data" /\ m.byte = Len(got) + (n - 2)
        /\ Numbers(SubSeq(arrived, 3, n)) = Bytes(Len(got), n - 2)
    <3>1. ~Counted
      BY <1>2 DEF Counted
    <3>2. QED BY <1>1, <2>1, <2>3, <2>8, <3>1, HeadData
  <2>10. /\ got' \in Seq(Nat) /\ rbuf' \in Seq(Nat)
         /\ got' = Bytes(0, Len(got')) /\ rbuf' = Bytes(Len(got'), Len(rbuf'))
         /\ Len(got') + Len(rbuf') = Len(got) + (n - 2)
    BY <1>1, <2>1, <2>2, <2>9, ReturnsTyped
  <2>11. AtReader(m)'
    <3>1. m.left = 0
      BY <2>1, <2>8, <2>9 DEF DataState, State
    <3>2. QED BY <1>2, <2>2, <2>4, <2>9, <2>10, <3>1 DEF AtReader, modes
  <2>12. need' = 0 /\ rfirst' \in BOOLEAN
    BY <1>2, <2>2, <2>4
  <2>13. QED BY <1>2, <1>3, <2>2, <2>3, <2>10, <2>11, <2>12, ReaderGoesOn
<1>6. QED BY <1>4, <1>5

(* TLSObfs: the head of a server's frame ...                               *)
LEMMA FindsFrame ==
  ASSUME FramingInv, end = "open", layer = "tls", reader = "read", need = 0, NEW k \in 2..Len(arrived)
  PROVE  /\ arrived[2].n \in Nat /\ arrived[2].n > 0 /\ rbuf = <<>>
         /\ \E v, m, t \in Legal :
              /\ v.phase = "data" /\ v.left = arrived[2].n /\ v.byte = Len(got)
              /\ Parse(Legal, SubSeq(arrived, 2 + 1, k), v, m)
              /\ Parse(Legal, SubSeq(Pipe, k + 1, Len(Pipe)), m, t) /\ (~broken => AtWriter(t))
<1>1. ReaderTypes /\ ReaderInv
  BY DEF FramingInv, FramingTypes
<1>2. rbuf = <<>>
  BY <1>1 DEF ReaderInv
<1>3. PICK s, u, v, m, t \in Legal :
        /\ AtReader(s) /\ Leads(s, arrived[1], u) /\ Leads(u, arrived[2], v)
        /\ Parse(Legal, SubSeq(arrived, 2 + 1, k), v, m)
        /\ Parse(Legal, SubSeq(Pipe, k + 1, Len(Pipe)), m, t) /\ (~broken => AtWriter(t))
  BY FindsHead
<1>4. s.phase \in {"open", "data"} /\ s.left = 0 /\ s.byte = Len(got)
  <2>1. s.byte = Len(got)
    BY <1>1, <1>2, <1>3, NoneBuffered
  <2>2. QED BY <1>3, <2>1 DEF AtReader
<1>5. u = State("len", s.key, 0, s.byte)
  BY <1>3, <1>4 DEF Leads, DataLeads, Counted, TLSLeads
<1>6. u.phase = "len" /\ u.key = s.key /\ u.byte = Len(got)
  BY <1>4, <1>5 DEF State
<1>7. v = State("data", u.key, arrived[2].n, u.byte) /\ arrived[2].n > 0
  BY <1>3, <1>6 DEF Leads, DataLeads, TLSLeads
<1>8. v.phase = "data" /\ v.left = arrived[2].n /\ v.byte = Len(got)
  BY <1>6, <1>7 DEF State
<1>9. arrived[2].n \in Nat
  BY FindsHead DEF Cells
<1>10. QED BY <1>2, <1>3, <1>7, <1>8, <1>9

(* ... and a frame that ends early.                                        *)
LEMMA FrameBroken ==
  ASSUME FramingTypes, wire = <<>>, NEW m, NEW t, m.phase = "data", m.left > 0,
         Parse(Legal, SubSeq(Pipe, Len(arrived) + 1, Len(Pipe)), m, t), ~broken => AtWriter(t)
  PROVE  broken
<1>1. t = m
  BY NothingLeft
<1>2. QED BY <1>1 DEF AtWriter

(* The reader's caller is told of an end.                                  *)
LEMMA FrameEnds ==
  ASSUME FramingInv, UNCHANGED <<modes, writerVars, wire, fin, broken, rkey, rbuf>>, end' = "unexpected eof", broken,
         NEW k \in 0..Len(arrived), NEW m \in Legal, m.byte = Len(got) + k, rbuf = <<>>,
         arrived' \in Seq(Cells), need' \in Nat, rfirst' \in BOOLEAN,
         got' \in Seq(Nat), got' = Bytes(0, Len(got')), Len(got') = m.byte
  PROVE  FramingInv'
<1>1. EndInv'
  BY DEF EndInv
<1>2. rkey' \in Nat /\ rbuf' = <<>>
  BY DEF FramingInv, FramingTypes, ReaderTypes
<1>3. Len(got') <= Sealed
  BY DEF Legal
<1>4. QED BY <1>1, <1>2, <1>3, ReaderStops

LEMMA TLSReadRestStep == FramingInv /\ TLSReadRest => FramingInv'
<1> SUFFICES ASSUME FramingInv, TLSReadRest PROVE FramingInv'
  OBVIOUS
<1>1. FramingTypes /\ PipeTypes /\ ReaderTypes /\ ReaderInv
  BY DEF FramingInv, FramingTypes
<1>2. PICK c \in Capacities :
        /\ layer = "tls" /\ reader = "read" /\ end = "open" /\ need > 0
        /\ ReadFull(Least(c, need)) /\ need' = need - Least(Least(c, need), Len(arrived))
        /\ UNCHANGED <<modes, writerVars, wire, fin, broken, rkey, rfirst, rbuf>>
  BY DEF TLSReadRest, Reading
<1> DEFINE n == Least(c, need)
           k == Least(n, Len(arrived))
<1>3. c \in Nat /\ need \in Nat /\ Len(arrived) \in Nat
  <2>1. c \in Nat
    BY CapacityTyped, Zenon
  <2>2. Len(arrived) \in Nat
    BY <1>1, PipeTyped, Zenon
  <2>3. QED BY <1>1, <2>1, <2>2, Zenon DEF ReaderTypes
<1>4. n \in Nat /\ n <= need
  BY <1>3 DEF Least
<1> HIDE DEF n
<1>5. k \in Nat /\ k \in 0..Len(arrived) /\ k <= n /\ (k # n => k = Len(arrived) /\ k < n)
  BY <1>3, <1>4 DEF Least
<1> HIDE DEF k
<1>6. /\ k = n \/ NoMore(n)
      /\ got' = got \o Numbers(First(k)) /\ Take(k) /\ need' = need - k
      /\ end' = IF k = n THEN "open" ELSE "unexpected eof"
  BY <1>2 DEF ReadFull, n, k
<1>7. PICK s, m, t \in Legal :
        /\ AtReader(s) /\ Parse(Legal, SubSeq(arrived, 0 + 1, k), s, m)
        /\ Parse(Legal, SubSeq(Pipe, k + 1, Len(Pipe)), m, t) /\ (~broken => AtWriter(t))
  BY <1>2, <1>5, FindsSome
<1>8. rbuf = <<>> /\ rbuf' = <<>>
  BY <1>1, <1>2, <1>3 DEF ReaderInv
<1>9. s.phase = "data" /\ s.left = need /\ s.byte = Len(got)
  <2>1. s.byte = Len(got)
    BY <1>1, <1>7, <1>8, NoneBuffered
  <2>2. s.left # 0
    BY <1>2, <1>3, <1>7 DEF AtReader
  <2>3. QED BY <1>2, <1>7, <2>1, <2>2 DEF AtReader, Legal
<1>10. m.phase = "data" /\ m.left = need - k /\ m.byte = Len(got) + k /\ Numbers(First(k)) = Bytes(Len(got), k)
  <2>1. Counted /\ k <= s.left
    BY <1>2, <1>3, <1>4, <1>5, <1>9 DEF Counted
  <2>2. /\ m.phase = "data" /\ m.byte = s.byte + k /\ (Counted => m.left = s.left - k)
        /\ Numbers(First(k)) = Bytes(s.byte, k)
    BY <1>1, <1>5, <1>7, <1>9, <2>1, FirstData, Zenon
  <2>3. QED BY <1>9, <2>1, <2>2
<1>11. /\ got' \in Seq(Nat) /\ rbuf' \in Seq(Nat)
       /\ got' = Bytes(0, Len(got')) /\ rbuf' = Bytes(Len(got'), Len(rbuf'))
       /\ Len(got') = Len(got) + k /\ Len(got') + Len(rbuf') = Len(got) + k
  BY <1>1, <1>5, <1>6, <1>8, <1>10, GotBytes
<1>12. need' \in Nat /\ need' = need - k /\ rfirst' \in BOOLEAN /\ rkey' \in Nat
  <2>1. need - k \in Nat
    BY <1>3, <1>4, <1>5
  <2>2. QED BY <1>1, <1>2, <1>6, <2>1, Zenon DEF ReaderTypes
<1>13. CASE k = n
  <2>1. end' = "open"
    BY <1>6, <1>13
  <2>2. AtReader(m)'
    BY <1>2, <1>10, <1>11, <1>12 DEF AtReader, modes
  <2>3. QED BY <1>2, <1>5, <1>6, <1>7, <1>8, <1>11, <1>12, <2>1, <2>2, ReaderGoesOn
<1>14. CASE k # n
  <2>1. end' = "unexpected eof" /\ wire = <<>> /\ k = Len(arrived)
    BY <1>5, <1>6, <1>14 DEF NoMore
  <2>2. m.left > 0
    BY <1>3, <1>4, <1>5, <1>10, <1>14
  <2>3. broken
    BY <1>1, <1>7, <1>10, <2>1, <2>2, FrameBroken
  <2>4. arrived' \in Seq(Cells)
    BY <1>1, <1>5, <1>6, TakeTyped
  <2>5. QED BY <1>2, <1>5, <1>8, <1>10, <1>11, <1>12, <2>1, <2>3, <2>4, FrameEnds
<1>15. QED BY <1>13, <1>14

(* The cells of the head and of n bytes, of a cells.                       *)
LEMMA FrameSizes ==
  ASSUME NEW a \in Nat, a > 2, NEW length \in Nat, length > 0, NEW c \in Nat
  PROVE  /\ 2 \in 2..a /\ (length > c => ~(length <= c))
         /\ length > c => \A n \in 1..Least(c, a - 2) :
              n + 2 \in 2..a /\ n + 2 \in 0..a /\ (n + 2) - 2 = n /\ (n + 2) - 2 <= length /\ length - n \in Nat
         /\ a >= length + 2 =>
              /\ Least(length + 2, a) = length + 2 /\ length + 2 \in 2..a /\ length + 2 \in 0..a
              /\ (length + 2) - 2 = length /\ length - ((length + 2) - 2) = 0 /\ (length + 2) - 2 <= length
         /\ ~(a >= length + 2) =>
              Least(length + 2, a) = a /\ a \in 2..a /\ a \in 0..a /\ a - 2 <= length /\ length - (a - 2) > 0
BY DEF Least

LEMMA TLSReadFrameStep == FramingInv /\ TLSReadFrame => FramingInv'
<1> SUFFICES ASSUME FramingInv, TLSReadFrame PROVE FramingInv'
  OBVIOUS
<1> DEFINE length == arrived[2].n
<1>1. FramingTypes /\ PipeTypes /\ ReaderTypes /\ ReaderInv /\ Len(arrived) \in Nat
  BY PipeTyped DEF FramingInv, FramingTypes
<1>2. PICK c \in Capacities :
        /\ layer = "tls" /\ reader = "read" /\ end = "open" /\ need = 0 /\ Len(arrived) > 2
        /\ \/ /\ length > c
              /\ \E n \in 1..Least(c, Len(arrived) - 2) :
                   /\ got' = got \o Numbers(SubSeq(arrived, 3, n + 2))
                   /\ need' = length - n
                   /\ Take(n + 2)
              /\ UNCHANGED end
           \/ /\ length <= c
              /\ Len(arrived) >= length + 2 \/ NoMore(length + 2)
              /\ end' = IF Len(arrived) >= length + 2 THEN "open" ELSE "unexpected eof"
              /\ got' = got \o Numbers(SubSeq(arrived, 3, Least(length + 2, Len(arrived))))
              /\ need' = 0
              /\ Take(length + 2)
        /\ rfirst' = FALSE
        /\ UNCHANGED <<modes, writerVars, wire, fin, broken, rkey, rbuf>>
  BY DEF TLSReadFrame, Reading
<1>3. c \in Nat /\ rkey' \in Nat /\ rfirst' \in BOOLEAN
  BY <1>1, <1>2, CapacityTyped, Zenon DEF ReaderTypes
<1>4. length \in Nat /\ length > 0 /\ rbuf = <<>> /\ rbuf' = <<>>
  <2>1. Len(arrived) > 2 /\ 2 \in 2..Len(arrived)
    <3>1. \A a \in Nat : a > 2 => 2 \in 2..a
      OBVIOUS
    <3>2. QED BY <1>1, <1>2, <3>1, Zenon
  <2>2. QED BY <1>2, <2>1, FindsFrame
<1> HIDE DEF length
<1>5. ASSUME NEW k \in 2..Len(arrived), k - 2 <= length, got' = got \o Numbers(SubSeq(arrived, 3, k))
      PROVE  /\ \E m, t \in Legal :
                  /\ m.phase = "data" /\ m.left = length - (k - 2) /\ m.byte = Len(got')
                  /\ Parse(Legal, SubSeq(Pipe, k + 1, Len(Pipe)), m, t) /\ (~broken => AtWriter(t))
             /\ got' \in Seq(Nat) /\ rbuf' \in Seq(Nat)
             /\ got' = Bytes(0, Len(got')) /\ rbuf' = Bytes(Len(got'), Len(rbuf'))
             /\ Len(got') + Len(rbuf') = Len(got')
  <2>1. PICK v, m, t \in Legal :
          /\ v.phase = "data" /\ v.left = length /\ v.byte = Len(got)
          /\ Parse(Legal, SubSeq(arrived, 2 + 1, k), v, m)
          /\ Parse(Legal, SubSeq(Pipe, k + 1, Len(Pipe)), m, t) /\ (~broken => AtWriter(t))
    BY <1>2, FindsFrame DEF length
  <2>2. /\ m.phase = "data" /\ m.byte = v.byte + (k - 2) /\ (Counted => m.left = v.left - (k - 2))
        /\ Numbers(SubSeq(arrived, 3, k)) = Bytes(v.byte, k - 2)
    <3>1. Counted => k - 2 <= v.left
      BY <1>5, <2>1
    <3>2. QED BY <1>1, <2>1, <3>1, HeadData, Zenon
  <2>3. k - 2 \in Nat /\ Counted
    <3>1. \A a \in Nat : \A i \in 2..a : i - 2 \in Nat
      OBVIOUS
    <3>2. QED BY <1>1, <1>2, <3>1, Zenon DEF Counted
  <2>4. /\ got' \in Seq(Nat) /\ rbuf' \in Seq(Nat)
        /\ got' = Bytes(0, Len(got')) /\ rbuf' = Bytes(Len(got'), Len(rbuf'))
        /\ Len(got') = Len(got) + (k - 2) /\ Len(got') + Len(rbuf') = Len(got) + (k - 2)
    <3>1. Numbers(SubSeq(arrived, 3, k)) = Bytes(Len(got), k - 2)
      BY <2>1, <2>2
    <3>2. QED BY <1>1, <1>4, <1>5, <2>3, <3>1, GotBytes, Zenon
  <2>5. m.left = length - (k - 2) /\ m.byte = Len(got') /\ Len(got') + Len(rbuf') = Len(got')
    BY <2>1, <2>2, <2>3, <2>4
  <2>6. QED BY <2>1, <2>2, <2>4, <2>5
<1> DEFINE short ==
      /\ Len(arrived) >= length + 2 \/ NoMore(length + 2)
      /\ end' = IF Len(arrived) >= length + 2 THEN "open" ELSE "unexpected eof"
      /\ got' = got \o Numbers(SubSeq(arrived, 3, Least(length + 2, Len(arrived))))
      /\ need' = 0
      /\ Take(length + 2)
<1>6. length <= c => short
  <2>1. length > c => ~(length <= c)
    BY <1>1, <1>2, <1>3, <1>4, FrameSizes, Zenon
  <2>2. QED BY <1>2, <2>1, Zenon
<1>7. CASE length > c
  <2>1. PICK n \in 1..Least(c, Len(arrived) - 2) :
          got' = got \o Numbers(SubSeq(arrived, 3, n + 2)) /\ need' = length - n /\ Take(n + 2) /\ end' = end
    <3>1. ~(length <= c)
      BY <1>1, <1>2, <1>3, <1>4, <1>7, FrameSizes, Zenon
    <3>2. QED BY <1>2, <3>1, Zenon
  <2>2. \A i \in 1..Least(c, Len(arrived) - 2) :
          /\ i + 2 \in 2..Len(arrived) /\ i + 2 \in 0..Len(arrived) /\ (i + 2) - 2 = i /\ (i + 2) - 2 <= length
          /\ length - i \in Nat
    BY <1>1, <1>2, <1>3, <1>4, <1>7, FrameSizes, Zenon
  <2>3. /\ n + 2 \in 2..Len(arrived) /\ n + 2 \in 0..Len(arrived) /\ (n + 2) - 2 = n /\ (n + 2) - 2 <= length
        /\ length - n \in Nat
    BY <2>2, Zenon
  <2>4. /\ got' \in Seq(Nat) /\ rbuf' \in Seq(Nat)
        /\ got' = Bytes(0, Len(got')) /\ rbuf' = Bytes(Len(got'), Len(rbuf'))
        /\ Len(got') + Len(rbuf') = Len(got')
    BY <1>5, <2>1, <2>2, <2>3
  <2>5. PICK m, t \in Legal :
          /\ m.phase = "data" /\ m.left = length - ((n + 2) - 2) /\ m.byte = Len(got')
          /\ Parse(Legal, SubSeq(Pipe, (n + 2) + 1, Len(Pipe)), m, t) /\ (~broken => AtWriter(t))
    BY <1>5, <2>1, <2>2, <2>3
  <2>6. AtReader(m)'
    BY <1>2, <2>1, <2>2, <2>4, <2>5 DEF AtReader, modes
  <2>7. need' \in Nat /\ end' = "open"
    BY <1>2, <2>1, <2>2
  <2>8. QED BY <1>2, <1>3, <1>4, <2>1, <2>2, <2>4, <2>5, <2>6, <2>7, ReaderGoesOn
<1>8. CASE length <= c /\ Len(arrived) >= length + 2
  <2>1. Least(length + 2, Len(arrived)) = length + 2 /\ length + 2 \in 2..Len(arrived) /\ length + 2 \in 0..Len(arrived)
        /\ (length + 2) - 2 = length /\ length - ((length + 2) - 2) = 0
    BY <1>1, <1>2, <1>3, <1>4, <1>8, FrameSizes, Zenon
  <2>2. end' = "open" /\ need' = 0 /\ Take(length + 2) /\ got' = got \o Numbers(SubSeq(arrived, 3, length + 2))
    BY <1>8, <1>6, <2>1
  <2>3. (length + 2) - 2 <= length
    BY <1>4, <2>1
  <2>4. /\ got' \in Seq(Nat) /\ rbuf' \in Seq(Nat)
        /\ got' = Bytes(0, Len(got')) /\ rbuf' = Bytes(Len(got'), Len(rbuf'))
        /\ Len(got') + Len(rbuf') = Len(got')
    BY <1>5, <2>1, <2>2, <2>3
  <2>5. PICK m, t \in Legal :
          /\ m.phase = "data" /\ m.left = length - ((length + 2) - 2) /\ m.byte = Len(got')
          /\ Parse(Legal, SubSeq(Pipe, (length + 2) + 1, Len(Pipe)), m, t) /\ (~broken => AtWriter(t))
    BY <1>5, <2>1, <2>2, <2>3
  <2>6. AtReader(m)'
    BY <1>2, <2>1, <2>2, <2>4, <2>5 DEF AtReader, modes
  <2>7. QED BY <1>2, <1>3, <1>4, <2>1, <2>2, <2>4, <2>5, <2>6, ReaderGoesOn
<1>9. CASE length <= c /\ ~(Len(arrived) >= length + 2)
  <2> DEFINE k == Len(arrived)
  <2>1. /\ k \in Nat /\ Least(length + 2, k) = k /\ k \in 2..k /\ k \in 0..k /\ k - 2 <= length
        /\ length - (k - 2) > 0
    BY <1>1, <1>2, <1>3, <1>4, <1>9, FrameSizes, Zenon
  <2> HIDE DEF k
  <2>2. /\ end' = "unexpected eof" /\ need' = 0 /\ NoMore(length + 2) /\ Take(length + 2)
        /\ got' = got \o Numbers(SubSeq(arrived, 3, k))
    BY <1>9, <1>6, <2>1 DEF k
  <2>3. /\ got' \in Seq(Nat) /\ got' = Bytes(0, Len(got'))
    BY <1>5, <2>1, <2>2 DEF k
  <2>4. PICK m, t \in Legal :
          /\ m.phase = "data" /\ m.left = length - (k - 2) /\ m.byte = Len(got')
          /\ Parse(Legal, SubSeq(Pipe, k + 1, Len(Pipe)), m, t) /\ (~broken => AtWriter(t))
    BY <1>5, <2>1, <2>2 DEF k
  <2>5. broken
    <3>1. wire = <<>> /\ m.left > 0
      BY <2>1, <2>2, <2>4 DEF NoMore
    <3>2. QED BY <1>1, <2>4, <3>1, FrameBroken DEF k
  <2>6. EndInv'
    BY <1>2, <2>2, <2>5 DEF EndInv
  <2>7. Len(got') <= Sealed
    BY <2>4 DEF Legal
  <2>8. arrived' \in Seq(Cells)
    <3>1. \A n \in Nat : SubSeq(arrived, (n + 2) + 1, Len(arrived)) \in Seq(Cells)
      BY <1>1 DEF PipeTypes
    <3>2. QED BY <1>4, <2>2, <3>1, Zenon DEF Take
  <2>9. need' \in Nat
    BY <2>2
  <2>10. QED BY <1>2, <1>3, <1>4, <2>2, <2>3, <2>6, <2>7, <2>8, <2>9, ReaderStops
<1>10. QED BY <1>3, <1>4, <1>7, <1>8, <1>9

(* The server of our obfs writer: the cell it finds is the one it expects. *)
LEMMA ServerExpects ==
  ASSUME ReaderTypes, Obfs, reader = "server", need \in Nat,
         NEW s \in Legal, NEW c \in Cells, NEW m, AtReader(s), Leads(s, c, m)
  PROVE  \/ /\ c.t = "overwritten" /\ layer = "tls" /\ s.byte = 0
         \/ /\ c.t \notin {"data", "overwritten"} /\ need = 0 /\ m.left = c.n /\ m.byte = s.byte /\ m.phase # "lost"
         \/ /\ c.t = "data" /\ (layer = "tls" => need > 0) /\ c.n = s.byte + 1
            /\ m.left = (IF need > 0 THEN need - 1 ELSE 0) /\ m.byte = s.byte + 1 /\ m.phase # "lost"
<1>1. s.left = need /\ s.phase # "lost" /\ s.byte \in Nat /\ (s.phase = "open" => s.left = 0 /\ s.byte = 0)
  BY DEF AtReader, Legal, States
<1>2. CASE DataLeads(s, c, m)
  <2>1. c = DataCell(s, 1) /\ m = DataState(s, 1) /\ (layer = "tls" => need > 0)
    BY <1>1, <1>2 DEF DataLeads, Counted
  <2>2. c.t = "data" /\ c.n = s.byte + 1
    BY <2>1 DEF DataCell, Cell
  <2>3. m.phase = "data" /\ m.byte = s.byte + 1 /\ m.left = IF 1 <= s.left THEN s.left - 1 ELSE 0
    BY <2>1 DEF DataState, State
  <2>4. 1 <= need <=> need > 0
    OBVIOUS
  <2>5. QED BY <1>1, <2>1, <2>2, <2>3, <2>4
<1>3. CASE layer = "tls" /\ ~DataLeads(s, c, m)
  <2>1. TLSLeads(s, c, m)
    BY <1>1, <1>3 DEF Leads
  <2>2. QED BY <1>1, <1>3, <2>1 DEF TLSLeads, State
<1>4. CASE layer = "http" /\ ~DataLeads(s, c, m)
  <2>1. HTTPLeads(s, c, m)
    BY <1>1, <1>4 DEF Leads
  <2>2. QED BY <1>1, <1>4, <2>1 DEF HTTPLeads, State
<1>5. QED BY <1>2, <1>3, <1>4 DEF Obfs

LEMMA OneByte ==
  ASSUME NEW g \in Seq(Nat) PROVE Len(g) + 1 \in Nat /\ Append(g, Len(g) + 1) = g \o Bytes(Len(g), 1)
<1>1. Len(g) \in Nat /\ Len(g) + 1 \in Nat
  OBVIOUS
<1>2. Bytes(Len(g), 1) = <<Len(g) + 1>>
  BY <1>1 DEF Bytes
<1>3. QED BY <1>1, <1>2, AppendIsConcat

LEMMA ServerReadsStep == FramingInv /\ ServerReads => FramingInv'
<1> SUFFICES ASSUME FramingInv, ServerReads PROVE FramingInv'
  OBVIOUS
<1>1. FramingTypes /\ PipeTypes /\ ReaderTypes /\ ReaderInv /\ need \in Nat /\ got \in Seq(Nat) /\ rbuf \in Seq(Nat)
  BY DEF FramingInv, FramingTypes, ReaderTypes
<1> DEFINE c == arrived[1]
           misplaced == IF c.t = "data" THEN need = 0 /\ layer = "tls" ELSE need > 0
<1>2. reader = "server" /\ end = "open" /\ arrived # <<>>
  BY DEF ServerReads, Reading
<1>3. 1 \in 0..Len(arrived) /\ Head(arrived) = c /\ c \in Cells /\ c.n \in Nat
  BY <1>2, FindsOne DEF Cells
<1>4. /\ end' = IF c.t = "overwritten" THEN "overwritten" ELSE IF misplaced THEN "garbled" ELSE "open"
      /\ need' = IF c.t = "data" THEN (IF need > 0 THEN need - 1 ELSE 0) ELSE c.n
      /\ got' = IF c.t = "data" THEN Append(got, c.n) ELSE got
      /\ Take(1)
      /\ UNCHANGED <<modes, writerVars, wire, fin, broken, rkey, rfirst, rbuf>>
  BY <1>3 DEF ServerReads
<1>5. PICK s, m, t \in Legal :
        /\ AtReader(s) /\ Leads(s, c, m)
        /\ Parse(Legal, SubSeq(Pipe, 1 + 1, Len(Pipe)), m, t) /\ (~broken => AtWriter(t))
  BY <1>2, FindsOne
<1> HIDE DEF c
<1>6. Obfs /\ layer \in {"tls", "http"} /\ rbuf = <<>> /\ rbuf' = <<>>
  BY <1>1, <1>2, <1>4 DEF FramingTypes, ModeTypes, ReaderInv, Obfs
<1>7. s.byte = Len(got) /\ Len(got) \in Nat
  BY <1>1, <1>5, <1>6, NoneBuffered
<1>8. rkey' \in Nat /\ rfirst' \in BOOLEAN
  BY <1>1, <1>4 DEF ReaderTypes
<1>9. CASE c.t = "overwritten" /\ layer = "tls" /\ s.byte = 0
  <2>1. end' = "overwritten" /\ need' = c.n /\ got' = got
    BY <1>4, <1>9
  <2>2. got = <<>>
    <3>1. Len(got) = 0
      BY <1>7, <1>9
    <3>2. QED BY <1>1, <3>1, NothingBuffered, Zenon
  <2>3. EndInv'
    BY <1>2, <1>4, <1>9, <2>1, <2>2 DEF EndInv, modes
  <2>4. got' = Bytes(0, Len(got')) /\ Len(got') <= Sealed
    <3>1. Len(got') = s.byte
      BY <1>7, <2>1
    <3>2. QED BY <1>1, <2>1, <3>1 DEF ReaderInv, Legal
  <2>5. arrived' \in Seq(Cells)
    BY <1>1, <1>3, <1>4, TakeTyped
  <2>6. QED BY <1>1, <1>3, <1>4, <1>6, <1>8, <2>1, <2>3, <2>4, <2>5, ReaderStops
<1>10. CASE /\ c.t \notin {"data", "overwritten"} /\ need = 0 /\ m.left = c.n /\ m.byte = s.byte /\ m.phase # "lost"
  <2>1. end' = "open" /\ need' = c.n /\ got' = got
    BY <1>4, <1>10
  <2>2. AtReader(m)'
    <3>1. s.byte = Len(got') + Len(rbuf')
      BY <1>4, <1>5, <2>1 DEF AtReader
    <3>2. QED BY <1>2, <1>4, <1>6, <1>10, <2>1, <3>1 DEF AtReader, modes
  <2>3. got' = Bytes(0, Len(got')) /\ rbuf' = Bytes(Len(got'), Len(rbuf'))
    BY <1>1, <1>4, <2>1 DEF ReaderInv
  <2>4. need' \in Nat /\ got' \in Seq(Nat) /\ rbuf' \in Seq(Nat)
    BY <1>1, <1>3, <1>4, <2>1
  <2>5. QED BY <1>2, <1>3, <1>4, <1>5, <1>6, <1>8, <2>1, <2>2, <2>3, <2>4, ReaderGoesOn
<1>11. CASE /\ c.t = "data" /\ (layer = "tls" => need > 0) /\ c.n = s.byte + 1
            /\ m.left = (IF need > 0 THEN need - 1 ELSE 0) /\ m.byte = s.byte + 1 /\ m.phase # "lost"
  <2>1. end' = "open" /\ need' = m.left /\ got' = Append(got, Len(got) + 1)
    <3>1. ~misplaced
      BY <1>1, <1>11
    <3>2. QED BY <1>4, <1>7, <1>11, <3>1
  <2>2. got' = got \o Bytes(Len(got), 1)
    BY <1>1, <2>1, OneByte
  <2>3. /\ got' \in Seq(Nat) /\ rbuf' \in Seq(Nat)
        /\ got' = Bytes(0, Len(got')) /\ rbuf' = Bytes(Len(got'), Len(rbuf'))
        /\ Len(got') + Len(rbuf') = Len(got) + 1
    BY <1>1, <1>6, <2>2, GotBytes
  <2>4. AtReader(m)'
    BY <1>2, <1>4, <1>6, <1>7, <1>11, <2>1, <2>3 DEF AtReader, modes
  <2>5. need' \in Nat
    BY <2>1 DEF Legal, States
  <2>6. QED BY <1>2, <1>3, <1>4, <1>5, <1>6, <1>8, <2>1, <2>3, <2>4, <2>5, ReaderGoesOn
<1>12. QED BY <1>1, <1>2, <1>3, <1>5, <1>6, <1>9, <1>10, <1>11, ServerExpects

LEMMA WantedCells ==
  ASSUME NEW a \in Nat, a # 0, need \in Nat, a < Wanted
  PROVE  \/ layer = "aead" /\ need # 0 /\ a <= need
         \/ layer = "tls" /\ reader = "read" /\ need = 0 /\ a \in {1, 2}
BY DEF Wanted

(* Unless the connection broke off, an end comes after everything.         *)
LEMMA NothingCut ==
  ASSUME FramingInv, end = "open", rbuf = <<>>, fin, wire = <<>>, Len(arrived) < Wanted, ~broken
  PROVE  arrived = <<>> /\ Len(got) = Sealed
<1>1. /\ FramingTypes /\ PipeTypes /\ ReaderTypes /\ need \in Nat /\ rfirst \in BOOLEAN
      /\ Len(arrived) \in Nat /\ Len(arrived) \in 0..Len(arrived)
  <2>1. \A k \in Nat : k \in 0..k
    OBVIOUS
  <2>2. FramingTypes /\ PipeTypes /\ ReaderTypes
    BY DEF FramingInv, FramingTypes
  <2>3. Len(arrived) \in Nat
    BY <2>2, PipeTyped, Zenon
  <2>4. QED BY <2>1, <2>2, <2>3, Zenon DEF ReaderTypes
<1>2. PICK s, m, t \in Legal :
        /\ AtReader(s) /\ Parse(Legal, SubSeq(arrived, 0 + 1, Len(arrived)), s, m)
        /\ Parse(Legal, SubSeq(Pipe, Len(arrived) + 1, Len(Pipe)), m, t) /\ AtWriter(t)
  BY <1>1, FindsSome
<1>3. t = m
  BY <1>1, <1>2, NothingLeft
<1>4. AtWriter(m) /\ s.byte = Len(got)
  BY <1>1, <1>2, <1>3, NoneBuffered
<1>5. CASE arrived = <<>>
  <2>1. SubSeq(arrived, 0 + 1, Len(arrived)) = <<>>
    BY <1>1, <1>5
  <2>2. Parse(Legal, <<>>, s, m)
    BY <1>2, <2>1
  <2>3. m = s
    BY <2>2, NothingBuffered, ParseEnds, Zenon
  <2>4. s.byte = Sealed
    BY <1>2, <1>4, <2>3 DEF AtReader, AtWriter
  <2>5. QED BY <1>4, <1>5, <2>4
<1>6. CASE arrived # <<>> /\ layer = "aead" /\ need # 0 /\ Len(arrived) <= need
  <2>1. s.phase = "data" /\ s.left = need
    BY <1>2, <1>6 DEF AtReader, Legal
  <2>2. m.phase = "data"
    BY <1>1, <1>2, <1>6, <2>1, FirstData
  <2>3. QED BY <1>4, <1>6, <2>2 DEF AtWriter, Rests
<1>7. CASE arrived # <<>> /\ layer = "tls" /\ reader = "read" /\ need = 0 /\ Len(arrived) = 1
  <2>1. PICK s1, m1, t1 \in Legal :
          /\ AtReader(s1) /\ Leads(s1, arrived[1], m1)
          /\ Parse(Legal, SubSeq(Pipe, 1 + 1, Len(Pipe)), m1, t1) /\ AtWriter(t1)
    BY <1>7, FindsOne
  <2>2. s1.phase \in {"open", "data"} /\ s1.left = 0
    BY <1>7, <2>1 DEF AtReader
  <2>3. m1.phase = "len"
    BY <1>7, <2>1, <2>2 DEF Leads, DataLeads, Counted, TLSLeads, State
  <2>4. t1 = m1
    <3>1. Parse(Legal, SubSeq(Pipe, Len(arrived) + 1, Len(Pipe)), m1, t1)
      BY <1>7, <2>1
    <3>2. QED BY <1>1, <3>1, NothingLeft
  <2>5. QED BY <1>7, <2>1, <2>3, <2>4 DEF AtWriter, Rests
<1>8. CASE arrived # <<>> /\ layer = "tls" /\ reader = "read" /\ need = 0 /\ Len(arrived) = 2
  <2>1. 2 \in 2..Len(arrived) /\ SubSeq(arrived, 2 + 1, 2) = <<>>
    BY <1>1, <1>8 DEF PipeTypes
  <2>2. PICK v, m1, t1 \in Legal :
          /\ v.phase = "data" /\ v.left = arrived[2].n /\ arrived[2].n > 0 /\ arrived[2].n \in Nat
          /\ Parse(Legal, SubSeq(arrived, 2 + 1, 2), v, m1)
          /\ Parse(Legal, SubSeq(Pipe, 2 + 1, Len(Pipe)), m1, t1) /\ AtWriter(t1)
    BY <1>8, <2>1, FindsFrame
  <2>3. m1 = v
    <3>1. Parse(Legal, <<>>, v, m1)
      BY <2>1, <2>2
    <3>2. QED BY <3>1, NothingBuffered, ParseEnds, Zenon
  <2>4. t1 = m1
    <3>1. Parse(Legal, SubSeq(Pipe, Len(arrived) + 1, Len(Pipe)), m1, t1)
      BY <1>8, <2>2
    <3>2. QED BY <1>1, <3>1, NothingLeft
  <2>5. QED BY <2>2, <2>3, <2>4 DEF AtWriter
<1>9. QED
  <2>1. arrived # <<>> => Len(arrived) # 0
    BY <1>1 DEF PipeTypes
  <2>2. QED BY <1>1, <1>5, <1>6, <1>7, <1>8, <2>1, WantedCells

LEMMA ReadEndStep == FramingInv /\ ReadEnd => FramingInv'
<1> SUFFICES ASSUME FramingInv, ReadEnd PROVE FramingInv'
  OBVIOUS
<1>1. FramingTypes /\ WriterTypes /\ ReaderTypes /\ ReaderInv /\ WriterInv
  BY DEF FramingInv, FramingTypes
<1>2. /\ end = "open" /\ rbuf = <<>> /\ fin /\ wire = <<>> /\ Len(arrived) < Wanted /\ arrived' = <<>>
      /\ end' = IF arrived = <<>> \/ (layer = "tls" /\ need = 0) THEN "eof" ELSE "unexpected eof"
      /\ UNCHANGED <<modes, writerVars, wire, fin, broken, rkey, rfirst, need, rbuf, got>>
  BY DEF ReadEnd, Reading, NoMore
<1>3. EndInv'
  <2>1. CASE broken
    BY <1>2, <2>1 DEF EndInv
  <2>2. CASE ~broken
    <3>1. arrived = <<>> /\ Len(got) = Sealed
      BY <1>2, <2>2, NothingCut
    <3>2. Sealed = written
      <4>1. todo = 0 /\ written \in Nat
        BY <1>1, <1>2, Zenon DEF WriterInv, WriterTypes
      <4>2. \A k \in Nat : k - 0 = k
        OBVIOUS
      <4>3. QED BY <4>1, <4>2, Zenon DEF Sealed
    <3>3. end' = "eof"
      BY <1>2, <3>1
    <3>4. QED BY <1>2, <3>1, <3>2, <3>3 DEF EndInv, writerVars
  <2>3. QED BY <2>1, <2>2
<1>4. /\ rkey' \in Nat /\ rfirst' \in BOOLEAN /\ need' \in Nat /\ got' \in Seq(Nat) /\ rbuf' = <<>>
      /\ got' = Bytes(0, Len(got')) /\ arrived' \in Seq(Cells)
  BY <1>1, <1>2, NothingBuffered, Zenon DEF ReaderTypes, ReaderInv
<1>5. Len(got') <= Sealed
  <2>1. Len(got) + 0 <= Sealed /\ Len(got) + 0 = Len(got)
    BY <1>1, <1>2, NothingBuffered, Zenon DEF ReaderTypes, ReaderInv
  <2>2. QED BY <1>2, <2>1, Zenon
<1>6. end' \in {"zero chunk", "eof", "unexpected eof", "overwritten"}
  BY <1>2
<1>7. QED BY <1>2, <1>3, <1>4, <1>5, <1>6, ReaderStops

-----------------------------------------------------------------------------
LEMMA FramingStep == FramingInv /\ ~foreign' /\ [Next]_vars => FramingInv'
<1> SUFFICES ASSUME FramingInv, ~foreign', [Next]_vars PROVE FramingInv'
  OBVIOUS
<1>1. CASE Writing
  <2>1. CASE \E n \in 1..MaxBytes : Write(n)
    <3>1. PICK n \in 1..MaxBytes : Write(n)
      BY <2>1
    <3>2. n \in Nat
      BY FramingAssumption
    <3>3. QED BY <3>1, <3>2, WriteStep
  <2>2. CASE InitAeadWriter \/ InitStreamWriter
    BY <2>2, InitWriterStep
  <2>3. CASE AeadWrite \/ AeadReadFrom \/ StreamWrite \/ StreamReadFrom
    BY <2>3, CipherWriteStep
  <2>4. CASE TLSWrite \/ HTTPWrite \/ ServerFrame
    BY <2>4, ObfsWriteStep
  <2>5. CASE CloseWrite
    BY <2>5, CloseWriteStep
  <2>6. CASE AeadWriteEmpty
    BY <2>6, AeadWriteEmptyStep
  <2>7. QED BY <1>1, <2>1, <2>2, <2>3, <2>4, <2>5, <2>6 DEF Writing
<1>2. CASE Reader
  <2>1. CASE InitAeadReader \/ InitStreamReader
    BY <2>1, InitReaderStep
  <2>2. CASE AeadReadSize
    BY <2>2, AeadReadSizeStep
  <2>3. CASE AeadReadPayload
    BY <2>3, AeadReadPayloadStep
  <2>4. CASE ReadBuffered \/ HTTPReadBuffered
    BY <2>4, ReadBufferedStep
  <2>5. CASE StreamRead
    BY <2>5, StreamReadStep
  <2>6. CASE TLSReadFrame
    BY <2>6, TLSReadFrameStep
  <2>7. CASE TLSReadRest
    BY <2>7, TLSReadRestStep
  <2>8. CASE HTTPReadHeader
    BY <2>8, HTTPReadHeaderStep
  <2>9. CASE HTTPRead
    BY <2>9, HTTPReadStep
  <2>10. CASE ServerReads
    BY <2>10, ServerReadsStep
  <2>11. CASE ReadEnd
    BY <2>11, ReadEndStep
  <2>12. QED
    BY <1>2, <2>1, <2>2, <2>3, <2>4, <2>5, <2>6, <2>7, <2>8, <2>9, <2>10, <2>11 DEF Reader
<1>3. CASE Arrive
  BY <1>3, ArriveStep
<1>4. CASE Break
  BY <1>4, BreakStep
<1>5. CASE UNCHANGED vars
  BY <1>5, FramingStutters
<1>6. QED BY <1>1, <1>2, <1>3, <1>4, <1>5 DEF Next

(* A hello that is not our own goes to a TLS dress's server, and is never  *)
(* taken back.                                                             *)
LEMMA ForeignStays ==
  ASSUME [Next]_vars
  PROVE  UNCHANGED modes /\ (foreign' = foreign \/ (foreign' = TRUE /\ layer = "tls" /\ reader = "server"))
<1>1. CASE Writing
  BY <1>1 DEF Writing, Write, InitAeadWriter, AeadWrite, AeadWriteEmpty, AeadReadFrom, InitStreamWriter,
              StreamWrite, StreamReadFrom, TLSWrite, SendHello, SendFrame, HTTPWrite, ServerFrame, CloseWrite
<1>2. CASE Reader
  BY <1>2 DEF Reader, InitAeadReader, AeadReadSize, AeadReadPayload, ReadBuffered, InitStreamReader, StreamRead,
              TLSReadFrame, TLSReadRest, HTTPReadHeader, HTTPReadBuffered, HTTPRead, ServerReads, ReadEnd
<1>3. CASE Arrive \/ Break \/ UNCHANGED vars
  BY <1>3 DEF Arrive, Break, vars
<1>4. QED BY <1>1, <1>2, <1>3 DEF Next

FramingSafe ==
  /\ foreign \in BOOLEAN
  /\ IF foreign THEN layer = "tls" /\ reader = "server" ELSE FramingInv

LEMMA FramingSafeStep == FramingSafe /\ [Next]_vars => FramingSafe'
<1> SUFFICES ASSUME FramingSafe, [Next]_vars PROVE FramingSafe'
  OBVIOUS
<1>1. UNCHANGED modes /\ (foreign' = foreign \/ (foreign' = TRUE /\ layer = "tls" /\ reader = "server"))
  BY ForeignStays
<1>2. CASE foreign'
  BY <1>1, <1>2 DEF FramingSafe, modes
<1>3. CASE ~foreign'
  BY <1>1, <1>3, FramingStep DEF FramingSafe
<1>4. QED BY <1>2, <1>3

(* The invariant says that the stream is intact.                           *)
LEMMA FramingInvIntact == FramingSafe => StreamIntact
<1> SUFFICES ASSUME FramingInv, ~foreign PROVE StreamIntact
  BY DEF FramingSafe, StreamIntact
<1>1. got = Bytes(0, Len(got)) /\ Len(got) <= Sealed
  <2>1. WriterTypes /\ ReaderTypes /\ ReaderInv
    BY DEF FramingInv, FramingTypes
  <2>2. Len(got) \in Nat /\ Len(rbuf) \in Nat /\ Sealed \in Nat /\ Len(got) + Len(rbuf) <= Sealed
    BY <2>1, SealedTyped, NothingBuffered, Zenon DEF ReaderTypes, ReaderInv
  <2>3. QED BY <2>1, <2>2 DEF ReaderInv
<1>2. QED BY <1>1 DEF FramingInv, EndInv, StreamIntact, Truncated

(* For every record size and every length of the stream, and wherever the  *)
(* connection breaks off: what is read through the AEAD records, the key   *)
(* stream or the obfuscation is a first part of what was written, byte for *)
(* byte; both sides' nonces stay in step; a Write of nothing ends the      *)
(* reader just where it was made; and any other end that is not a fault of *)
(* the connection comes after the last byte, unless another connection's   *)
(* hello went out in the place of ours (shadowaead/stream.go,              *)
(* shadowstream/stream.go, simple-obfs/tls.go and http.go).                *)
THEOREM StreamsStayIntact == Spec => []StreamIntact
<1>1. Init => FramingSafe
  BY FramingInvInit DEF Init, FramingSafe
<1>2. FramingSafe /\ [Next]_vars => FramingSafe'
  BY FramingSafeStep
<1>3. FramingSafe => StreamIntact
  BY FramingInvIntact
<1>4. QED BY <1>1, <1>2, <1>3, PTL DEF Spec
=============================================================================
