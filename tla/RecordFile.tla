----------------------------- MODULE RecordFile -----------------------------
(***************************************************************************)
(* The files that recorder writes, and parse-bd reads: a writer thread     *)
(* writes a dump in binary or as JSON, and parse-bd reads a binary file    *)
(* and writes it as JSON.                                                  *)
(*                                                                         *)
(* A dump is a sequence of chunks, one for each tick: a function from BSs  *)
(* to what was recorded of them.  A file is a sequence of numbers: counts, *)
(* BSs, times, lengths, and the bytes of messages.  Messages serialise to  *)
(* their bytes and parse from any; the stream itself does not fail.        *)
(***************************************************************************)
EXTENDS Naturals, FiniteSets, Sequences, SequencesExt

CONSTANTS
  Dumps,      \* dumps that are written
  CountMod    \* the counts of BSs and UEs are written modulo this (2^16)

ASSUME CountModAssumption == CountMod \in Nat \ {0}

\* What is recorded of a BS; a message is the sequence of its bytes.
Recorded ==
  [time : Nat, enb : Seq(Nat), ue : Seq(Nat), lc : Seq(Nat),
   harqs : Seq([report : Seq(Nat), harq : Nat])]

IsChunk(c) ==
  IsFiniteSet(DOMAIN c) /\ DOMAIN c \subseteq Nat /\ c \in [DOMAIN c -> Recorded]

\* A dump is a sequence of chunks.
ASSUME DumpsAssumption ==
  \A d \in Dumps : d \in Seq({d[i] : i \in DOMAIN d}) /\ \A i \in DOMAIN d : IsChunk(d[i])

VARIABLES
  recorded,   \* the dump of the job
  type,       \* its type
  file,       \* the binary file
  json,       \* the JSON that was written, by its structure
  read,       \* what parse-bd has read: a dump, and whether the file was long enough
  stage       \* "recorded", "written", "read", "parsed"

fileVars == <<recorded, type, file, json, read, stage>>

\* A message that cannot be serialised.
Broken == <<0>>
Unread == [ok |-> TRUE, v |-> <<>>]

FileInit ==
  /\ recorded \in Dumps
  /\ type \in {"all", "enb", "stats", "bin"}
  /\ file = <<>> /\ json = <<>> /\ read = Unread
  /\ stage = "recorded"
-----------------------------------------------------------------------------
(***************************************************************************)
(* Writing.  [ok, v]: whether all could be written, and what was           *)
(***************************************************************************)

Wrote(v) == [ok |-> TRUE, v |-> v]
Then(a, b) == IF a.ok THEN [ok |-> b.ok, v |-> a.v \o b.v] ELSE a

write_flexran_message(m) ==
  IF m = Broken THEN [ok |-> FALSE, v |-> <<Len(m)>>] ELSE Wrote(<<Len(m)>> \o m)

\* What was written is kept when a report cannot be: the caller does not notice.
write_binary_ue_configs(ues) ==
  LET each == [k \in DOMAIN ues |->
                 Then(write_flexran_message(ues[k].report), Wrote(<<ues[k].harq>>))]
  IN Wrote(FoldLeft(Then, Wrote(<<Len(ues) % CountMod>>), each).v)

\* BSs in the order of their IDs.
InOrderOf(chunk) ==
  CHOOSE ids \in [1..Cardinality(DOMAIN chunk) -> DOMAIN chunk] :
    \A i, j \in DOMAIN ids : i < j => ids[i] < ids[j]

WriteBs(bs, bd) ==
  Then(Then(Then(Then(Wrote(<<bs, bd.time>>), write_flexran_message(bd.enb)),
                 write_flexran_message(bd.ue)), write_flexran_message(bd.lc)),
       write_binary_ue_configs(bd.harqs))

write_binary_chunk(chunk) ==
  LET ids == InOrderOf(chunk)
      each == [k \in DOMAIN ids |-> WriteBs(ids[k], chunk[ids[k]])]
  IN FoldLeft(Then, Wrote(<<Len(ids) % CountMod>>), each).v

write_binary(d) == FoldLeft(\o, <<Len(d)>>, [i \in DOMAIN d |-> write_binary_chunk(d[i])])

WriteBinary ==
  /\ stage = "recorded" /\ type = "bin"
  /\ file' = write_binary(recorded)
  /\ stage' = "written"
  /\ UNCHANGED <<recorded, type, json, read>>

\* An element of the array: what it has of each BS, in the order of the BSs.
write_json_chunk(t, chunk) ==
  IF DOMAIN chunk = {} THEN <<>>
  ELSE <<[enb_config |-> IF t = "stats" THEN <<>> ELSE InOrderOf(chunk),
          mac_stats |-> IF t = "enb" THEN <<>> ELSE InOrderOf(chunk)]>>

\* The commas and the elements between the brackets.
Comma == [enb_config |-> <<0, 0>>, mac_stats |-> <<>>]

write_json(t, d) ==
  FoldLeft(\o, <<>>, [i \in DOMAIN d |-> (IF i = 1 THEN <<>> ELSE <<Comma>>)
                                           \o write_json_chunk(t, d[i])])

WriteJson ==
  /\ stage = "recorded" /\ type # "bin"
  /\ json' = write_json(type, recorded)
  /\ stage' = "parsed"
  /\ UNCHANGED <<recorded, type, file, read>>
-----------------------------------------------------------------------------
(***************************************************************************)
(* Reading.  [ok, pos, v]: whether the file was long enough so far; what   *)
(* is read past its end is undefined                                       *)
(***************************************************************************)

Taken(pos, v) == [ok |-> TRUE, pos |-> pos, v |-> v]
Short(s) == [ok |-> FALSE, pos |-> s.pos, v |-> s.v]

\* One number, appended to what was read.
Number(s) ==
  IF s.ok /\ s.pos <= Len(file) THEN Taken(s.pos + 1, Append(s.v, file[s.pos])) ELSE Short(s)

From(s) == [ok |-> s.ok, pos |-> s.pos, v |-> <<>>]
Last_(s) == s.v[Len(s.v)]

read_flexran_message(s) ==
  LET n == Number(From(s))
      end == n.pos + Last_(n)
  IN IF ~ n.ok THEN n
     ELSE IF end - 1 > Len(file) THEN Short(n)
     ELSE Taken(end, SubSeq(file, n.pos, end - 1))

\* The UE, BS or chunk number i, appended to those before it.
TakeUe(acc, i) ==
  LET m == read_flexran_message(From(acc))
      h == Number(From(m))
  IN IF h.ok THEN Taken(h.pos, Append(acc.v, [report |-> m.v, harq |-> Last_(h)]))
     ELSE Short(acc)

read_binary_ue_configs(s) ==
  LET n == Number(From(s))
  IN IF ~ n.ok THEN n ELSE FoldLeft(TakeUe, From(n), [i \in 1..Last_(n) |-> i])

\* A BS that is there twice has what was read first.
Emplaced(chunk, bs, bd) ==
  IF bs \in DOMAIN chunk THEN chunk
  ELSE [b \in DOMAIN chunk \cup {bs} |-> IF b = bs THEN bd ELSE chunk[b]]

TakeBs(acc, i) ==
  LET id == Number(From(acc))
      time == Number(From(id))
      enb == read_flexran_message(time)
      ue == read_flexran_message(enb)
      lc == read_flexran_message(ue)
      harqs == read_binary_ue_configs(lc)
      bd == [time |-> Last_(time), enb |-> enb.v, ue |-> ue.v, lc |-> lc.v,
             harqs |-> harqs.v]
  IN IF harqs.ok THEN Taken(harqs.pos, Emplaced(acc.v, Last_(id), bd)) ELSE Short(acc)

\* Mutant: the first BS is number one.
MutReadFromOne(s) ==
  LET n == Number(From(s))
  IN IF ~ n.ok THEN n
     ELSE FoldLeft(TakeBs, From(n), [i \in 1..(Last_(n) - 1) |-> i])

read_binary_chunk(s) ==
  LET n == Number(From(s))
  IN IF ~ n.ok THEN n
     ELSE FoldLeft(TakeBs, From(n), [i \in 1..Last_(n) |-> i])

TakeChunk(acc, i) ==
  LET c == read_binary_chunk(From(acc))
  IN IF c.ok THEN Taken(c.pos, Append(acc.v, c.v)) ELSE Short(acc)

\* A file that was written has the number of its chunks.
read_binary ==
  LET n == Number(Taken(1, <<>>))
      all == FoldLeft(TakeChunk, From(n), [i \in 1..Last_(n) |-> i])
  IN [ok |-> all.ok, v |-> all.v]

ReadBinary ==
  /\ stage = "written"
  /\ read' = read_binary
  /\ stage' = "read"
  /\ UNCHANGED <<recorded, type, file, json>>

\* parse-bd with its argument <type>: "stats" is the same as "enb", others are "all".
ParseBd(t) ==
  /\ stage = "read" /\ read.ok
  /\ json' = write_json(IF t = "stats" THEN "enb" ELSE t, read.v)
  /\ type' = IF t = "stats" THEN "enb" ELSE t
  /\ stage' = "parsed"
  /\ UNCHANGED <<recorded, file, read>>

FileNext ==
  \/ WriteBinary \/ WriteJson \/ ReadBinary
  \/ \E t \in {"all", "enb", "stats"} : ParseBd(t)

FileSpec == FileInit /\ [][FileNext]_fileVars
-----------------------------------------------------------------------------
\* Every message of the dump can be serialised, and the counts fit their fields.
Writable ==
  \A i \in DOMAIN recorded : \A b \in DOMAIN recorded[i] :
    LET bd == recorded[i][b] IN
      /\ Broken \notin {bd.enb, bd.ue, bd.lc}
      /\ \A k \in DOMAIN bd.harqs : bd.harqs[k].report # Broken
      /\ Len(bd.harqs) < CountMod /\ Len(InOrderOf(recorded[i])) < CountMod

(***************************************************************************)
(* What is read back from a binary record (write_binary, read_binary) is   *)
(* what was recorded: the format has no separators, so one count or length *)
(* that is wrong would shift everything behind it.                         *)
(***************************************************************************)
RoundTrip == stage = "read" /\ Writable => read = [ok |-> TRUE, v |-> recorded]

(***************************************************************************)
(* "<output> is a JSON output file" (parse-bd.cc:35), as what the recorder *)
(* writes itself: elements and commas take turns, if there was a BS in     *)
(* every tick (a chunk without a BS leaves its comma alone).               *)
(***************************************************************************)
JsonArray ==
  stage = "parsed" /\ Writable /\ (\A i \in DOMAIN recorded : DOMAIN recorded[i] # {}) =>
    /\ recorded # <<>> => Len(json) = 2 * Len(recorded) - 1
    /\ \A i \in DOMAIN json : (json[i] = Comma) <=> i % 2 = 0

(***************************************************************************)
(* A record can be used: the binary one is read back, the one that was     *)
(* converted by parse-bd is an array.                                      *)
(***************************************************************************)
FilesReadable == RoundTrip /\ JsonArray
=============================================================================
