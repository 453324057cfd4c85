------------------------------- MODULE Receiver -------------------------------
(***************************************************************************)
(* One log stream at the receiver (collector/receiver.py): the connection  *)
(* handler, the framing of its bytes into lines and the processing of a    *)
(* line.                                                                   *)
(*                                                                         *)
(* A byte is known by its place in the stream, counted from 1 over all     *)
(* connections, and a line by the place of its newline.  The buffer of the *)
(* handler is always a run of bytes that ends with the last one read: it   *)
(* is the bytes after the place `from`, up to the place `pos`.  What       *)
(* matters of the contents is what _process_line makes of the whole line;  *)
(* a part of a line is no JSON object, nor is an empty line.               *)
(*                                                                         *)
(* A connection ends when the peer closes or resets it, or when a line     *)
(* raises in the handler.  The sender connects again and goes on with a    *)
(* line it has not begun to send.                                          *)
(***************************************************************************)
EXTENDS Integers, Sequences, FiniteSets, SequencesExt

CONSTANTS
  Count,      \* number of lines to send
  Lengths,    \* their lengths, without the newline
  Kinds,      \* what _process_line makes of them
  MaxLine,    \* max_line_bytes
  MaxRead,    \* bytes of one read, at most
  MaxBytes,   \* bound: bytes of all lines with their newlines
  MaxDrops    \* bound: connections closed or reset by the peer

ASSUME CountAssumption == Count \in Nat /\ MaxBytes \in Nat
ASSUME LengthsAssumption == Lengths \subseteq Nat
ASSUME KindsAssumption ==
  Kinds \subseteq {"record", "own", "bare", "junk", "faulty"}
ASSUME MaxLineAssumption == MaxLine \in Nat \ {0} /\ MaxRead \in Nat \ {0}

VARIABLES
  ends,        \* the lines: the place of the newline of each; ends[0] = 0
  kinds,       \* and their kinds
  pos,         \* bytes read, or lost with a connection
  connected,   \* the handler runs
  from,        \* its buffer holds the bytes after this place, up to pos
  health,      \* the counters of Health the receiver sets
  drops,       \* connections closed or reset by the peer
  got,         \* history: what was processed, as line and place before its start
  lost         \* history: lines cut short, or left unsent, by the end of a connection

vars == <<ends, kinds, pos, connected, from, health, drops, got, lost>>

Numbers == 1..Count

\* A line without its newline.
Length(n) == ends[n] - ends[n - 1] - 1

Init ==
  /\ ends \in {e \in [0..Count -> 0..MaxBytes] :
                 e[0] = 0 /\ \A n \in Numbers : e[n] - e[n - 1] - 1 \in Lengths}
  /\ kinds \in [Numbers -> Kinds]
  /\ pos = 0 /\ connected = FALSE /\ from = 0
  /\ health = [active |-> 0, records |-> 0, errors |-> 0, mismatch |-> FALSE]
  /\ drops = 0 /\ got = <<>> /\ lost = {}

-----------------------------------------------------------------------------
(* iter_frames, of a buffer with the bytes up to p.                        *)

\* The lines whose newline is in the buffer.
Ended(p) == {n \in Numbers : from < ends[n] /\ ends[n] <= p}

\* Where the line starts that newline n ends: behind the newline before it,
\* or at the beginning of the buffer.
Start(n) == IF from < ends[n - 1] THEN ends[n - 1] ELSE from

\* Mutant: a complete line is not checked for its length.
LinesAll(p) == Ended(p)

\* The lines that are complete, without those that are too long.
Lines(p) == {n \in Ended(p) : ends[n] - Start(n) - 1 <= MaxLine}

\* The place of the last newline, or of the beginning if there is none.
LastEnd(p) == Max({from} \cup {ends[n] : n \in Ended(p)})

\* Mutant: a partial line as long as a line may be is discarded already.
RemainingTight(p) == IF p - LastEnd(p) >= MaxLine THEN p ELSE LastEnd(p)

\* Mutant: the buffer keeps everything until the newline comes.
RemainingAll(p) == LastEnd(p)

\* Where the buffer begins then: an over-long partial line is discarded.
Remaining(p) == IF p - LastEnd(p) > MaxLine THEN p ELSE LastEnd(p)

-----------------------------------------------------------------------------
(* _process_line                                                           *)

KindOf(n) == IF Start(n) = ends[n - 1] /\ Length(n) > 0 THEN kinds[n] ELSE "junk"

Number(L, kind) == Cardinality({n \in L : KindOf(n) = kind})

\* The lines of L go through _process_line one after the other; of the records,
\* the engine counts some.
Processed(L, active) ==
  /\ \E order \in [1..Cardinality(L) -> L] :
       /\ {order[k] : k \in DOMAIN order} = L
       /\ \A j, k \in DOMAIN order : j < k => order[j] < order[k]
       /\ got' = got \o [k \in DOMAIN order |->
                           [line |-> order[k], from |-> Start(order[k])]]
  /\ \E counted \in 0..Number(L, "record") :
       health' = [active   |-> active,
                  records  |-> health.records + counted,
                  errors   |-> health.errors + Number(L, "junk"),
                  mismatch |-> health.mismatch \/ Number(L, "bare") > 0]

-----------------------------------------------------------------------------
(* handle                                                                  *)

Connect ==
  /\ ~connected /\ pos < ends[Count]
  /\ connected' = TRUE /\ from' = pos
  /\ health' = [health EXCEPT !.active = @ + 1]
  /\ UNCHANGED <<ends, kinds, pos, drops, got, lost>>

\* Where the sender goes on after a connection of which the bytes up to p were
\* read: behind the line being read, or a later one if more was under way.
Resumptions(p) == {q \in {ends[n] : n \in 0..Count} : p <= q}

\* The connection is over with the bytes behind f unprocessed; the next one
\* begins behind q.
Disconnected(f, q) ==
  /\ connected' = FALSE /\ pos' = q /\ from' = q
  /\ lost' = lost \cup {n \in Numbers : f < ends[n] /\ ends[n - 1] < q}

\* A chunk is read, and every complete line in it is processed.
Read ==
  /\ connected
  /\ \E m \in 1..MaxRead :
       /\ pos + m <= ends[Count] /\ pos' = pos + m
       /\ Number(Lines(pos + m), "faulty") = 0
       /\ Processed(Lines(pos + m), health.active)
       /\ from' = Remaining(pos + m)
  /\ UNCHANGED <<ends, kinds, connected, drops, lost>>

\* A line raises: it is the last one processed, and the handler ends.
ReadRaises ==
  /\ connected
  /\ \E m \in 1..MaxRead :
       /\ pos + m <= ends[Count]
       /\ \E f \in Lines(pos + m), q \in Resumptions(pos + m) :
            LET upto == {n \in Lines(pos + m) : n <= f} IN
              /\ KindOf(f) = "faulty" /\ Number(upto, "faulty") = 1
              /\ Processed(upto, health.active - 1)
              /\ Disconnected(ends[f], q)
  /\ UNCHANGED <<ends, kinds, drops>>

\* Mutant: only a connection that ends by an exception is signed off.
DropUncounted ==
  /\ connected /\ drops < MaxDrops
  /\ drops' = drops + 1
  /\ \E q \in Resumptions(pos) : Disconnected(from, q)
  /\ UNCHANGED <<ends, kinds, health, got>>

\* The peer closes or resets the connection.
Drop ==
  /\ connected /\ drops < MaxDrops
  /\ drops' = drops + 1
  /\ health' = [health EXCEPT !.active = @ - 1]
  /\ \E q \in Resumptions(pos) : Disconnected(from, q)
  /\ UNCHANGED <<ends, kinds, got>>

Next == Connect \/ Read \/ ReadRaises \/ Drop

Spec == Init /\ [][Next]_vars

-----------------------------------------------------------------------------
\* The values the stream, the buffer and the counters take.
TypeOK ==
  /\ ends \in [0..Count -> 0..MaxBytes] /\ kinds \in [Numbers -> Kinds]
  /\ pos \in 0..ends[Count] /\ from \in 0..pos
  /\ connected \in BOOLEAN /\ drops \in Nat /\ lost \subseteq Numbers
  /\ got \in Seq([line : Numbers, from : Nat])
  /\ health \in [active : Nat, records : Nat, errors : Nat, mismatch : BOOLEAN]
  /\ health.active = IF connected THEN 1 ELSE 0

\* Framing: every line that is not too long is processed whole, exactly once and
\* in order, wherever the reads cut the stream and however long its neighbours
\* are.  Only the end of a connection costs lines: those it cuts, and behind a
\* line that raises, those already read; none of them is processed.
ShortLinesArrive ==
  /\ \A n \in Numbers \ lost :
       ends[n] <= pos /\ Length(n) <= MaxLine =>
         \E k \in DOMAIN got : got[k] = [line |-> n, from |-> ends[n - 1]]
  /\ \A j, k \in DOMAIN got : j < k => got[j].line < got[k].line
  /\ \A k \in DOMAIN got : ends[got[k].line] <= pos /\ got[k].line \notin lost

\* Besides them only the tail of an over-long line is processed, when its head
\* was discarded before the newline came.  So no over-long line is ever counted,
\* and it costs at most one parse error.
OnlyTailsBesides ==
  \A k \in DOMAIN got :
    LET n == got[k].line
        s == got[k].from
    IN \/ s = ends[n - 1] /\ Length(n) <= MaxLine
       \/ /\ s > ends[n - 1] /\ Length(n) > MaxLine
          /\ s < ends[n] /\ ends[n] - s - 1 <= MaxLine

\* "so the buffer can never grow unbounded": between two reads it holds no
\* more than one line may be long.
BufferBounded == pos - from <= MaxLine

=============================================================================
