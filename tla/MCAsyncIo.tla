----------------------------- MODULE MCAsyncIo -----------------------------
(***************************************************************************)
(* Instances of the three parts of async_io (pipelines of streams, futures *)
(* over readers, and buffered files) and of the sockets of async_net.  A   *)
(* behaviour runs one of them, `part`; the variables of the others keep    *)
(* the values they were started with.                                      *)
(***************************************************************************)
EXTENDS Integers, Sequences, SequencesExt

CONSTANTS
  Tasks, Port, PORT_START, PORT_END, LISTEN_QUEUE_SIZE, FdLimit, Sockets, Handles, TxLen, Signalled

VARIABLES
  part,
  pipe, chosen, left, right, ad, co, ready, task, ended, late, result,
  prog, src, reader, fut, poller, ask, faults, broken, eaten, answer,
  kind, data, pos, rd, buf, written, call, future, ret, made,
  fd_table, socks, SOCKET_SET, LISTEN_TABLE, queue, CURR, UDP_CURR, locks, at, my, todo, answers, sent, got, panicked

streamVars == <<pipe, chosen, left, right, ad, co, ready, task, ended, late, result>>
readerVars == <<prog, src, reader, fut, poller, ask, faults, broken, eaten, answer>>
fileVars == <<kind, data, pos, rd, buf, written, call, future, ret, made>>
socketVars ==
  <<fd_table, socks, SOCKET_SET, LISTEN_TABLE, queue, CURR, UDP_CURR, locks, at, my, todo, answers, sent, got, panicked>>

----------------------------------------------------------------------------
(* Pipelines: every adapter under a consumer that takes all, every         *)
(* consumer over a plain stream, and the two together.                     *)

Item == {1, 2, 3}
Chosen == {{2}, {1, 3}}
P == INSTANCE Streams WITH Programs <- {}, prog <- pipe   \* for the names of the stages

Short == {P!from_iter(s) : s \in BoundedSeq({1, 2}, 2)}
Long ==
  {P!from_iter(s) : s \in BoundedSeq(Item, 2)}
  \cup {P!from_iter(<<1, 2, 1>>), P!from_iter(<<2, 3, 1>>)}
Finite == {P!once(2), P!empty, P!from_fn, P!successors(<<2>>), P!successors(P!Nil)}
Endless == {P!repeat(2), P!repeat_with}

Adapters ==
  {P!map, P!cloned, P!copied, P!inspect, P!filter, P!filter_map, P!fuse, P!skip(1),
   P!skip_while, P!step_by(2), P!take(0), P!take(2), P!take_while, P!scan, P!flatten,
   P!flat_map}
Consumers ==
  {P!next, P!all, P!any, P!count, P!find, P!find_map, P!position, P!nth(0), P!nth(1),
   P!last, P!max, P!min, P!max_by, P!min_by, P!max_by_key, P!min_by_key, P!fold(1), P!sum,
   P!product, P!for_each, P!try_fold(1), P!try_for_each, P!partition}
Back == {P!next_back, P!nth_back(1), P!rfind, P!rfold(1), P!try_rfold(1)}
Comparisons == {P!cmp, P!partial_cmp, P!lt, P!le, P!gt, P!ge}

Over(ls, rs, ads, cos) == [left : ls, right : rs, ad : ads, co : cos]
Piped ==
  Over(Long, {P!empty}, Adapters \cup {P!enumerate}, {P!for_each})
  \cup Over(Long, {P!empty}, {P!whole}, Consumers \cup Back)
  \cup Over({P!from_iter(<<1, 2, 1>>)}, {P!empty}, Adapters, Consumers)
  \cup Over(Finite, {P!empty}, {P!whole, P!map}, {P!for_each})
  \cup Over(Endless, {P!empty}, {P!take(2)}, {P!for_each})
  \cup Over(Short, {P!empty}, {P!cycle}, {P!next, P!nth(1), P!nth(2)})
  \cup Over(Short, Short, {P!chain}, {P!for_each})
  \cup Over(Short, Short, {P!zip}, {P!for_each, P!unzip})
  \cup Over(Short, Short, {P!whole, P!filter}, Comparisons)

S == INSTANCE Streams WITH Programs <- Piped, prog <- pipe

NoPipeline == [left |-> S!empty, right |-> S!empty, ad |-> S!whole, co |-> S!next]

----------------------------------------------------------------------------
(* Futures over readers.                                                   *)

F == INSTANCE ByteReaders
       WITH Programs <- {}, Errors <- {}, Faults <- 0,   \* for the names of the futures
            rd <- reader, task <- poller, result <- answer

NL == F!NL
CR == F!CR
Bad == F!Bad
Plain == F!device(1)
Buffered == F!buf_reader(2, F!device(1))
TwoBuffered == F!chain(Buffered, F!buf_reader(2, F!device(2)))
BufReaders ==
  {Buffered, F!buf_reader(2, F!take(3, F!device(1))), F!cursor(<<1, 2, NL, 3>>),
   F!take(3, Buffered), TwoBuffered, F!chain(F!cursor(<<1>>), Buffered),
   F!take(2, F!cursor(<<1, NL, 2>>))}
Readers == BufReaders \cup {Plain, F!take(2, Plain), F!chain(Plain, F!device(2))}

Texts ==
  {<<s, t>> : s \in {<<>>, <<1>>, <<1, 2, NL, 3>>, <<NL, 1, 2, NL>>, <<1, CR, NL, CR, 3>>},
              t \in {<<>>, <<4, NL>>}}
Binary == {<<<<1, Bad, NL, 2>>, <<>>>>, <<<<1, NL, Bad>>, <<>>>>}

Takers ==
  {F!read(<<k>>) : k \in 0..3}
  \cup {F!read(<<1, 2>>), F!read(<<0, 1>>), F!read_exact(0), F!read_exact(3),
        F!read_to_end(<<7>>), F!read_to_string(<<7>>), F!bytes}
Liners ==
  {F!read_until(NL, <<7>>), F!read_until(2, <<>>), F!read_line(<<7>>), F!lines, F!split(NL),
   F!split(1)}

Polled ==
  [bytes : Texts \cup Binary, rd : Readers, fut : Takers]
  \cup [bytes : Texts \cup Binary, rd : BufReaders, fut : Liners]

R == INSTANCE ByteReaders
       WITH Programs <- Polled, Errors <- {"Interrupted", "Io"}, Faults <- 1,
            rd <- reader, task <- poller, result <- answer

NoReader == [bytes |-> <<<<>>, <<>>>>, rd |-> Plain, fut |-> R!bytes]

----------------------------------------------------------------------------
(* Buffered files.                                                         *)

B == INSTANCE BufferedFile
       WITH Contents <- {<<>>, <<1, 2, 3, 4>>}, Chunk <- {<<>>, <<7>>, <<8, 9>>, <<5, 6, 7>>},
            Cap <- 2, Low <- -3, Calls <- 4

----------------------------------------------------------------------------
(* Sockets.                                                                *)

C == INSTANCE NetPrograms

N == INSTANCE Net WITH Programs <- C!Programs, ret <- answers, written <- sent

NoCalls == [t \in Tasks |-> <<>>]

----------------------------------------------------------------------------
Init ==
  /\ part \in {"streams", "readers", "files", "sockets"}
  /\ IF part = "streams" THEN S!Init ELSE S!Start(NoPipeline, {2}, FALSE)
  /\ IF part = "readers" THEN R!Init ELSE R!Start(NoReader)
  /\ IF part = "files" THEN B!Init ELSE B!Start("cursor", <<>>)
  /\ IF part = "sockets" THEN N!Init ELSE N!Start(NoCalls)

Next ==
  /\ UNCHANGED part
  /\ \/ part = "streams" /\ S!Next /\ UNCHANGED <<readerVars, fileVars, socketVars>>
     \/ part = "readers" /\ R!Next /\ UNCHANGED <<streamVars, fileVars, socketVars>>
     \/ part = "files" /\ B!Next /\ UNCHANGED <<streamVars, readerVars, socketVars>>
     \/ part = "sockets" /\ N!Next /\ UNCHANGED <<streamVars, readerVars, fileVars>>

Spec == Init /\ [][Next]_<<part, streamVars, readerVars, fileVars, socketVars>>

\* The fairness of Streams.
FairSpec ==
  /\ Spec
  /\ WF_streamVars(part = "streams" /\ S!RunTask)
  /\ WF_streamVars(part = "streams" /\ (S!PollIdle \/ S!PollReady \/ S!PollPending))
  /\ WF_streamVars(part = "streams" /\ S!Arrive)

----------------------------------------------------------------------------
(* Properties.                                                             *)

\* Every pipeline over sources that end or are cut off is done at some time, although many
\* adapters answer Pending without arranging a wakeup.
StreamsEnd == part = "streams" => S!Ends

\* A pipeline of poll_next functions gives what it would on sequences, wherever its sources
\* answer Pending, and polls no source after it answered None.
StreamsCorrect == S!Correct /\ S!NotPolledAfterEnd


\* BufReader, BufWriter and Cursor behave as the file without a buffer.
ImplementsFile == B!ImplementsFile

\* When write_all or write_fmt has succeeded all its bytes are there, each once.
AllWritten == B!AllWritten

=============================================================================
