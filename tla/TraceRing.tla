------------------------------ MODULE TraceRing ------------------------------
(***************************************************************************)
(* The trace buffer of one processor, kernel/trace/ring_buffer.c in         *)
(* kernel/catchup-resolutions: a ring of pages into which writers put       *)
(* events without a lock, and one more page that the reader, on another     *)
(* processor, swaps with the oldest page of the ring.                       *)
(*                                                                         *)
(* Writers interrupt each other at any point and end before what they       *)
(* interrupted goes on, so they are a stack of frames of which the last     *)
(* one runs. Each step accesses shared memory once, or more often where     *)
(* nobody could tell; the three counters behind rb_num_of_entries are one   *)
(* (unread). Time stamps, iterators, resizing and the copying of whole      *)
(* pages are left out.                                                      *)
(***************************************************************************)
EXTENDS Integers, Sequences, FiniteSets

CONSTANTS
    NrPages,        \* nr_pages
    PageSize,       \* BUF_PAGE_SIZE
    MinSize,        \* RB_EVNT_MIN_SIZE
    Loads,          \* RB_FL_OVERWRITE or not, with what is written: the lengths of events
                    \* with their headers, and whether some are discarded
    MaxNest         \* how deep writers interrupt each other, 4 or 5 in the code

ASSUME NrPagesAssumption == NrPages \in Nat /\ NrPages >= 2
ASSUME LoadsAssumption ==
    Loads \subseteq [overwrite : BOOLEAN, lengths : SUBSET (MinSize .. PageSize), discard : BOOLEAN]

VARIABLES
    page,           \* struct buffer_page of each page; next carries its flag
    cpu,            \* struct ring_buffer_per_cpu
    stack,          \* the writers, each with its position and local variables
    reader,         \* the reader's position and local variables
    warned,         \* RB_WARN_ON has fired
    queue,          \* history: the places of unread events, in the order of their reservation
    torn            \* history: the reader and a writer have met where the code lets them

ringVars == <<page, cpu, stack, reader, warned, queue, torn>>

Page == 0 .. NrPages
After(p) == (p % NrPages) + 1
Before(p) == ((p + NrPages - 2) % NrPages) + 1

\* What memory holds: something old, an event that is being written, a finished one, or
\* padding, which a discarded event and the rest of a page are turned into.
Old == [len |-> 0, is |-> "old"]
Item(len, is) == [len |-> len, is |-> is]

EmptyPage(p) ==
    [next |-> IF p = 0 THEN 0 ELSE After(p), flag |-> IF p = NrPages THEN "head" ELSE "normal",
     prev |-> IF p = 0 THEN 0 ELSE Before(p),
     write |-> 0, entries |-> 0, commit |-> 0,
     data |-> [i \in 0 .. PageSize - 1 |-> Old]]

Frame(pc, len) ==
    [pc |-> pc, len |-> len, tail_page |-> 0, next_page |-> 0, tail |-> 0, type |-> "none",
     entries |-> 0, new_head |-> 0, alone |-> FALSE, again |-> FALSE, missed |-> FALSE]

NoReader == [pc |-> "get", page |-> 0, loops |-> 0, rounds |-> 0]

\* rb_allocate_cpu_buffer: page 0 is the reader page, page 1 is head, tail and commit page.
RingInit ==
    /\ page = [p \in Page |-> EmptyPage(p)]
    /\ \E load \in Loads :
        cpu = [load |-> load, head_page |-> 1, tail_page |-> 1,
               commit_page |-> 1, reader_page |-> 0, read |-> 0, committing |-> 0,
               unread |-> 0]
    /\ stack = <<>>
    /\ reader = NoReader
    /\ warned = {}
    /\ queue = <<>>
    /\ torn = FALSE

-----------------------------------------------------------------------------
(* The list of pages *)

\* What rb_head_page_set leaves and returns: the flag of the pointer from prev to head is
\* exchanged if it is the one given.
SetFlag(p, prev, head, old, new) ==
    IF p[prev].next = head /\ p[prev].flag = old THEN [p EXCEPT ![prev].flag = new] ELSE p
FlagOf(prev, head) == IF page[prev].next = head THEN page[prev].flag ELSE "moved"

\* rb_is_reader_page: nothing points back to it.
IsReaderPage(p) == page[page[p].prev].next # p

-----------------------------------------------------------------------------
(* Writers: __rb_reserve_next *)

Top == stack[Len(stack)]
At(pc) == stack # <<>> /\ Top.pc = pc
Go(frame) == stack' = [stack EXCEPT ![Len(stack)] = frame]
To(pc) == Go([Top EXCEPT !.pc = pc])
Place == <<Top.tail_page, Top.tail>>
Without(places) == SelectSeq(queue, LAMBDA place : place \notin places)

\* ring_buffer_lock_reserve, rb_start_commit: a writer starts, interrupting the others.
Enter(len) ==
    /\ Len(stack) < MaxNest
    /\ stack' = Append([i \in DOMAIN stack |-> [stack[i] EXCEPT !.missed = stack[i].pc # "reserve"]],
                       Frame("reserve", len))
    /\ cpu' = [cpu EXCEPT !.committing = @ + 1]
    /\ UNCHANGED <<page, reader, warned, queue, torn>>

ReadTail ==
    /\ At("reserve")
    /\ Go([Top EXCEPT !.pc = "add", !.tail_page = cpu.tail_page])
    /\ UNCHANGED <<page, cpu, reader, warned, queue, torn>>

\* The addition that gives the writer its place; past the end of the page there is none.
Add ==
    /\ At("add")
    /\ LET p == Top.tail_page
           tail == page[p].write
       IN  IF tail + Top.len <= PageSize
           THEN /\ page' = [page EXCEPT ![p].write = @ + Top.len, ![p].entries = @ + 1,
                                        ![p].data[tail] = Item(Top.len, "open")]
                /\ queue' = Append(queue, <<p, tail>>)
                /\ Go([Top EXCEPT !.pc = "held", !.tail = tail])
           ELSE /\ page' = [page EXCEPT ![p].write = @ + Top.len]
                /\ Go([Top EXCEPT !.pc = "move", !.tail = tail])
                /\ UNCHANGED queue
    /\ UNCHANGED <<cpu, reader, warned, torn>>

\* ring_buffer_unlock_commit.
Commit ==
    /\ At("held")
    /\ cpu' = [cpu EXCEPT !.unread = @ + 1]
    /\ page' = [page EXCEPT ![Top.tail_page].data[Top.tail].is = "event"]
    /\ Go(Frame("end", Top.len))
    /\ UNCHANGED <<reader, warned, queue, torn>>

\* ring_buffer_discard_commit: the event becomes padding and is taken off the count of its
\* page, which rb_decrement_entry looks for from the commit page on.
Discard ==
    /\ At("held") /\ cpu.load.discard
    /\ LET p == Top.tail_page
           lost == p # cpu.commit_page /\ IsReaderPage(p)
       IN  /\ page' = [page EXCEPT ![p].data[Top.tail].is = "padding",
                                   ![p].entries = IF lost THEN @ ELSE @ - 1]
           /\ warned' = warned \cup IF lost THEN {"decrement"} ELSE {}
    /\ queue' = Without({Place})
    /\ To("undo")
    /\ UNCHANGED <<cpu, reader, torn>>

\* rb_try_to_discard: the last event of the tail page gives its place back, which is then
\* the last one still.
IsLast == page[Top.tail_page].write = Top.tail + Top.len
TestLast ==
    /\ At("undo")
    /\ IF Top.tail_page = cpu.tail_page /\ IsLast THEN To("shorten") ELSE Go(Frame("end", Top.len))
    /\ UNCHANGED <<page, cpu, reader, warned, queue, torn>>

Shorten ==
    /\ At("shorten")
    /\ LET p == Top.tail_page
       IN  page' = IF IsLast
                   THEN [page EXCEPT ![p].write = Top.tail, ![p].data[Top.tail] = Old]
                   ELSE page
    /\ Go(Frame("end", Top.len))
    /\ UNCHANGED <<cpu, reader, warned, queue, torn>>

-----------------------------------------------------------------------------
(* Writers: rb_move_tail, rb_handle_head_page, rb_tail_page_update *)

MoveTail ==
    /\ At("move")
    /\ LET next == page[Top.tail_page].next
       IN  Go([Top EXCEPT !.next_page = next,
                          !.pc = IF next = cpu.commit_page THEN "fail" ELSE "head?"])
    /\ UNCHANGED <<page, cpu, reader, warned, queue, torn>>

\* rb_is_head_page; a page that has moved counts as one.
TestHead ==
    /\ At("head?")
    /\ To(IF FlagOf(Top.tail_page, Top.next_page) = "normal" THEN "touch" ELSE "reader?")
    /\ UNCHANGED <<page, cpu, reader, warned, queue, torn>>

\* A full ring whose oldest page may not go, unless the commit page is the reader page: then
\* the head page is free, and only a tail that has come round the ring stops here. While
\* the reader takes the page it is neither, and the tail goes on over what is not committed.
TestReader ==
    /\ At("reader?")
    /\ LET commit == cpu.commit_page
           away == IsReaderPage(commit)
           round == away /\ commit # cpu.tail_page
       IN  /\ Go([Top EXCEPT
                    !.entries = IF away \/ ~cpu.load.overwrite THEN 0 ELSE page[Top.next_page].entries,
                    !.pc = IF away
                           THEN IF round /\ commit = cpu.reader_page THEN "fail" ELSE "touch"
                           ELSE IF cpu.load.overwrite THEN "steal" ELSE "fail"])
           /\ torn' = (torn \/ (round /\ commit # cpu.reader_page))
    /\ UNCHANGED <<page, cpu, reader, warned, queue>>

PlacesOf(p) == {p} \X (0 .. PageSize - 1)

\* Mutant: the events of the page are taken off the count by every writer that meets it.
StealCountsTwice ==
    /\ At("steal")
    /\ LET type == FlagOf(Top.tail_page, Top.next_page)
       IN  /\ page' = SetFlag(page, Top.tail_page, Top.next_page, "head", "update")
           /\ queue' = IF type = "head" THEN Without(PlacesOf(Top.next_page)) ELSE queue
           /\ cpu' = IF type \in {"head", "update"} THEN [cpu EXCEPT !.unread = @ - Top.entries] ELSE cpu
           /\ Go([Top EXCEPT !.type = type, !.entries = 0,
                             !.pc = IF type \in {"head", "update"} THEN "next_head" ELSE "again"])
    /\ torn' = (torn \/ (FlagOf(Top.tail_page, Top.next_page) = "head" /\ cpu.tail_page # Top.tail_page))
    /\ UNCHANGED <<reader, warned>>

\* HEAD becomes UPDATE: from now on the oldest page is this writer's to overwrite.
Steal ==
    /\ At("steal")
    /\ LET type == FlagOf(Top.tail_page, Top.next_page)
       IN  /\ page' = SetFlag(page, Top.tail_page, Top.next_page, "head", "update")
           /\ queue' = IF type = "head" THEN Without(PlacesOf(Top.next_page)) ELSE queue
           /\ cpu' = IF type = "head" THEN [cpu EXCEPT !.unread = @ - Top.entries] ELSE cpu
           /\ Go([Top EXCEPT !.type = type, !.entries = 0,
                             !.pc = IF type \in {"head", "update"} THEN "next_head" ELSE "again"])
    /\ torn' = (torn \/ (FlagOf(Top.tail_page, Top.next_page) = "head" /\ cpu.tail_page # Top.tail_page))
    /\ UNCHANGED <<reader, warned>>

FindNewHead ==
    /\ At("next_head")
    /\ Go([Top EXCEPT !.pc = "new_head", !.new_head = page[Top.next_page].next])
    /\ UNCHANGED <<page, cpu, reader, warned, queue, torn>>

\* The page after it becomes the head page, unless an interrupt has done this. If the
\* reader has taken that page by now, the writer gives up.
SetNewHead ==
    /\ At("new_head")
    /\ LET ret == FlagOf(Top.next_page, Top.new_head)
       IN  /\ page' = SetFlag(page, Top.next_page, Top.new_head, "normal", "head")
           /\ warned' = warned \cup IF ret \in {"update", "moved"} THEN {"new head"} ELSE {}
           /\ To(CASE ret \in {"update", "moved"} -> "fail"
                   [] ret = "normal" -> "passed?"
                   [] ret = "head" -> "release")
           /\ torn' = (torn \/ ret = "moved")
    /\ UNCHANGED <<cpu, reader, queue>>

\* Interrupts that have moved the tail on have moved the head on as well.
TestPassed ==
    /\ At("passed?")
    /\ To(IF cpu.tail_page \in {Top.tail_page, Top.next_page} THEN "release" ELSE "reset_head")
    /\ UNCHANGED <<page, cpu, reader, warned, queue, torn>>

ResetHead ==
    /\ At("reset_head")
    /\ page' = SetFlag(page, Top.next_page, Top.new_head, "head", "normal")
    /\ To("release")
    /\ UNCHANGED <<cpu, reader, warned, queue, torn>>

\* Mutant: every writer ends the update, also one that has not begun it.
ReleaseAny ==
    /\ At("release")
    /\ LET wrong == FlagOf(Top.tail_page, Top.next_page) # "update"
       IN  /\ page' = SetFlag(page, Top.tail_page, Top.next_page, "update", "normal")
           /\ warned' = warned \cup IF wrong THEN {"release"} ELSE {}
           /\ Go([Top EXCEPT !.type = "none", !.new_head = 0,
                             !.pc = IF wrong THEN "fail" ELSE "touch"])
    /\ UNCHANGED <<cpu, reader, queue, torn>>

\* The writer that has set UPDATE ends it.
Release ==
    /\ At("release")
    /\ LET wrong == Top.type = "head" /\ FlagOf(Top.tail_page, Top.next_page) # "update"
       IN  /\ page' = IF Top.type = "head"
                      THEN SetFlag(page, Top.tail_page, Top.next_page, "update", "normal")
                      ELSE page
           /\ warned' = warned \cup IF wrong THEN {"release"} ELSE {}
           /\ Go([Top EXCEPT !.type = "none", !.new_head = 0,
                             !.pc = IF wrong THEN "fail" ELSE "touch"])
    /\ UNCHANGED <<cpu, reader, queue, torn>>

\* The updates of the write and entries fields are counted in them, so that an exchange
\* fails when another writer has started one since.
Touch ==
    /\ At("touch")
    /\ stack' = [i \in DOMAIN stack |->
                    IF i = Len(stack) THEN [Top EXCEPT !.pc = "still?", !.alone = TRUE]
                    ELSE [stack[i] EXCEPT !.alone = @ /\ stack[i].next_page # Top.next_page]]
    /\ UNCHANGED <<page, cpu, reader, warned, queue, torn>>

TestTail ==
    /\ At("still?")
    /\ To(IF cpu.tail_page = Top.tail_page THEN "zero" ELSE "again")
    /\ UNCHANGED <<page, cpu, reader, warned, queue, torn>>

Zero ==
    /\ At("zero")
    /\ LET p == Top.next_page
       IN  page' = IF Top.alone
                   THEN [page EXCEPT ![p].write = 0, ![p].entries = 0, ![p].commit = 0,
                                     ![p].data = [i \in DOMAIN @ |-> Old]]
                   ELSE [page EXCEPT ![p].commit = 0]
    /\ To("advance")
    /\ UNCHANGED <<cpu, reader, warned, queue, torn>>

Advance ==
    /\ At("advance")
    /\ cpu' = [cpu EXCEPT !.tail_page = IF @ = Top.tail_page THEN Top.next_page ELSE @]
    /\ To("again")
    /\ UNCHANGED <<page, reader, warned, queue, torn>>

\* rb_reset_tail: the writer that has crossed the end of the page pads the rest of it.
ResetTail ==
    /\ At("again") \/ At("fail")
    /\ LET p == Top.tail_page
           rest == PageSize - Top.tail
       IN  page' = IF rest < MinSize
                   THEN [page EXCEPT ![p].write = @ - Top.len]
                   ELSE [page EXCEPT ![p].write = @ - (Top.len - rest),
                                     ![p].data[Top.tail] = Item(rest, "padding")]
    /\ Go([Frame("end", Top.len) EXCEPT !.again = Top.pc = "again"])
    /\ UNCHANGED <<cpu, reader, warned, queue, torn>>

-----------------------------------------------------------------------------
(* Writers: rb_end_commit, rb_set_commit_to_write *)

\* Only the writer that has interrupted nobody commits, for all of them.
EndCommit ==
    /\ At("end")
    /\ Go([Top EXCEPT !.missed = FALSE,
                      !.pc = IF cpu.committing = 1 THEN "pages" ELSE "leave"])
    /\ UNCHANGED <<page, cpu, reader, warned, queue, torn>>

CommitPage ==
    /\ At("pages")
    /\ LET p == cpu.commit_page
           moved == p # cpu.tail_page
           wrong == moved /\ IsReaderPage(cpu.tail_page)
       IN  /\ IF moved /\ ~wrong
              THEN /\ page' = [page EXCEPT ![p].commit = page[p].write]
                   /\ cpu' = [cpu EXCEPT !.commit_page = page[p].next]
              ELSE UNCHANGED <<page, cpu>>
           /\ warned' = warned \cup IF wrong THEN {"commit"} ELSE {}
           /\ To(IF wrong THEN "leave" ELSE IF moved THEN "pages" ELSE "index")
    /\ UNCHANGED <<reader, queue, torn>>

CommitIndex ==
    /\ At("index")
    /\ LET p == cpu.commit_page
       IN  IF page[p].commit = page[p].write
           THEN To("tail?") /\ UNCHANGED page
           ELSE page' = [page EXCEPT ![p].commit = page[p].write] /\ UNCHANGED stack
    /\ UNCHANGED <<cpu, reader, warned, queue, torn>>

TestCommitted ==
    /\ At("tail?")
    /\ To(IF cpu.commit_page = cpu.tail_page THEN "leave" ELSE "pages")
    /\ UNCHANGED <<page, cpu, reader, warned, queue, torn>>

Leave ==
    /\ At("leave")
    /\ cpu' = [cpu EXCEPT !.committing = @ - 1]
    /\ To("missed?")
    /\ UNCHANGED <<page, reader, warned, queue, torn>>

\* Mutant: a writer that has committed does not look for what came in between.
MissedIsLeft ==
    /\ At("missed?")
    /\ cpu' = IF Top.again THEN [cpu EXCEPT !.committing = @ + 1] ELSE cpu
    /\ IF Top.again THEN Go(Frame("reserve", Top.len))
       ELSE stack' = SubSeq(stack, 1, Len(stack) - 1)
    /\ UNCHANGED <<page, reader, warned, queue, torn>>

\* Mutant: a writer that tries again after the move is not counted as committing.
RetryUncounted ==
    /\ At("missed?")
    /\ LET missed == Top.missed /\ cpu.committing = 0
       IN  /\ cpu' = IF missed THEN [cpu EXCEPT !.committing = @ + 1] ELSE cpu
           /\ IF missed THEN To("end")
              ELSE IF Top.again THEN Go(Frame("reserve", Top.len))
              ELSE stack' = SubSeq(stack, 1, Len(stack) - 1)
    /\ UNCHANGED <<page, reader, warned, queue, torn>>

\* What came in between and could not commit is committed; then the writer tries again,
\* or is done.
TestMissed ==
    /\ At("missed?")
    /\ LET missed == Top.missed /\ cpu.committing = 0
       IN  /\ cpu' = IF missed \/ Top.again THEN [cpu EXCEPT !.committing = @ + 1] ELSE cpu
           /\ IF missed THEN To("end")
              ELSE IF Top.again THEN Go(Frame("reserve", Top.len))
              ELSE stack' = SubSeq(stack, 1, Len(stack) - 1)
    /\ UNCHANGED <<page, reader, warned, queue, torn>>

WriterStep ==
    \/ ReadTail \/ Add \/ Commit \/ TestLast \/ Shorten
    \/ MoveTail \/ TestHead \/ TestReader \/ Steal \/ FindNewHead \/ SetNewHead
    \/ TestPassed \/ ResetHead \/ Release \/ Touch \/ TestTail \/ Zero \/ Advance \/ ResetTail
    \/ EndCommit \/ CommitPage \/ CommitIndex \/ TestCommitted \/ Leave \/ TestMissed

-----------------------------------------------------------------------------
(* The reader: ring_buffer_consume, rb_get_reader_page, rb_swap_reader_page *)

ReaderAt(pc) == reader.pc = pc
ReaderTo(pc) == reader' = [reader EXCEPT !.pc = pc]
Give(warning) == reader' = NoReader /\ warned' = warned \cup warning

\* Another round at most three times, and only when everything on the page is read.
GetReaderPage ==
    /\ ReaderAt("get")
    /\ LET p == page[cpu.reader_page]
       IN  IF reader.loops = 3 \/ cpu.read > p.commit THEN Give({"get"})
           ELSE /\ reader' = IF cpu.read < p.commit THEN [NoReader EXCEPT !.pc = "take"]
                             ELSE [reader EXCEPT !.pc = "empty?", !.loops = @ + 1]
                /\ UNCHANGED warned
    /\ UNCHANGED <<page, cpu, stack, queue, torn>>

\* rb_set_head_page looks for the head page from the last one known.
Look == reader' = [reader EXCEPT !.pc = "scan", !.page = cpu.head_page, !.rounds = 0]

\* Nothing to do when the commit page is the reader page, or rb_num_of_entries is 0. Otherwise
\* the reader page is emptied, together with what was committed to it since the step before.
TestEmpty ==
    /\ ReaderAt("empty?")
    /\ LET p == cpu.reader_page
           none == cpu.commit_page = p \/ cpu.unread = 0
       IN  IF none THEN reader' = NoReader /\ UNCHANGED <<page, torn>>
           ELSE /\ page' = [page EXCEPT ![p].write = 0, ![p].entries = 0, ![p].commit = 0,
                                        ![p].data = [i \in DOMAIN @ |-> Old]]
                /\ torn' = (torn \/ cpu.read < page[p].commit)
                /\ Look
    /\ UNCHANGED <<cpu, stack, warned, queue>>

Scan ==
    /\ ReaderAt("scan")
    /\ LET p == reader.page
           next == page[p].next
           rounds == IF next = cpu.head_page THEN reader.rounds + 1 ELSE reader.rounds
       IN  IF FlagOf(page[p].prev, p) # "normal"
           THEN /\ cpu' = [cpu EXCEPT !.head_page = p]
                /\ reader' = [reader EXCEPT !.pc = "swap", !.rounds = 0] /\ UNCHANGED warned
           ELSE /\ IF rounds = 3 THEN Give({"no head"})
                   ELSE /\ reader' = [reader EXCEPT !.page = next, !.rounds = rounds]
                        /\ UNCHANGED warned
                /\ UNCHANGED cpu
    /\ torn' = (torn \/ (reader'.pc # "swap" /\ reader' = NoReader))
    /\ UNCHANGED <<page, stack, queue>>

\* Mutant: the reader page takes the place of the page found, head or not by now.
SwapAny ==
    /\ ReaderAt("swap")
    /\ LET head == reader.page
           prev == page[head].prev
       IN  page' = [page EXCEPT ![cpu.reader_page].next = page[head].next,
                                ![cpu.reader_page].flag = "head",
                                ![cpu.reader_page].prev = prev,
                                ![prev].next = cpu.reader_page, ![prev].flag = "normal"]
    /\ ReaderTo("become")
    /\ UNCHANGED <<cpu, stack, warned, queue, torn>>

\* A writer has marked a head that interrupts had moved on long ago, and has not noticed yet.
MarkedInError(prev, head) ==
    \E i \in DOMAIN stack :
        /\ stack[i].pc \in {"passed?", "reset_head"}
        /\ stack[i].next_page = prev /\ stack[i].new_head = head
        /\ cpu.tail_page \notin {stack[i].tail_page, prev}

\* The reader page gets the neighbours of the head page, and takes its place if that is
\* still the head (rb_head_page_replace).
Swap ==
    /\ ReaderAt("swap")
    /\ LET head == reader.page
           prev == page[head].prev
           spliced == [page EXCEPT ![cpu.reader_page].next = page[head].next,
                                   ![cpu.reader_page].flag = "head",
                                   ![cpu.reader_page].prev = prev]
       IN  IF FlagOf(prev, head) = "head"
           THEN /\ page' = [spliced EXCEPT ![prev].next = cpu.reader_page, ![prev].flag = "normal"]
                /\ torn' = (torn \/ MarkedInError(prev, head))
                /\ ReaderTo("become")
           ELSE page' = spliced /\ Look /\ UNCHANGED torn
    /\ UNCHANGED <<cpu, stack, warned, queue>>

\* Mutant: the new head page still points back to the page that the reader has taken.
BecomeOneWay ==
    /\ ReaderAt("become")
    /\ cpu' = [cpu EXCEPT !.head_page = page[@].next, !.reader_page = reader.page,
                          !.read = 0]
    /\ reader' = [reader EXCEPT !.pc = "get", !.page = 0]
    /\ UNCHANGED <<page, stack, warned, queue, torn>>

\* Until now the writers have seen the old reader page.
BecomeReader ==
    /\ ReaderAt("become")
    /\ page' = [page EXCEPT ![page[reader.page].next].prev = cpu.reader_page]
    /\ cpu' = [cpu EXCEPT !.head_page = page[@].next, !.reader_page = reader.page,
                          !.read = 0]
    /\ reader' = [reader EXCEPT !.pc = "get", !.page = 0]
    /\ UNCHANGED <<stack, warned, queue, torn>>

\* Once no writer is beyond the end of the page the event is taken. A call that meets
\* padding starts again.
TakeEvent ==
    /\ ReaderAt("take")
    /\ LET p == cpu.reader_page
           item == page[p].data[cpu.read]
           event == item.is \in {"event", "open"}
       IN  /\ page[p].write <= PageSize
           /\ cpu' = [cpu EXCEPT !.read = @ + item.len, !.unread = IF event THEN @ - 1 ELSE @]
           /\ queue' = IF event THEN Without({<<p, cpu.read>>}) ELSE queue
           /\ Give(IF item = Old THEN {"null event"} ELSE {})
    /\ UNCHANGED <<page, stack, torn>>

ReaderStep ==
    \/ GetReaderPage \/ TestEmpty \/ Scan \/ Swap \/ BecomeReader \/ TakeEvent

RingNext ==
    \/ \E len \in cpu.load.lengths : Enter(len)
    \/ WriterStep \/ Discard
    \/ ReaderStep

RingSpec == RingInit /\ [][RingNext]_ringVars

-----------------------------------------------------------------------------
(* Properties *)

Is(place) == page[place[1]].data[place[2]].is

\* The page that the reader reads from, from the moment it is out of the ring.
Held == IF reader.pc = "become" THEN reader.page ELSE cpu.reader_page

Idle == stack = <<>> /\ reader = NoReader

\* Type invariant. As many writers are committing as have not left; no field runs below
\* zero, and nothing is committed beyond the end of a page.
RingTypeOK ==
    /\ page \in [Page -> [next : Page, prev : Page, flag : {"normal", "head", "update"},
                          write : Nat, entries : Nat, commit : 0 .. PageSize,
                          data : [0 .. PageSize - 1 ->
                                    [len : 0 .. PageSize, is : {"old", "open", "event", "padding"}]]]]
    /\ cpu.committing = Cardinality({i \in DOMAIN stack : stack[i].pc # "missed?"})
    /\ cpu.unread \in Nat

\* The pages that the reader does not hold are one ring, in both directions once the reader
\* is done; when no writer is at work one of its pointers is marked as the head and none is
\* being updated. (Of two pages both can be marked: see rb_handle_head_page when the reader
\* has taken the tail page.)
RingIsWhole ==
    LET ring == Page \ {Held} IN
    \/ torn
    \/ /\ {page[p].next : p \in ring} = ring
       /\ reader.pc = "become" \/ \A p \in ring : page[page[p].next].prev = p
       /\ stack = <<>> => /\ \E p \in ring : page[p].flag = "head"
                          /\ \A p \in ring : page[p].flag # "update"

\* None of the buffer's own sanity checks (RB_WARN_ON), which switch the buffer off, fires:
\* the head page is where it should be, the reader needs no fourth round and meets no
\* event that is not there.
NoWarning == torn \/ warned = {}

\* rb_num_of_entries, which decides whether the reader looks for events at all, is the number
\* of unread events when nobody is at work: every event is counted once as written, read or
\* overwritten, whoever interrupted whom.
Counted == torn \/ (Idle => cpu.unread = Len(queue))

\* When nobody is at work every event is committed, those of writers that found another one
\* committing as well, and the reader is told that there is nothing only when that is so.
NothingLeftBehind ==
    \/ torn
    \/ Idle =>
        /\ cpu.commit_page = cpu.tail_page
        /\ page[cpu.tail_page].commit = page[cpu.tail_page].write
        /\ cpu.commit_page = cpu.reader_page /\ cpu.read = page[cpu.reader_page].commit
            => queue = <<>>

Kinds(places) == [i \in DOMAIN places |-> Is(places[i])]
Log == INSTANCE TraceLog WITH
           batch <- Kinds(SelectSeq(queue, LAMBDA place : place[1] = Held)),
           ring  <- Kinds(SelectSeq(queue, LAMBDA place : place[1] # Held))

\* The trace buffer is a log: events are read in the order of their reservation, only once
\* and only when they are finished; what the reader has taken is not overwritten, and only
\* the oldest finished events of the ring are.
ImplementsLog == Log!LogInit /\ [][torn' \/ Log!LogNext]_(Log!logVars)
=============================================================================
