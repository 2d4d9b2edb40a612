--------------------------- MODULE DiskBufferPool ---------------------------
(***************************************************************************)
(* The buffer pool: DiskBufferPool (one per open file) over the frames of  *)
(* BPFrameManager, which all files share (storage/default/                 *)
(* disk_buffer_pool.{h,cpp}).                                              *)
(*                                                                         *)
(*   frame[<<f, p>>]   the Frame that caches page p of file f, or NoFrame  *)
(*   age[<<f, p>>]     its place in the LRU list: 0 is the front, and the  *)
(*                     search for a victim starts at the largest age       *)
(*   disk[<<f, p>>]    what a read of the page from the file returns,      *)
(*                     Absent past the end of the file                     *)
(*   opened            the files with an open DiskBufferPool               *)
(*   disposed[f]       disposed_pages: pages to dispose when unpinned      *)
(*   file_desc[f]      file_desc_ of its pool, NoFd while it is closed     *)
(*   dangling          the descriptors that fd_buffer_pools_, the map of   *)
(*                     BufferPoolManager, still leads to a deleted pool    *)
(*   astray            a page was written to, or taken for, another page:  *)
(*                     the state is not followed any further               *)
(*                                                                         *)
(* hdr_frame_ is the frame of page 0, pinned while the file is open, and   *)
(* file_header_ points into it: Hdr(f) reads it.  Page contents are model  *)
(* values; the page_num stored in a page is its key here.  A call that     *)
(* returns an error and changes nothing is a stuttering step and has no    *)
(* action.  The callers (record manager and B+ tree) are held to their     *)
(* part: they write and unpin only pages they have pinned, and ask only    *)
(* for pages that are allocated.                                           *)
(***************************************************************************)
EXTENDS PageFile

CONSTANTS
  Files,          \* file names
  Val,            \* contents a caller may give a page
  Zero,           \* the content of a cleared page
  Absent,         \* no such page in the file
  Hole,           \* zero bytes that a write past the end left before it
  Fds, NoFd,      \* file descriptors; none
  NoFrame,        \* the page is not cached
  PoolSize,       \* frames in the memory pool (allocator_)
  MaxPin,         \* bound: pins of one frame at a time
  WriteResults,   \* outcomes of writen: {TRUE}, or {TRUE, FALSE} with failures
  ExtendResults,  \* the same for the write that makes a file longer
  InOrderReplay   \* replay meets the pages in the order they were allocated

ASSUME PoolAssumption ==
  /\ IsFiniteSet(Files)
  /\ PoolSize \in Nat
  /\ MaxPin \in Nat
  /\ WriteResults \subseteq BOOLEAN
  /\ ExtendResults \subseteq BOOLEAN
  /\ NoFd \notin Fds
  /\ InOrderReplay \in BOOLEAN

ASSUME ValuesAssumption ==
  /\ NoFrame \notin [pin : Nat, dirty : BOOLEAN,
                     data : Val \cup {Zero} \cup FileHeader]
  /\ Absent \notin Val \cup {Zero, Hole} \cup FileHeader
  /\ Hole \notin Val \cup {Zero} \cup FileHeader

VARIABLES frame, age, disk, opened, disposed, file_desc, dangling, astray

fdvars == <<file_desc, dangling, astray>>

vars == <<frame, age, disk, opened, disposed, file_desc, dangling, astray>>

PageData == Val \cup {Zero} \cup FileHeader

FrameId == Files \X PageNum

Frame == [pin : Nat, dirty : BOOLEAN, data : PageData]

PagesOK ==
  /\ frame \in [FrameId -> Frame \cup {NoFrame}]
  /\ age \in [FrameId -> Nat]
  /\ disk \in [FrameId -> PageData \cup {Absent, Hole}]
  /\ opened \subseteq Files
  /\ disposed \in [Files -> SUBSET PageNum]
  /\ \A f \in Files :
       LET hdr == <<f, HeaderPage>> IN
       /\ disk[hdr] \in FileHeader \cup {Absent}
       /\ frame[hdr] = NoFrame \/ frame[hdr].data \in FileHeader

FdsOK ==
  /\ file_desc \in [Files -> Fds \cup {NoFd}]
  /\ \A f \in Files : f \in opened <=> file_desc[f] # NoFd
  /\ \A f, g \in opened : file_desc[f] = file_desc[g] => f = g
  /\ dangling \subseteq Fds
  /\ astray \in BOOLEAN

TypeOK == PagesOK /\ FdsOK

-----------------------------------------------------------------------------
(* BPFrameManager *)

Cached == {id \in FrameId : frame[id] # NoFrame}

HdrId(f) == <<f, HeaderPage>>

\* *file_header_
Hdr(f) == frame[HdrId(f)].data

\* Mutant: find_list forgets to compare the file.
FileFramesOfAny(f) == Cached

(* find_list *)
FileFrames(f) == {id \in Cached : id[1] = f}

(* The LRU list of the frames `kept`, ordered by `a`, closed up: LruCache  *)
(* removes an entry from the middle, and touch and push move one to the    *)
(* head, which is an a of -1.                                              *)
Ranked(kept, a) ==
  [id \in FrameId |->
     IF id \in kept THEN Cardinality({x \in kept : a[x] < a[id]}) ELSE 0]

ToFront(id) == [age EXCEPT ![id] = -1]

Touched(id) == Ranked(Cached, ToFront(id))

(* can_purge, and the frame begin_purge returns: the one nearest the tail. *)
Evictable == {id \in Cached : frame[id].pin = 0}

IsVictim(id) == id \in Evictable /\ \A x \in Evictable : age[x] <= age[id]

(* The files after flush_page wrote the frames in `ids`.  Writing past the *)
(* end of a file fills the gap with zero bytes.                            *)
WriteBack(ids) ==
  [id \in FrameId |->
     IF id \in ids THEN frame[id].data
     ELSE IF disk[id] = Absent /\ \E x \in ids : x[1] = id[1] /\ id[2] < x[2]
          THEN Hole
          ELSE disk[id]]

(* The files `d` after one page was written as page `id`. *)
Written(d, id, data) ==
  [x \in FrameId |->
     IF x = id THEN data
     ELSE IF d[x] = Absent /\ x[1] = id[1] /\ x[2] < id[2] THEN Hole
          ELSE d[x]]

\* Mutant: a purge does not write dirty frames back.
NoneDirtyOf(ids) == {}

DirtyOf(ids) == {id \in ids : frame[id].dirty}

(* A dirty frame is freed only after writen succeeded. *)
CanWrite(id) == frame[id].dirty => TRUE \in WriteResults

WriteMayFail(id) == frame[id].dirty /\ FALSE \in WriteResults

(* allocate_frame for a page that is not cached takes a free frame of the  *)
(* pool, or evicts one victim, written back first when dirty.  These are   *)
(* the sets of frames it may evict; there is none when it fails.           *)
RoomChoices ==
  IF Cardinality(Cached) < PoolSize THEN {{}}
  ELSE {{v} : v \in {x \in FrameId :
                       IsVictim(x) /\ CanWrite(x)}}

(* The entry of fd_buffer_pools_ for the descriptor of f is a pool that    *)
(* was deleted: open_file inserts without overwriting what is there.       *)
Stale(f) == file_desc[f] \in dangling

(* A victim is written by BufferPoolManager::flush_page, through the pool  *)
(* the map holds for its descriptor.  A deleted pool is freed memory: it   *)
(* may hold this file's new pool by now, or another one, and then the page *)
(* goes to that file; or file_desc_ is still -1, and the write fails.      *)
EvictedDisks(gone) ==
  {WriteBack(DirtyOf(gone))} \cup
  UNION {{Written(disk, <<g, v[2]>>, frame[v].data) : g \in opened} :
           v \in {x \in DirtyOf(gone) : Stale(x[1])}}

WentAstray(gone, d) == d # WriteBack(DirtyOf(gone))

(* allocate_frame fails, and changes nothing, when every frame is pinned   *)
(* ("All pages have been used and pinned.") or the victim's write fails.   *)
AllocateFrameFails ==
  /\ Cardinality(Cached) >= PoolSize
  /\ \/ Evictable = {}
     \/ \E v \in FrameId :
          /\ IsVictim(v)
          /\ WriteMayFail(v) \/ (frame[v].dirty /\ Stale(v[1]))

\* the frame a new or a loaded page gets
PinnedFrame(data) == [pin |-> 1, dirty |-> FALSE, data |-> data]

FreedFrames(gone) ==
  [id \in FrameId |-> IF id \in gone THEN NoFrame ELSE frame[id]]

\* the frame of `id` with its pin count changed by n; written; cleaned
Repinned(id, n) ==
  [pin |-> frame[id].pin + n, dirty |-> frame[id].dirty, data |-> frame[id].data]

Modified(id, v) == [pin |-> frame[id].pin, dirty |-> TRUE, data |-> v]

Cleaned(id) == [pin |-> frame[id].pin, dirty |-> FALSE, data |-> frame[id].data]

\* hdr_frame_ after file_header_ was set to h and the frame marked dirty
HdrFrame(f, h) == Modified(HdrId(f), h)

-----------------------------------------------------------------------------

Init ==
  /\ frame = [id \in FrameId |-> NoFrame]
  /\ age = [id \in FrameId |-> 0]
  /\ disk = [id \in FrameId |-> Absent]
  /\ opened = {}
  /\ disposed = [f \in Files |-> {}]
  /\ file_desc = [f \in Files |-> NoFd]
  /\ dangling = {}
  /\ astray = FALSE

(* BufferPoolManager::create_file; O_EXCL refuses an existing file. *)
CreateFile(f) ==
  /\ disk[HdrId(f)] = Absent
  /\ disk' = [disk EXCEPT ![HdrId(f)] = NewHeader]
  /\ UNCHANGED <<frame, age, opened, disposed, fdvars>>

(* open_file: the header page is loaded and stays pinned.  Which of the    *)
(* descriptors not in use it gets is up to the rest of the server.         *)
OpenFile(f) ==
  /\ f \notin opened
  /\ disk[HdrId(f)] # Absent
  /\ \E gone \in RoomChoices : \E d \in EvictedDisks(gone) :
       /\ frame' = [FreedFrames(gone) EXCEPT
                      ![HdrId(f)] = PinnedFrame(disk[HdrId(f)])]
       /\ age' = Ranked((Cached \ gone) \cup {HdrId(f)}, ToFront(HdrId(f)))
       /\ disk' = d
       /\ astray' = WentAstray(gone, d)
  /\ \E fd \in Fds \ {file_desc[g] : g \in opened} :
       file_desc' = [file_desc EXCEPT ![f] = fd]
  /\ opened' = opened \cup {f}
  /\ UNCHANGED <<disposed, dangling>>

\* Mutant: close_file purges the unpinned frames only.
CloseFileKeepsPinned(f) ==
  /\ f \in opened
  /\ frame' = FreedFrames(FileFrames(f) \cap Evictable)
  /\ age' = Ranked(Cached \ (FileFrames(f) \cap Evictable), age)
  /\ disposed' = [disposed EXCEPT ![f] = {}]
  /\ opened' = opened \ {f}
  /\ file_desc' = [file_desc EXCEPT ![f] = NoFd]
  /\ dangling' = dangling \cup {file_desc[f]}
  /\ UNCHANGED <<disk, astray>>

(* close_file: every frame of the file is freed, pinned or not, and no     *)
(* page is flushed; only log replay brings the data back.                  *)
Closed(f) ==
  /\ f \in opened
  /\ frame' = FreedFrames(FileFrames(f))
  /\ age' = Ranked(Cached \ FileFrames(f), age)
  /\ disposed' = [disposed EXCEPT ![f] = {}]
  /\ opened' = opened \ {f}
  /\ file_desc' = [file_desc EXCEPT ![f] = NoFd]
  /\ UNCHANGED <<disk, astray>>

(* DiskBufferPool::close_file, as the table and the index call it: it sets *)
(* file_desc_ to -1 before BufferPoolManager::close_file reads it, so the  *)
(* entry that is erased from fd_buffer_pools_ is that of -1.               *)
CloseFile(f) == Closed(f) /\ dangling' = dangling \cup {file_desc[f]}

(* BufferPoolManager::close_file, called when an index fails to open: the  *)
(* entry goes first, and the destructor closes the file.                   *)
CloseByManager(f) == Closed(f) /\ dangling' = dangling \ {file_desc[f]}

(* get_this_page for a page that is not cached: evict, then load; a page   *)
(* past the end of the file fails to load and its frame is freed again.    *)
(* A page read from a hole takes itself for page 0, the number it was read *)
(* with: its frame can be written over the header and is never freed.      *)
(* `hdr` is the header frame at the time of the call.                      *)
LoadPage(f, p, hdr) ==
  LET id == <<f, p>> IN
  \E gone \in RoomChoices : \E d \in EvictedDisks(gone) :
    /\ disk' = d
    /\ astray' = (WentAstray(gone, d) \/ d[id] = Hole)
    /\ \/ /\ disk'[id] \notin {Absent, Hole}
          /\ frame' = [FreedFrames(gone) EXCEPT
                         ![id] = PinnedFrame(disk'[id]), ![HdrId(f)] = hdr]
          /\ age' = Ranked((Cached \ gone) \cup {id}, ToFront(id))
       \/ /\ disk'[id] \in {Absent, Hole}
          /\ frame' = [FreedFrames(gone) EXCEPT ![HdrId(f)] = hdr]
          /\ age' = Ranked(Cached \ gone, age)

(* get_this_page: pin the cached page, or load it. *)
GetThisPage(f, p) ==
  LET id == <<f, p>> IN
  /\ f \in opened
  /\ p \in Hdr(f).bitmap \ {HeaderPage}
  /\ \/ /\ id \in Cached
        /\ frame[id].pin < MaxPin
        /\ frame' = [frame EXCEPT ![id] = Repinned(id, 1)]
        /\ age' = Touched(id)
        /\ UNCHANGED <<disk, astray>>
     \/ id \notin Cached /\ LoadPage(f, p, frame[HdrId(f)])
  /\ UNCHANGED <<opened, disposed, file_desc, dangling>>

(* The holder of a pinned page changes it and calls mark_dirty. *)
WritePage(f, p, v) ==
  LET id == <<f, p>> IN
  /\ f \in opened
  /\ p # HeaderPage
  /\ id \in Cached /\ frame[id].pin > 0
  /\ frame' = [frame EXCEPT ![id] = Modified(id, v)]
  /\ UNCHANGED <<age, disk, opened, disposed, fdvars>>

(* allocate_page while a free page exists: its bit is set first, then the  *)
(* page is fetched.  When the fetch fails the bit stays set.               *)
ReuseFreePage(f) ==
  LET p == FirstFreePage(Hdr(f))
      hdr == HdrFrame(f, ReusePage(Hdr(f), p))
  IN
  /\ f \in opened
  /\ HasFreePage(Hdr(f))
  /\ \/ LoadPage(f, p, hdr)
     \/ /\ AllocateFrameFails
        /\ frame' = [frame EXCEPT ![HdrId(f)] = hdr]
        /\ UNCHANGED <<age, disk, astray>>
  /\ UNCHANGED <<opened, disposed, file_desc, dangling>>

(* allocate_page when there is none: the file is extended by a cleared     *)
(* page, which is written at once; a failure of that write is ignored.     *)
ExtendWithPage(f) ==
  LET id == <<f, Hdr(f).page_count>> IN
  /\ f \in opened
  /\ ~ HasFreePage(Hdr(f)) /\ ~ FileIsFull(Hdr(f))
  /\ \E gone \in RoomChoices, ok \in ExtendResults : \E d \in EvictedDisks(gone) :
       /\ frame' = [FreedFrames(gone) EXCEPT
                      ![id] = PinnedFrame(Zero),
                      ![HdrId(f)] = HdrFrame(f, ExtendFile(Hdr(f)))]
       /\ age' = Ranked((Cached \ gone) \cup {id}, ToFront(id))
       /\ disk' = IF ok THEN Written(d, id, Zero) ELSE d
       /\ astray' = WentAstray(gone, d)
  /\ UNCHANGED <<opened, disposed, file_desc, dangling>>

\* Mutant: the frame is freed although its write failed.
ReleaseUnwritten(f, p) ==
  LET id == <<f, p>> IN
  /\ \E ok \in WriteResults :
       disk' = IF ok THEN WriteBack(DirtyOf({id} \cap Cached)) ELSE disk
  /\ frame' = [FreedFrames({id}) EXCEPT
                 ![HdrId(f)] = HdrFrame(f, ReleasePage(Hdr(f), p))]
  /\ age' = Ranked(Cached \ {id}, age)

(* dispose_page once purge_page has freed the frame. *)
Release(f, p) ==
  LET id == <<f, p>> IN
  /\ disk' = WriteBack(DirtyOf({id} \cap Cached))
  /\ frame' = [FreedFrames({id}) EXCEPT
                 ![HdrId(f)] = HdrFrame(f, ReleasePage(Hdr(f), p))]
  /\ age' = Ranked(Cached \ {id}, age)

(* dispose_page: a page that cannot be purged now, because it is pinned or *)
(* its write failed, is remembered in disposed_pages.                      *)
DisposePage(f, p) ==
  LET id == <<f, p>> IN
  /\ f \in opened
  /\ p \in Hdr(f).bitmap \ {HeaderPage}
  /\ \/ /\ id \in Cached => frame[id].pin = 0 /\ CanWrite(id)
        /\ Release(f, p)
        /\ UNCHANGED disposed
     \/ /\ id \in Cached
        /\ frame[id].pin > 0 \/ WriteMayFail(id)
        /\ disposed' = [disposed EXCEPT ![f] = @ \cup {p}]
        /\ age' = Touched(id)
        /\ UNCHANGED <<frame, disk>>
  /\ UNCHANGED <<opened, fdvars>>

\* Mutant: no assertion on the pin count, and the disposal is not taken off
\* the list.
UnpinPageUnchecked(f, p) ==
  LET id == <<f, p>> IN
  /\ f \in opened
  /\ p # HeaderPage
  /\ id \in Cached
  /\ frame' = [frame EXCEPT ![id] = Repinned(id, -1)]
  /\ UNCHANGED <<age, disk, opened, disposed, fdvars>>

(* unpin_page: the last holder of a page in disposed_pages disposes of it; *)
(* if that fails, the page is taken out of disposed_pages all the same.    *)
UnpinPage(f, p) ==
  LET id == <<f, p>> IN
  /\ f \in opened
  /\ p # HeaderPage
  /\ id \in Cached /\ frame[id].pin >= 1
  /\ \/ /\ frame[id].pin > 1 \/ p \notin disposed[f]
        /\ frame' = [frame EXCEPT ![id] = Repinned(id, -1)]
        /\ UNCHANGED <<age, disk, disposed>>
     \/ /\ frame[id].pin = 1 /\ p \in disposed[f]
        /\ disposed' = [disposed EXCEPT ![f] = @ \ {p}]
        /\ \/ CanWrite(id) /\ Release(f, p)
           \/ /\ WriteMayFail(id)
              /\ frame' = [frame EXCEPT ![id] = Repinned(id, -1)]
              /\ age' = Touched(id)
              /\ UNCHANGED disk
  /\ UNCHANGED <<opened, fdvars>>

(* purge_page: free the frame of an unpinned page. *)
PurgePage(f, p) ==
  LET id == <<f, p>> IN
  /\ f \in opened
  /\ p # HeaderPage
  /\ id \in Cached /\ frame[id].pin = 0 /\ CanWrite(id)
  /\ frame' = FreedFrames({id})
  /\ age' = Ranked(Cached \ {id}, age)
  /\ disk' = WriteBack(DirtyOf({id}))
  /\ UNCHANGED <<opened, disposed, fdvars>>

(* The frames of f the loops of purge_all_pages and flush_all_pages have   *)
(* been through, from the head of the LRU list, when the write of `stop`   *)
(* fails; all of them when no write fails.                                 *)
LoopedOver(ids, written) ==
  {ids} \cup
  (IF FALSE \in WriteResults
   THEN {{x \in ids : age[x] < age[stop]} : stop \in written} ELSE {})

UnpinnedOf(f) == FileFrames(f) \cap Evictable

(* purge_all_pages: pinned pages are skipped. *)
PurgeAllPages(f) ==
  /\ f \in opened
  /\ \E done \in LoopedOver(UnpinnedOf(f), DirtyOf(UnpinnedOf(f))) :
       /\ DirtyOf(done) # {} => TRUE \in WriteResults
       /\ frame' = FreedFrames(done)
       /\ age' = Ranked(Cached \ done, age)
       /\ disk' = WriteBack(DirtyOf(done))
  /\ UNCHANGED <<opened, disposed, fdvars>>

(* flush_page for the holder of a page. *)
FlushPage(f, p) ==
  LET id == <<f, p>> IN
  /\ f \in opened
  /\ p # HeaderPage
  /\ id \in Cached /\ frame[id].pin > 0 /\ TRUE \in WriteResults
  /\ frame' = [frame EXCEPT ![id] = Cleaned(id)]
  /\ disk' = WriteBack({id})
  /\ UNCHANGED <<age, opened, disposed, fdvars>>

(* flush_all_pages: the header and pinned and clean pages too. *)
FlushAllPages(f) ==
  /\ f \in opened
  /\ TRUE \in WriteResults
  /\ \E done \in LoopedOver(FileFrames(f), FileFrames(f)) :
       /\ frame' = [id \in FrameId |->
                      IF id \in done THEN Cleaned(id) ELSE frame[id]]
       /\ disk' = WriteBack(done)
  /\ UNCHANGED <<age, opened, disposed, fdvars>>

(* recover_page, as its one caller RecordPageHandler::recover_init uses    *)
(* it: get_this_page, then the bit.  The page was written when it was      *)
(* allocated, so it is in the file, but this header does not know it.      *)
RecoverPage(f, p) ==
  /\ f \in opened
  /\ disk[<<f, p>>] # Absent
  /\ p \notin Hdr(f).bitmap
  /\ InOrderReplay => p = Hdr(f).page_count
  /\ LoadPage(f, p, HdrFrame(f, RecoverPageBit(Hdr(f), p)))
  /\ UNCHANGED <<opened, disposed, file_desc, dangling>>

Step ==
  \E f \in Files :
    \/ CreateFile(f)
    \/ OpenFile(f)
    \/ CloseFile(f)
    \/ CloseByManager(f)
    \/ ReuseFreePage(f)
    \/ ExtendWithPage(f)
    \/ PurgeAllPages(f)
    \/ FlushAllPages(f)
    \/ \E p \in PageNum :
         \/ GetThisPage(f, p)
         \/ \E v \in Val : WritePage(f, p, v)
         \/ UnpinPage(f, p)
         \/ DisposePage(f, p)
         \/ PurgePage(f, p)
         \/ FlushPage(f, p)
         \/ RecoverPage(f, p)

(* Nothing is said of what happens once a page went astray. *)
Next ==
  \/ ~ astray /\ Step
  \/ astray /\ UNCHANGED vars

Spec == Init /\ [][Next]_vars

-----------------------------------------------------------------------------
(* Properties *)

(* The allocation counters of every header, in memory and on disk, agree   *)
(* with its bitmap, so that the shortcut of allocate_page, which searches  *)
(* the bitmap only if allocated_pages < page_count, finds a free page      *)
(* whenever there is one and never hands out a page twice.                 *)
HeaderExact ==
  \A f \in Files :
    /\ f \in opened => ExactHeader(Hdr(f))
    /\ disk[HdrId(f)] # Absent => ExactHeader(disk[HdrId(f)])

(* A frame caches only an allocated page of an open file: disposing of a   *)
(* page or closing the file leaves no frame behind that a later allocation *)
(* of the same page number, or a later file, would find.                   *)
CachedAllocated ==
  \A id \in Cached : id[1] \in opened /\ id[2] \in Hdr(id[1]).bitmap

(* A pinned page leaves the buffer only when its file is closed, or when   *)
(* its last holder unpins it after it was disposed of: "to keep it from    *)
(* being swapped out while it is processed" (disk_buffer_pool.h:259).      *)
PinnedStays ==
  [][\A id \in Cached :
       frame[id].pin > 0 /\ frame'[id] = NoFrame =>
         \/ id[1] \notin opened'
         \/ frame[id].pin = 1 /\ id[2] \in disposed[id[1]]]_vars

(* A modified page is dropped from the buffer only when its content is on  *)
(* disk or its file is closed, even when writes fail: "so that the new     *)
(* page data is written to the file when it is evicted"                    *)
(* (disk_buffer_pool.h:85-86).  The one exception is an eviction for which *)
(* the map of descriptors led to a deleted pool.                           *)
DirtyWrittenBack ==
  [][\A id \in Cached :
       frame[id].dirty /\ frame'[id] = NoFrame /\ id[1] \in opened' =>
         \/ disk'[id] = frame[id].data
         \/ Stale(id[1]) /\ astray']_vars

(* What callers see of the pool: the frame if the page is cached, the file *)
(* otherwise.                                                              *)
Content == [id \in FrameId |-> IF frame[id] # NoFrame THEN frame[id].data
                               ELSE disk[id]]

PS == INSTANCE PageStore WITH content <- Content, durable <- disk

(* The pool implements PageStore: no eviction, write-back, purge or flush  *)
(* changes what a caller reads, and nothing but a close loses a write, up  *)
(* to the step in which a page goes astray.                                *)
ImplementsPageStore == PS!Spec
=============================================================================
