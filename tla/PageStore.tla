----------------------------- MODULE PageStore -----------------------------
(***************************************************************************)
(* What the buffer pool promises its callers: files of pages that can be   *)
(* read and written, of which some subset is durable at any time.  Frames, *)
(* pins, the LRU list and eviction do not exist here.  A page keeps the    *)
(* content it was last given until somebody writes it or the file is       *)
(* closed, and closing a file falls back to what is durable.  All of this  *)
(* ends with the step in which a page goes astray.                         *)
(***************************************************************************)
EXTENDS PageFile

CONSTANTS Files, Val, Zero, Absent

VARIABLES
  content,    \* what a caller reads from a page
  durable,    \* what is left of it after a close or a crash
  opened,     \* the files in use
  astray      \* a page went astray

vars == <<content, durable, opened, astray>>

PageId == Files \X PageNum

Header(f) == content[<<f, HeaderPage>>]

WithHeader(c, f, h) == [c EXCEPT ![<<f, HeaderPage>>] = h]

(* A step may make any of the pages durable, as they are after the step.   *)
SomeSaved ==
  \A id \in PageId : durable'[id] \in {durable[id], content'[id]}

Init ==
  /\ content = [id \in PageId |-> Absent]
  /\ durable = content
  /\ opened = {}
  /\ astray = FALSE

Create(f) ==
  /\ Header(f) = Absent
  /\ content' = WithHeader(content, f, NewHeader)
  /\ durable' = WithHeader(durable, f, NewHeader)
  /\ UNCHANGED opened

Open(f) ==
  /\ f \notin opened
  /\ Header(f) # Absent
  /\ opened' = opened \cup {f}
  /\ UNCHANGED content
  /\ SomeSaved

Close(f) ==
  /\ f \in opened
  /\ content' = [id \in PageId |-> IF id[1] = f THEN durable[id] ELSE content[id]]
  /\ opened' = opened \ {f}
  /\ UNCHANGED durable

Write(f, p, v) ==
  /\ f \in opened
  /\ p \in Header(f).bitmap \ {HeaderPage}
  /\ content' = [content EXCEPT ![<<f, p>>] = v]
  /\ UNCHANGED <<durable, opened>>

(* A page that is not in use is handed out, with whatever it last held. *)
Reuse(f) ==
  /\ f \in opened
  /\ HasFreePage(Header(f))
  /\ content' = WithHeader(content, f,
                  ReusePage(Header(f), FirstFreePage(Header(f))))
  /\ UNCHANGED opened
  /\ SomeSaved

Extend(f) ==
  /\ f \in opened
  /\ ~ HasFreePage(Header(f)) /\ ~ FileIsFull(Header(f))
  /\ content' = [WithHeader(content, f, ExtendFile(Header(f)))
                   EXCEPT ![<<f, Header(f).page_count>>] = Zero]
  /\ UNCHANGED opened
  /\ SomeSaved

Free(f, p) ==
  /\ f \in opened
  /\ p \in Header(f).bitmap \ {HeaderPage}
  /\ content' = WithHeader(content, f, ReleasePage(Header(f), p))
  /\ UNCHANGED opened
  /\ SomeSaved

Recover(f, p) ==
  /\ f \in opened
  /\ p \notin Header(f).bitmap
  /\ content' = WithHeader(content, f, RecoverPageBit(Header(f), p))
  /\ UNCHANGED opened
  /\ SomeSaved

Save ==
  /\ UNCHANGED <<content, opened>>
  /\ SomeSaved

Step ==
  \/ Save
  \/ \E f \in Files :
       \/ Create(f) \/ Open(f) \/ Close(f) \/ Reuse(f) \/ Extend(f)
       \/ \E p \in PageNum :
            \/ Free(f, p) \/ Recover(f, p)
            \/ \E v \in Val : Write(f, p, v)

Next == ~ astray /\ (astray' \/ (Step /\ UNCHANGED astray))

Spec == Init /\ [][Next]_vars
=============================================================================
