---------------------------- MODULE SharedMemory ----------------------------
(***************************************************************************)
(* The segments of MIT-SHM (src/src/xshm.c).  XShmAttach records a segment  *)
(* and maps it where the client has not; a put or a get of an image pins    *)
(* such a mapping while it copies, holding no lock, and XShmDetach leaves   *)
(* the unmapping to the last that has it pinned.  A step is one hold of     *)
(* shmAttachmentLock.  What a put does with the pixels, and the completion  *)
(* event it queues afterwards, are left out.                                *)
(***************************************************************************)
EXTENDS Naturals, FiniteSets

CONSTANTS ShmThreads,
          Segments,      \* the XShmSegmentInfos of the client
          Attachments,   \* addresses of a ShmAttachment
          Addresses,     \* where the kernel maps segments
          Unmapped, NoAttachment

ASSUME SegmentsAssumption ==
  /\ Unmapped \notin Addresses /\ NoAttachment \notin Attachments
  /\ IsFiniteSet(ShmThreads)

VARIABLES shmAttachments, \* the list: the attachments XShmDetach finds
          attachment,     \* the contents of each, Freed of the others
          shmaddr,        \* of each segment, as the client sees it
          mapped,         \* kernel: the addresses at which something is mapped
          clientMapped,   \* those of them that the client mapped
          copying         \* per thread: the attachment pinned and the image's data

shmVars == <<shmAttachments, attachment, shmaddr, mapped, clientMapped, copying>>

Freed == [info |-> "none", addr |-> Unmapped, attachedHere |-> FALSE, inUse |-> 0,
          pendingDetach |-> FALSE]
NotCopying == [pinned |-> NoAttachment, data |-> Unmapped]

(* Of some segments the client has a mapping of its own from the start.     *)
ShmInit ==
  /\ shmaddr \in [Segments -> Addresses \union {Unmapped}]
  /\ \A s, o \in Segments : shmaddr[s] = shmaddr[o] /\ s # o => shmaddr[s] = Unmapped
  /\ clientMapped = {shmaddr[s] : s \in Segments} \ {Unmapped}
  /\ mapped = clientMapped
  /\ shmAttachments = {} /\ attachment = [e \in Attachments |-> Freed]
  /\ copying = [t \in ShmThreads |-> NotCopying]

findAttachment(s) == {e \in shmAttachments : attachment[e].info = s}

Free(e) == attachment' = [attachment EXCEPT ![e] = Freed]

(* Of one that is there already nothing changes, as when calloc or shmat    *)
(* fails.  They give any address that is free: those are all alike.         *)
Calloced == CHOOSE e \in Attachments : attachment[e] = Freed
Shmat == CHOOSE a \in Addresses : a \notin mapped

XShmAttach(s) ==
  /\ findAttachment(s) = {} /\ \E e \in Attachments : attachment[e] = Freed
  /\ shmaddr[s] = Unmapped => mapped # Addresses
  /\ \E here \in {shmaddr[s] = Unmapped} :
       \E a \in {IF here THEN Shmat ELSE shmaddr[s]} :
         /\ attachment' = [attachment EXCEPT ![Calloced] =
              [Freed EXCEPT !.info = s, !.addr = a, !.attachedHere = here]]
         /\ shmAttachments' = shmAttachments \union {Calloced}
         /\ shmaddr' = [shmaddr EXCEPT ![s] = a]
         /\ mapped' = mapped \union {a}
  /\ UNCHANGED <<clientMapped, copying>>

XShmDetach(s) ==
  \E e \in findAttachment(s) :
    /\ shmAttachments' = shmAttachments \ {e}
    /\ shmaddr' = IF attachment[e].attachedHere
                    THEN [shmaddr EXCEPT ![s] = Unmapped] ELSE shmaddr
    /\ IF attachment[e].inUse > 0
         THEN /\ attachment' = [attachment EXCEPT ![e].pendingDetach = TRUE]
              /\ UNCHANGED mapped
         ELSE /\ Free(e)
              /\ mapped' = IF attachment[e].attachedHere
                             THEN mapped \ {attachment[e].addr} ELSE mapped
    /\ UNCHANGED <<clientMapped, copying>>

(* XShmPutImage and XShmGetImage of an image whose data is the segment.     *)
(* Only a mapping that is the library's own is pinned.                      *)
pinAttachmentLocked(t, s) ==
  /\ copying[t] = NotCopying
  /\ \E e \in findAttachment(s) :
       /\ copying' = [copying EXCEPT ![t] =
            [pinned |-> IF attachment[e].attachedHere THEN e ELSE NoAttachment,
             data |-> shmaddr[s]]]
       /\ attachment' = IF attachment[e].attachedHere
                          THEN [attachment EXCEPT ![e].inUse = @ + 1]
                          ELSE attachment
  /\ UNCHANGED <<shmAttachments, shmaddr, mapped, clientMapped>>

AnyReader(a) == a.inUse > 0
LastReader(a) == a.inUse = 1

unpinAttachment(t) ==
  /\ copying[t] # NotCopying
  /\ copying' = [copying EXCEPT ![t] = NotCopying]
  /\ IF copying[t].pinned = NoAttachment THEN UNCHANGED <<attachment, mapped>>
     ELSE \E e \in {copying[t].pinned} :
            IF LastReader(attachment[e]) /\ attachment[e].pendingDetach
              THEN Free(e) /\ mapped' = mapped \ {attachment[e].addr}
              ELSE /\ attachment' = [attachment EXCEPT ![e].inUse = @ - 1]
                   /\ UNCHANGED mapped
  /\ UNCHANGED <<shmAttachments, shmaddr, clientMapped>>

ShmNext ==
  \/ \E s \in Segments : XShmAttach(s) \/ XShmDetach(s)
  \/ \E t \in ShmThreads :
       unpinAttachment(t) \/ \E s \in Segments : pinAttachmentLocked(t, s)

ShmSpec == ShmInit /\ [][ShmNext]_shmVars

-----------------------------------------------------------------------------
ShmTypeOK ==
  /\ shmAttachments \subseteq Attachments
  /\ attachment \in [Attachments ->
       [info : Segments \union {"none"}, addr : Addresses \union {Unmapped},
        attachedHere : BOOLEAN, inUse : 0..Cardinality(ShmThreads),
        pendingDetach : BOOLEAN]]
  /\ shmaddr \in [Segments -> Addresses \union {Unmapped}]
  /\ mapped \subseteq Addresses /\ clientMapped \subseteq Addresses
  /\ copying \in [ShmThreads -> [pinned : Attachments \union {NoAttachment},
                                 data : Addresses \union {Unmapped}]]

(* What a thread copies from or into is mapped until it is done, whoever    *)
(* detaches, or attaches again, meanwhile; the client's own mappings are    *)
(* never undone, and no mapping of the library's is left once its segment   *)
(* is detached and the last reader gone (xshm.c:84, 100).                    *)
MappedWhileCopied ==
  /\ ShmTypeOK
  /\ \A t \in ShmThreads : copying[t] # NotCopying => copying[t].data \in mapped
  /\ mapped = clientMapped
       \union {attachment[e].addr :
                 e \in (shmAttachments \union {copying[t].pinned : t \in ShmThreads})
                         \ {NoAttachment}}
  /\ \A e, o \in shmAttachments : attachment[e].info = attachment[o].info => e = o
  /\ \A s \in Segments : shmaddr[s] # Unmapped => shmaddr[s] \in mapped
=============================================================================
