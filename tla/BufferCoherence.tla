---------------------------- MODULE BufferCoherence ----------------------------
(***************************************************************************)
(* Guest memory, its copies in GPU buffers and images, and the page faults *)
(* that keep them coherent (memoryTracker, bufferCache.cpp,                *)
(* gpuResourceManager.cpp, image tracking of textureCache.cpp).            *)
(*                                                                         *)
(* Guest threads access pages; an access the protection refuses runs the   *)
(* fault handler and is tried again.  The GPU thread uploads pages into    *)
(* cached buffers, lets the GPU write them, reads them back for a faulting *)
(* thread, refreshes images and drops buffers.  The contents of a page are *)
(* the set of places that hold its last written value.                     *)
(***************************************************************************)
EXTENDS PageTracking, Sequences

CONSTANTS
    Cpus,        \* guest threads
    BlockSize,   \* pages in a block of CACHING_PAGE_SIZE
    Images,      \* images over guest memory
    ImagePages,  \* the pages of each image
    MaxRetired   \* bound: garbage-collected buffers whose download is pending

ASSUME CoherenceAssumption ==
    /\ BlockSize \in Nat \ {0}
    /\ IsFiniteSet(Images) /\ Images \intersect {"mem", "buf"} = {}
    /\ ImagePages \in [Images -> SUBSET Pages]

VARIABLES
    buffers,    \* m_buffers: the pages of each cached buffer
    gpuRanges,  \* m_gpu_modified_ranges, in pages
    retired,    \* downloads of dropped buffers that wait for the GPU
    images,     \* what the texture cache knows of each image
    copies,     \* the places that hold the last value of each page
    cpu,        \* what each guest thread does
    commands,   \* the GPU thread's command queue
    gpu,        \* what the GPU thread does
    spoiled,    \* pages used while the download of their dropped buffer was pending
    halted      \* the EXIT that ended the process, or "no"

cacheVars == <<buffers, gpuRanges, retired, images>>
coherenceVars == <<trackingVars, cacheVars, copies, cpu, commands, gpu, spoiled, halted>>

Running == [at |-> "run"]
Idle == [at |-> "idle"]

(* `missed` is auxiliary, nothing in the code keeps it: the pages of the image that the GPU *)
(* has written through an unformatted buffer while the image was clean.                     *)
NewImage == [tracked |-> FALSE, cpuDirty |-> TRUE, bufferModified |-> FALSE, missed |-> {}]

CoherenceInit ==
    /\ TrackingInit
    /\ buffers = {} /\ gpuRanges = {} /\ retired = <<>>
    /\ images = [i \in Images |-> NewImage]
    /\ copies = [p \in Pages |-> {"mem"}]
    /\ cpu = [c \in Cpus |-> Running]
    /\ commands = <<>> /\ gpu = Idle
    /\ spoiled = {} /\ halted = "no"

-----------------------------------------------------------------------------
(* Contents. *)

Ranges == {range \in SUBSET Pages : range # {} /\ range = Min(range)..Max(range)}

CopyPages(c, range, from, to) ==
    [p \in Pages |-> CASE p \notin range -> c[p]
                       [] p \in range /\ from \in c[p] -> c[p] \union {to}
                       [] OTHER -> c[p] \ {to}]

(* A write leaves `places` as the only ones with the last value; snapshots of the page that *)
(* were taken before it are old.                                                            *)
Overwrite(range, places) ==
    copies' = [p \in Pages |-> IF p \in range THEN places ELSE copies[p]]

Outdate(downloads, range) ==
    [k \in DOMAIN downloads |-> [downloads[k] EXCEPT !.good = @ \ range]]

-----------------------------------------------------------------------------
(* Cached buffers and images. *)

Registered == UNION buffers

RetiredPages == UNION {retired[k].range : k \in DOMAIN retired}

Owned(range) == \E b \in buffers : range \subseteq b

Aligned(range) == {p \in Pages : \E q \in range : p \div BlockSize = q \div BlockSize}

Overlapping(range) == {b \in buffers : b \intersect range # {}}

(* GetOrCreateBuffer: a new buffer swallows the ones it overlaps, and copies them. *)
Merged(range) == Aligned(range) \union UNION Overlapping(Aligned(range))

GetOrCreateBuffer(range) ==
    /\ buffers' = IF Owned(range) THEN buffers
                  ELSE (buffers \ Overlapping(Aligned(range))) \union {Merged(range)}
    /\ spoiled' = spoiled \union
                    (RetiredPages \intersect IF Owned(range) THEN range ELSE Merged(range))

(* UntrackImage for each image of a set, on the page manager's state. *)
UntrackImages(s, is) ==
    FoldSet(LAMBDA i, acc : IF images[i].tracked
                            THEN UpdateWatchers(acc, ImagePages[i], FALSE, FALSE) ELSE acc, s, is)

(* InvalidateCpuAliases: the images on a page are dirty and no longer watch it. *)
ImagesOn(range) == {i \in Images : ImagePages[i] \intersect range # {}}

InvalidateImages(p) ==
    [i \in Images |-> IF i \in ImagesOn({p})
                      THEN [images[i] EXCEPT !.tracked = FALSE, !.cpuDirty = TRUE]
                      ELSE images[i]]

RegionLocked == gpu.at = "upload" /\ gpu.written
TextureLocked ==
    LET task == IF gpu.at = "untrack" THEN gpu.back ELSE gpu
    IN  task.at \in {"image", "stage", "staged"}

Halt(reason) ==
    /\ halted' = reason
    /\ UNCHANGED <<trackingVars, cacheVars, copies, cpu, commands, gpu, spoiled>>

-----------------------------------------------------------------------------
(* Guest threads. *)

Goes(c, state) == cpu' = [cpu EXCEPT ![c] = state]

Mapped(p) == \A c \in Cpus : cpu[c].at = "unmap" => cpu[c].page # p

(* A store that the protection allows. *)
CpuWrite(c, p) ==
    /\ cpu[c] = Running /\ Mapped(p) /\ pages.prot[p] = "rw"
    /\ Overwrite({p}, {"mem"})
    /\ retired' = Outdate(retired, {p})
    /\ gpu' = IF gpu.at = "staged" THEN [gpu EXCEPT !.good = @ \ {p}] ELSE gpu
    /\ UNCHANGED <<trackingVars, buffers, gpuRanges, images, cpu, commands, spoiled, halted>>

(* An access that it does not: the host enters HandleFault. *)
CpuFault(c, p, write) ==
    /\ cpu[c] = Running /\ Mapped(p)
    /\ pages.prot[p] = "none" \/ (write /\ pages.prot[p] = "ro")
    /\ Goes(c, [at |-> "fault", page |-> p, write |-> write])
    /\ UNCHANGED <<trackingVars, cacheVars, copies, commands, gpu, spoiled, halted>>

(* The kernel is about to fill a page for the guest (KernelRead): InvalidateMemory. *)
CpuInvalidate(c, p) ==
    /\ cpu[c] = Running /\ Mapped(p)
    /\ Goes(c, [at |-> "invalidate", page |-> p, write |-> TRUE])
    /\ UNCHANGED <<trackingVars, cacheVars, copies, commands, gpu, spoiled, halted>>

(* The guest unmaps a page that no thread of it uses, and waits for the GPU thread. *)
CpuUnmap(c, p) ==
    /\ cpu[c] = Running /\ \A d \in Cpus : cpu[d] # Running => cpu[d].page # p
    /\ commands' = Append(commands, [cpu |-> c, page |-> p, kind |-> "unmap"])
    /\ Goes(c, [at |-> "unmap", page |-> p, write |-> FALSE])
    /\ UNCHANGED <<trackingVars, cacheVars, copies, gpu, spoiled, halted>>

(* HandleFault.  Whoever watched the page may have gone since the fault. *)
Watched(p, write) == pages.access[p] # 0 \/ (write /\ pages.write[p] # 0)

HandleFault(c) ==
    /\ cpu[c].at = "fault"
    /\ LET p == cpu[c].page
       IN \/ /\ ~Watched(p, cpu[c].write)
             /\ RestoreProtection(p) /\ Goes(c, Running)
             /\ UNCHANGED commands
          \/ /\ Watched(p, cpu[c].write) /\ cpu[c].write
             /\ Goes(c, [cpu[c] EXCEPT !.at = "invalidate"])
             /\ UNCHANGED <<trackingVars, commands>>
          \/ /\ Watched(p, cpu[c].write) /\ ~cpu[c].write
             /\ Goes(c, [cpu[c] EXCEPT !.at = "wait"])
             /\ commands' = Append(commands, [cpu |-> c, page |-> p, kind |-> "read"])
             /\ UNCHANGED trackingVars
    /\ UNCHANGED <<cacheVars, copies, gpu, spoiled, halted>>

(* InvalidateRegion: the CPU owns the page, or the GPU thread has to give it back first. *)
InvalidateBuffers(c) ==
    /\ cpu[c].at = "invalidate" /\ ~RegionLocked
    /\ LET p == cpu[c].page
       IN \/ /\ p \in gpuDirty
             /\ commands' = Append(commands, [cpu |-> c, page |-> p, kind |-> "write"])
             /\ Goes(c, [cpu[c] EXCEPT !.at = "wait"])
             /\ UNCHANGED trackingVars
          \/ /\ p \notin gpuDirty
             /\ MarkCpu({p}) /\ Goes(c, [cpu[c] EXCEPT !.at = "texture"])
             /\ UNCHANGED <<gpuDirty, commands>>
    /\ UNCHANGED <<cacheVars, copies, gpu, spoiled, halted>>

(* TextureCache::InvalidateMemory; then the access is tried again. *)
InvalidateTextures(c) ==
    /\ cpu[c].at = "texture" /\ ~TextureLocked
    /\ pages' = UntrackImages(pages, ImagesOn({cpu[c].page}))
    /\ images' = InvalidateImages(cpu[c].page)
    /\ Goes(c, Running)
    /\ UNCHANGED <<cpuDirty, gpuDirty, buffers, gpuRanges, retired, copies, commands, gpu,
                   spoiled, halted>>

-----------------------------------------------------------------------------
(* GPU thread: ObtainBuffer. *)

(* Only a formatted write marks the images on the range; a clean image misses any other one. *)
Clean(im) == ~im.cpuDirty /\ ~im.bufferModified

MarkImages(range, formatted) ==
    [i \in Images |->
        [images[i] EXCEPT !.bufferModified = @ \/ (formatted /\ i \in ImagesOn(range)),
                          !.missed = IF ~formatted /\ Clean(images[i])
                                     THEN @ \union (ImagePages[i] \intersect range) ELSE @]]

(* GetOrCreateBuffer, and ForEachUploadRange up to its uploads: the pages the CPU had *)
(* written are watched again.  A written range keeps the region locked.  (A small     *)
(* read of pages the CPU owns that TryReadBacking can serve changes nothing.)         *)
ObtainBuffer(range, written, formatted) ==
    /\ gpu = Idle
    /\ images' = IF written THEN MarkImages(range, formatted) ELSE images
    /\ GetOrCreateBuffer(range)
    /\ ClearCpu(range)
    /\ gpu' = [at |-> "upload", range |-> range, uploads |-> range \intersect cpuDirty,
               written |-> written]
    /\ UNCHANGED <<gpuDirty, gpuRanges, retired, copies, cpu, commands, halted>>

(* The staging buffer wraps in an upload and waits for the GPU: the downloads that are due *)
(* run inside the tracker's callback and enter it again.                                   *)
ReenterUpload ==
    /\ gpu.at = "upload" /\ gpu.uploads # {} /\ retired # <<>>
    /\ Halt("memory tracker re-entered from upload callback")

(* The uploads.  The GPU then owns a range it writes, and only the buffer has its pages. *)
Upload ==
    /\ gpu.at = "upload"
    /\ LET uploaded == CopyPages(copies, gpu.uploads, "mem", "buf")
       IN \/ /\ ~gpu.written /\ copies' = uploaded
             /\ UNCHANGED <<trackingVars, gpuRanges, retired>>
          \/ /\ gpu.written
             /\ MarkGpu(gpu.range)
             /\ gpuRanges' = gpuRanges \union gpu.range
             /\ copies' = [p \in Pages |-> IF p \in gpu.range THEN {"buf"} ELSE uploaded[p]]
             /\ retired' = Outdate(retired, gpu.range)
             /\ UNCHANGED cpuDirty
    /\ gpu' = Idle
    /\ UNCHANGED <<buffers, images, cpu, commands, spoiled, halted>>

(* A host write for the GPU (FillBuffer, CopyBuffer, WriteHostMemory): guest memory, and the *)
(* bytes of every buffer over it.                                                            *)
WriteHostMemory(p) ==
    /\ gpu = Idle /\ p \notin gpuRanges
    /\ pages' = UntrackImages(pages, ImagesOn({p}))
    /\ images' = InvalidateImages(p)
    /\ Overwrite({p}, {"mem"} \union (copies[p] \intersect {"buf"}))
    /\ retired' = Outdate(retired, {p})
    /\ UNCHANGED <<cpuDirty, gpuDirty, buffers, gpuRanges, cpu, commands, gpu, spoiled, halted>>

-----------------------------------------------------------------------------
(* GPU thread: commands of guest threads (ReadMemoryOnGpu, UnmapMemory). *)

Reply(command) ==
    Goes(command.cpu, IF command.kind = "write" THEN [cpu[command.cpu] EXCEPT !.at = "texture"]
                      ELSE Running)

(* The page is read back when the GPU owns it, and given to the CPU for a write.  A write to *)
(* a page without a buffer is left to the next fault.  The EXIT stands for both of the walk  *)
(* over the buffers, no buffer before the page and one that ends before it.                  *)
ReadMemory ==
    /\ gpu = Idle /\ commands # <<>> /\ Head(commands).kind # "unmap"
    /\ LET command == Head(commands)
           p == command.page
           write == command.kind = "write"
           found == p \in gpuDirty \intersect gpuRanges
       IN \/ /\ write /\ p \notin Registered
             /\ Reply(command) /\ commands' = Tail(commands)
             /\ UNCHANGED <<trackingVars, cacheVars, copies, gpu, spoiled, halted>>
          \/ /\ ~write /\ found /\ p \notin Registered
             /\ Halt("readback has no buffer owner")
          \/ /\ (write => p \in Registered) /\ ~found
             /\ IF write THEN MarkCpu({p}) ELSE UNCHANGED <<pages, cpuDirty>>
             /\ Reply(command) /\ commands' = Tail(commands)
             /\ UNCHANGED <<gpuDirty, cacheVars, copies, gpu, spoiled, halted>>
          \/ /\ p \in Registered /\ found
             /\ gpu' = [at |-> "finish", command |-> command, range |-> {p}]
             /\ commands' = Tail(commands)
             /\ UNCHANGED <<trackingVars, cacheVars, copies, cpu, spoiled, halted>>

UnmapMemory ==
    /\ gpu = Idle /\ commands # <<>> /\ Head(commands).kind = "unmap"
    /\ gpu' = [at |-> "finish", command |-> Head(commands), range |-> {Head(commands).page}]
    /\ commands' = Tail(commands)
    /\ UNCHANGED <<trackingVars, cacheVars, copies, cpu, spoiled, halted>>

(* FinishCurrent has run the pending downloads; PublishDownloads writes guest memory.  An *)
(* unmap takes every buffer over the page.                                                *)
Publish ==
    /\ gpu.at = "finish" /\ retired = <<>>
    /\ LET range == IF gpu.command.kind = "unmap" THEN UNION Overlapping(gpu.range) ELSE gpu.range
       IN /\ copies' = CopyPages(copies, range \intersect gpuDirty \intersect gpuRanges, "buf", "mem")
          /\ gpuRanges' = gpuRanges \ range
          /\ gpu' = [gpu EXCEPT !.at = "unmark", !.range = range]
    /\ UNCHANGED <<trackingVars, buffers, retired, images, cpu, commands, spoiled, halted>>

UnmarkRange ==
    /\ gpu.at = "unmark"
    /\ UnmarkGpu(gpu.range)
    /\ \/ /\ gpu.command.kind = "read"
          /\ Reply(gpu.command) /\ gpu' = Idle
       \/ /\ gpu.command.kind # "read"
          /\ gpu' = [gpu EXCEPT !.at = "mark"] /\ UNCHANGED cpu
    /\ UNCHANGED <<cpuDirty, cacheVars, copies, commands, spoiled, halted>>

MarkRange ==
    /\ gpu.at = "mark"
    /\ MarkCpu(gpu.range)
    /\ \/ /\ gpu.command.kind = "write"
          /\ Reply(gpu.command) /\ gpu' = Idle
       \/ /\ gpu.command.kind = "unmap"
          /\ gpu' = [gpu EXCEPT !.at = "erase"] /\ UNCHANGED cpu
    /\ UNCHANGED <<gpuDirty, cacheVars, copies, commands, spoiled, halted>>

(* The end of an unmap: the page is untracked, its buffers and images are gone, and the *)
(* guest maps new memory there.                                                         *)
Erase ==
    /\ gpu.at = "erase"
    /\ LET p == gpu.command.page
           gone == ImagesOn({p})
       IN /\ cpuDirty' = cpuDirty \union {p}
          /\ pages' = UntrackImages(CpuOwns(pages, {p}), gone)
          /\ buffers' = buffers \ Overlapping({p})
          /\ images' = [i \in Images |-> IF i \in gone THEN NewImage ELSE images[i]]
          /\ copies' = [q \in Pages |-> CASE q = p -> {"mem"}
                                          [] q # p /\ q \in gpu.range -> copies[q] \ {"buf"}
                                          [] OTHER -> copies[q]]
    /\ Reply(gpu.command) /\ gpu' = Idle
    /\ UNCHANGED <<gpuDirty, gpuRanges, retired, commands, spoiled, halted>>

-----------------------------------------------------------------------------
(* GPU thread: RunGarbageCollector, and the downloads it defers (QueueGarbageDownload). *)

CollectBuffer(b) ==
    /\ gpu = Idle
    /\ buffers' = buffers \ {b}
    /\ copies' = [p \in Pages |-> IF p \in b THEN copies[p] \ {"buf"} ELSE copies[p]]
    /\ LET dirty == b \intersect gpuDirty
       IN \/ /\ dirty = {}
             /\ MarkCpu(b) /\ UNCHANGED <<gpuDirty, retired>>
          \/ /\ dirty # {} /\ Len(retired) < MaxRetired
             /\ retired' = Append(retired,
                    [range |-> b, copied |-> dirty \intersect gpuRanges,
                     good |-> {p \in dirty \intersect gpuRanges : "buf" \in copies[p]}])
             /\ UNCHANGED trackingVars
    /\ UNCHANGED <<gpuRanges, images, cpu, commands, gpu, spoiled, halted>>

(* PopPendingOperations, once the GPU has copied the pages out. *)
FinishRetired ==
    /\ gpu.at \in {"idle", "finish", "stage"} /\ retired # <<>>
    /\ LET download == Head(retired)
       IN \/ /\ (gpuRanges \ download.copied) \intersect download.range # {}
             /\ Halt("garbage collection retained GPU ownership")
          \/ /\ (gpuRanges \ download.copied) \intersect download.range = {}
             /\ copies' = [p \in Pages |-> CASE p \in download.good -> copies[p] \union {"mem"}
                                             [] p \in download.copied \ download.good ->
                                                    copies[p] \ {"mem"}
                                             [] OTHER -> copies[p]]
             /\ gpuRanges' = gpuRanges \ download.copied
             /\ UnmarkGpu(download.range)
             /\ gpu' = [at |-> "untrack", range |-> download.range, back |-> gpu]
             /\ UNCHANGED <<cpuDirty, buffers, retired, images, cpu, commands, spoiled, halted>>

UntrackRetired ==
    /\ gpu.at = "untrack"
    /\ MarkCpu(gpu.range)
    /\ retired' = Tail(retired)
    /\ gpu' = gpu.back
    /\ UNCHANGED <<gpuDirty, buffers, gpuRanges, images, copies, cpu, commands, spoiled, halted>>

-----------------------------------------------------------------------------
(* GPU thread: RefreshImage, under the texture cache's lock. *)

(* A bug: a dirty image is tracked by the refresh after the one that uploads it. *)
BugTrackLate(i) ==
    LET skip == images[i].tracked \/ images[i].cpuDirty
    IN  /\ pages' = IF skip THEN pages ELSE UpdateWatchers(pages, ImagePages[i], TRUE, FALSE)
        /\ images' = [images EXCEPT ![i].tracked = @ \/ ~skip]

(* TrackImage, before the image looks at guest memory. *)
TrackImage(i) ==
    /\ pages' = IF images[i].tracked THEN pages
                ELSE UpdateWatchers(pages, ImagePages[i], TRUE, FALSE)
    /\ images' = [images EXCEPT ![i].tracked = TRUE]

RefreshImage(i) ==
    /\ gpu = Idle
    /\ TrackImage(i)
    /\ gpu' = IF images[i].cpuDirty \/ images[i].bufferModified
              THEN [at |-> "image", image |-> i] ELSE Idle
    /\ UNCHANGED <<cpuDirty, gpuDirty, buffers, gpuRanges, retired, copies, cpu, commands,
                   spoiled, halted>>

Refreshed(im) == [im EXCEPT !.cpuDirty = FALSE, !.bufferModified = FALSE, !.missed = {}]

(* The image takes its pages from `place`; then it is clean. *)
ImageTakes(i, contents, place) ==
    /\ copies' = CopyPages(contents, ImagePages[i], place, i)
    /\ images' = [images EXCEPT ![i] = Refreshed(@)]
    /\ gpu' = Idle

(* ObtainBufferForImage: from a buffer that has all of the pages, or through the staging *)
(* buffer.                                                                               *)
ImageSource ==
    /\ gpu.at = "image"
    /\ LET i == gpu.image
           range == ImagePages[i]
           dirty == range \intersect gpuRanges # {}
       IN \/ /\ dirty /\ ~Owned(range) /\ Overlapping(range) = {}
             /\ Halt("GPU-dirty image source has no native buffer")
          \/ /\ (dirty /\ ~Owned(range)) => Overlapping(range) # {}
             /\ IF dirty THEN GetOrCreateBuffer(range) ELSE UNCHANGED <<buffers, spoiled>>
             /\ \/ /\ dirty \/ Owned(range)
                   /\ range \intersect cpuDirty = {} /\ (range \intersect gpuDirty # {} => dirty)
                   /\ ImageTakes(i, copies, "buf")
                \/ /\ \/ ~dirty /\ ~Owned(range)
                      \/ range \intersect cpuDirty # {}
                      \/ range \intersect gpuDirty # {} /\ ~dirty
                   /\ gpu' = [gpu EXCEPT !.at = "stage"] /\ UNCHANGED <<copies, images>>
             /\ UNCHANGED <<trackingVars, gpuRanges, retired, cpu, commands, halted>>

(* The pages are copied from guest memory into the staging buffer. *)
StageImage ==
    /\ gpu.at = "stage"
    /\ gpu' = [at |-> "staged", image |-> gpu.image,
               good |-> {p \in ImagePages[gpu.image] : "mem" \in copies[p]}]
    /\ UNCHANGED <<trackingVars, cacheVars, copies, cpu, commands, spoiled, halted>>

(* Without a buffer the image takes the staged pages; otherwise they bring the buffer up to *)
(* date and the image takes the buffer.                                                     *)
UploadStaged ==
    /\ gpu.at = "staged"
    /\ LET i == gpu.image
           range == ImagePages[i]
           dirty == range \intersect gpuRanges # {}
           staged(c, where, to) == [p \in Pages |-> CASE p \notin where -> c[p]
                                                      [] p \in where \intersect gpu.good -> c[p] \union {to}
                                                      [] OTHER -> c[p] \ {to}]
       IN \/ /\ ~Owned(range) \/ (range \intersect gpuDirty # {} /\ ~dirty)
             /\ copies' = staged(copies, range, i)
             /\ images' = [images EXCEPT ![i] = Refreshed(@)]
             /\ gpu' = Idle
             /\ UNCHANGED trackingVars
          \/ /\ Owned(range) /\ (range \intersect gpuDirty # {} => dirty)
             /\ ClearCpu(range)
             /\ ImageTakes(i, staged(copies, range \intersect cpuDirty, "buf"), "buf")
             /\ UNCHANGED gpuDirty
    /\ UNCHANGED <<buffers, gpuRanges, retired, cpu, commands, spoiled, halted>>

(* The texture cache drops the image (RunGarbageCollector, DeleteImage). *)
DeleteImage(i) ==
    /\ gpu = Idle
    /\ pages' = UntrackImages(pages, {i})
    /\ images' = [images EXCEPT ![i] = NewImage]
    /\ UNCHANGED <<cpuDirty, gpuDirty, buffers, gpuRanges, retired, copies, cpu, commands, gpu,
                   spoiled, halted>>

-----------------------------------------------------------------------------
CoherenceNext ==
    /\ halted = "no"
    /\ \/ \E c \in Cpus :
            \/ \E p \in Pages : CpuWrite(c, p) \/ CpuInvalidate(c, p) \/ CpuUnmap(c, p)
            \/ \E p \in Pages, write \in BOOLEAN : CpuFault(c, p, write)
            \/ HandleFault(c) \/ InvalidateBuffers(c) \/ InvalidateTextures(c)
       \/ \E range \in Ranges, formatted \in BOOLEAN : ObtainBuffer(range, TRUE, formatted)
       \/ \E range \in Ranges : ObtainBuffer(range, FALSE, FALSE)
       \/ Upload \/ ReenterUpload
       \/ \E p \in Pages : WriteHostMemory(p)
       \/ ReadMemory \/ UnmapMemory \/ Publish \/ UnmarkRange \/ MarkRange \/ Erase
       \/ \E b \in buffers : CollectBuffer(b)
       \/ FinishRetired \/ UntrackRetired
       \/ \E i \in Images : RefreshImage(i) \/ DeleteImage(i)
       \/ ImageSource \/ StageImage \/ UploadStaged

CoherenceSpec == CoherenceInit /\ [][CoherenceNext]_coherenceVars

-----------------------------------------------------------------------------
(***************************************************************************)
(* Properties.                                                             *)
(***************************************************************************)

(* The watchers of a page are exactly its owners and the images that track it, and the host *)
(* protects it by them: UpdateRegionWatchers never protects too little or too much when it  *)
(* joins pages into one call, no counter goes below zero, the one bit for accesses is       *)
(* enough, and no page is owned by the CPU and the GPU at once.                             *)
WatchersExact ==
    /\ cpuDirty \intersect gpuDirty = {}
    /\ \A p \in Pages :
         /\ pages.access[p] = IF p \in gpuDirty THEN 1 ELSE 0
         /\ pages.write[p] = (IF p \in cpuDirty THEN 0 ELSE 1)
                             + Cardinality({i \in ImagesOn({p}) : images[i].tracked})
         /\ pages.prot[p] = Perms(pages, p)

InUpload == IF gpu.at = "upload" THEN gpu.uploads ELSE {}

(* A guest thread that can read a page reads its last value; a page of a buffer the CPU has *)
(* not written since is current; a clean image is current: no write is lost between guest   *)
(* memory, buffers and images, whatever the fault handlers and the GPU thread interleave.   *)
(* Two things are left out: pages used while the download of their dropped buffer was       *)
(* pending, and in a clean image the pages that the GPU has written through an unformatted  *)
(* buffer since the image took its pages, because nothing in the code makes it take them.   *)
Coherent ==
    \A p \in Pages \ spoiled :
        /\ pages.prot[p] # "none" => "mem" \in copies[p]
        /\ p \in Registered \ (cpuDirty \union InUpload) => "buf" \in copies[p]
        /\ \A i \in ImagesOn({p}) :
              Clean(images[i]) => i \in copies[p] \/ p \in images[i].missed

(* ReadMemoryOnGpu finds the buffer of every page that the GPU owns. *)
ReadbackFindsOwner == halted # "readback has no buffer owner"
=============================================================================
