----------------------------- MODULE PageTracking -----------------------------
(***************************************************************************)
(* Who owns a page of guest memory, and how the host protects it           *)
(* (pageManager.cpp, regionManager.h).                                     *)
(*                                                                         *)
(* The page manager counts the watchers of each page and protects the page *)
(* by them: no access while the GPU owns it, read only while some cache    *)
(* holds a copy of it.  The region manager of the buffer cache keeps two   *)
(* sets of pages, the ones the CPU may have written since their upload and *)
(* the ones the GPU has written, and is one watcher of each page.          *)
(***************************************************************************)
EXTENDS Integers, FiniteSets, FiniteSetsExt

CONSTANT LastPage  \* the pages of a tracked region are 0..LastPage

ASSUME LastPageAssumption == LastPage \in Nat

Pages == 0..LastPage

VARIABLES
    pages,     \* the page manager: the watchers and the host protection of each page
    cpuDirty,  \* m_cpu_dirty: the CPU owns the page; m_writable is the same set
    gpuDirty   \* m_gpu_dirty: the GPU owns the page; m_readable is its complement

trackingVars == <<pages, cpuDirty, gpuDirty>>

TrackingInit ==
    /\ pages = [write |-> [p \in Pages |-> 0], access |-> [p \in Pages |-> 0],
                prot |-> [p \in Pages |-> "rw"]]
    /\ cpuDirty = Pages
    /\ gpuDirty = {}

(* PageState::Perms. *)
Perms(s, p) ==
    CASE s.access[p] # 0 -> "none"
      [] s.access[p] = 0 /\ s.write[p] # 0 -> "ro"
      [] OTHER -> "rw"

(* AddDelta for every page of `mask`.  The code's count of write watchers has seven bits and *)
(* ends the process at 127; here it is unbounded, so that this end is not a step.            *)
Counted(s, mask, delta, isRead) ==
    LET add(count) == [p \in Pages |-> IF p \in mask THEN count[p] + delta ELSE count[p]]
    IN  [s EXCEPT !.write = IF isRead THEN @ ELSE add(@),
                  !.access = IF isRead THEN add(@) ELSE @]

(* release_pending: one Protect call for the run found so far. *)
Released(run) ==
    IF run.bytes = 0 THEN run
    ELSE [run EXCEPT !.prot = [p \in Pages |-> IF p \in run.begin..(run.begin + run.bytes - 1)
                                               THEN run.perms ELSE @[p]],
                     !.bytes = 0, !.potential = 0]

(* A bug: the run is not given out where the protection changes. *)
BugExtended(run, perms) ==
    CASE perms # run.perms -> [run EXCEPT !.perms = perms]
      [] perms = run.perms /\ run.bytes # 0 -> [run EXCEPT !.potential = @ + 1]
      [] OTHER -> run

(* The page at which the protection changes: the run before it is given out. *)
Extended(run, perms) ==
    CASE perms # run.perms -> [Released(run) EXCEPT !.perms = perms]
      [] perms = run.perms /\ run.bytes # 0 -> [run EXCEPT !.potential = @ + 1]
      [] OTHER -> run

(* One page of the walk.  At an edge, where the protection of the page itself changes, a run *)
(* begins, or grows by the pages since its last edge.                                        *)
Visited(run, p, perms, edge) ==
    LET r == Extended(run, perms)
    IN  CASE edge /\ r.bytes = 0 -> [r EXCEPT !.begin = p, !.potential = 1, !.bytes = 1]
          [] edge /\ r.bytes # 0 -> [r EXCEPT !.bytes = r.potential]
          [] OTHER -> r

(* The walk from the counts of s to those of t: the run found so far, and the protection *)
(* given out, after each page.                                                           *)
Walk(s, t, first, last, edges) ==
    LET run[p \in (first - 1)..last] ==
            IF p < first
            THEN [perms |-> Perms(s, first), begin |-> 0, bytes |-> 0, potential |-> 0,
                  prot |-> s.prot]
            ELSE Visited(run[p - 1], p, Perms(t, p), p \in edges)
    IN  run

(* UpdateRegionWatchers: counts the watchers of the pages of `mask`, and protects the runs  *)
(* of pages whose protection becomes the same with one call each, pages between them that   *)
(* have it already included.                                                                *)
UpdateWatchers(s, mask, track, isRead) ==
    IF mask = {} THEN s
    ELSE LET t == Counted(s, mask, IF track THEN 1 ELSE -1, isRead)
             counts == IF isRead THEN t.access ELSE t.write
             edges == {p \in mask : /\ Perms(s, p) # Perms(t, p)
                                    /\ counts[p] = IF track THEN 1 ELSE 0}
             run == Walk(s, t, Min(mask), Max(mask), edges)
         IN  [t EXCEPT !.prot = Released(run[Max(mask)]).prot]

(* UpdateCpuProtection and UpdateGpuProtection: the pages whose bit changed get or lose a *)
(* watcher.                                                                               *)
CpuOwns(s, more) == UpdateWatchers(s, more \ cpuDirty, FALSE, FALSE)
CpuLoses(s, less) == UpdateWatchers(s, less \intersect cpuDirty, TRUE, FALSE)
GpuOwns(s, more) == UpdateWatchers(s, more \ gpuDirty, TRUE, TRUE)
GpuLoses(s, less) == UpdateWatchers(s, less \intersect gpuDirty, FALSE, TRUE)

(* ChangeState<Cpu, true>, ForEachModifiedRange<Cpu, true>, ChangeState<Gpu, true> and      *)
(* ChangeState<Gpu, false> on the pages of a range.                                         *)
MarkCpu(range) == cpuDirty' = cpuDirty \union range /\ pages' = CpuOwns(pages, range)
ClearCpu(range) == cpuDirty' = cpuDirty \ range /\ pages' = CpuLoses(pages, range)
MarkGpu(range) == gpuDirty' = gpuDirty \union range /\ pages' = GpuOwns(pages, range)
UnmarkGpu(range) == gpuDirty' = gpuDirty \ range /\ pages' = GpuLoses(pages, range)

(* RestoreProtection: the page is protected by its watchers again.  A page that was never *)
(* tracked never faults.                                                                  *)
RestoreProtection(p) ==
    /\ pages' = [pages EXCEPT !.prot[p] = Perms(pages, p)]
    /\ UNCHANGED <<cpuDirty, gpuDirty>>
=============================================================================
