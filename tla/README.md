# SURFEX (NordSnowNet): TLA+ specifications

SURFEX is a land-surface model: from atmospheric forcing it computes the fluxes
and the state of soil, snow, vegetation, towns, lakes and sea at the points of a
grid. Four programs share its code: PGD (physiography), PREP (initial state),
OFFLINE (the simulation) and SODA (assimilation). Most of the code is
floating-point physics. What can be checked with TLA+, and is hard to test, is the
part that moves data: which task has which point, which message goes into which
column of which array, which line of the forcing is used at which date, what is
written when and under which name, and how a run continues another. Under the
Fortran lies the support library XRD44, in C: the LFI files the programs read and
write, the instrumentation Dr.Hook that every routine calls, and the sorting of the
interpolation; files, signals, threads and memory are shared state there.

All paths below are relative to `src/src/` of the repository.

## 1. Inventory

| component | state | operations | interacts with |
|---|---|---|---|
| Parallel I/O protocol (`SURFEX/read_and_send_mpi.F90`, `gather_and_write_mpi.F90`, `mode_read_surf_cov.F90`, `mode_read_surf_layers.F90`, `treat_field.F90`, `treat_bathyfield.F90`) | `IDX_R`, `IDX_W`, `NREQ`, `XWORKS`, `NINDEX`, `NPIO` on each task | read, write, scalar, parallel read of columns, exchange of counts | MPI; every other component reads and writes through it |
| Distribution of the grid (`OFFLIN/init_index_mpi.F90`, `SURFEX/get_sizes_parallel.F90`) | `NINDEX`, `NNUM`, `NSIZE_TASK` | linear, adjacent and tiled distributions, move of points off the I/O task, numbering | gives the protocol its tables |
| OFFLINE driver (`OFFLIN/offline.F90`) | loop indices, `IYEAR..ZTIME`, `ZTIMEC`, `XSTARTW`, output names | forcing step, surface step, output, restart | forcing reader, surface, files, OASIS, TOPD |
| Forcing reader (`OFFLIN/ol_read_atm*.F90`, `read_surf_atm.F90`) | buffers `ZTA...`, position in the file | configuration (start, stop), reading of a part | driver, files |
| Calendar (`SURFEX/add_forecast_to_date_surf.F90`) | none | seconds to dates | driver, model, assimilation |
| Other calendars (`OFFLIN/mode_dates*.F90`, `julian.F90`) | none | Julian days, netCDF units | forcing reader |
| OpenMP blocks (`OFFLIN/offline.F90`, `SURFEX/coupling_surf_atmn.F90`) | `NINDX1SFX`, `NINDX2SFX`, THREADPRIVATE variables | one block of points per thread | driver, surface |
| Record list (`SURFEX/io_buff*.F90`) | `CREC(50000)`, `NREC` | append, look up, clean | every read and write |
| OASIS coupling (`SURFEX/sfx_oasis_*.F90`) | partitions, fields | define, receive, send | driver, OASIS |
| SODA (`ASSIM/`) | control and perturbed states in files | EKF, EnKF, OI | files |
| PGD and PREP (`OFFLIN/pgd.F90`, `prep.F90`) | fields under construction | sequential steps | protocol, interpolation |
| Interpolation (`SURFEX/hor_interpol*.F90`, `interpol_npts.F90`) | near points | interpolation, extrapolation | PGD, PREP |
| Surface schemes (`SURFEX/isba*.F90`, `snowcro.F90`, `teb*.F90`, ...) | prognostic variables | one time step | driver |
| Native LFI files (`LIB/XRD44/lfi_alt/lfi_alts.c`) | index in memory, header counters, holes, index sections, stdio buffer, disk | the LFI calls on a unit; death of the process | the multi-files are made of them; index and holes are shared by all articles |
| Multi-file LFI (`lfi_altm.c`) | main file (names, sub-files), the sub-file being written, hard links | the LFI calls; copy, merge, index, remove | native files, file system |
| Choice of the LFI library (`lfi_intf.c`, `lfi_hndl.c`, `lfi_fort.c`, ...) | units open in each of three libraries, kinds of the files, error levels, predefined factors | every LFI call | SURFEX above, the three libraries below |
| Names and copies of LFI files (`lfi_util.c`) | names in a main file; the copy under way | relative and absolute names; link or copy by blocks | multi-files, tools |
| Packing (`lfi_alts_pack`) | index, offset, size announced | a multi-file into one native file, which may be a pipe | multi-files read, native file written |
| Dr.Hook, calls (`support/drhook.c`) | per thread: table of routines, calling tree, stack of handles, times | entry and exit of a routine | every routine of the programs |
| Dr.Hook, profile | none | report at the end | the table of every thread |
| Dr.Hook, signals | handlers of each signal, count of signals, alarm, lock | set up, signal, alarm, end of the program | OpenMP, `atexit`, other libraries' handlers |
| Interposed heap and memory profile (`utilities/getcurheap.c`, `drhook.c`) | header of each block, counters per thread, lock, amounts per routine | allocate, enlarge, free; report | Dr.Hook is called back under the lock |
| Sorting (`ecqsort.c`, `rsort32.c`, `rsort64.c`, `countingsort.c`, `gnomesort.c`, `ecsort_shared.h`) | the array and its index | kernels; `KEYSORT` by several keys, by threads and merges | interpolation |
| Fortran LFI, FA, GRIB, MPL, other support code of XRD44; TRIP, TOPD, GELATO; cover tables; file back ends of SURFEX | | | |

Behaviours that are hard to test:

* *Interleavings.* The tasks make the same calls, but each at its own pace. A task
  can be two calls ahead of another; reads and writes have independent tag
  counters; in a parallel read every task sends to every other from one shared
  buffer with non-blocking sends; within a task, OpenMP threads take the sends and
  receives.
* *State set for a while and put back*: `NPIO` during a parallel read, `NINDEX` on
  tasks that do not keep it.
* *Remainders*: columns that do not divide by the tasks, points by the tasks, rows
  by the tasks, forcing lines by the parts, output steps by the surface steps.
* *Boundaries of the calendar*, with three independently advanced clocks (driver,
  model, forcing file), and *restarts* that must find their place in the file again.
* *Long sequences of legal calls*: what a rewrite does to an LFI file depends on all
  the holes earlier calls left; what a rename does to a multi-file on the names its
  sub-files had before.
* *Deaths*: an LFI file is changed in place and its index written last; what stdio
  holds is lost; a main file is truncated before it is written.
* *Callbacks at any moment*: signals on several threads at once, inside Dr.Hook
  itself, while the program is ending; a memory counter called under the heap's lock.
* *State reused*: slots of an index, nodes of a tree, entries of a stack, the index
  of a sort that counts from 0 in one place and from 1 in another.

What makes each modelled component correct is stated as its properties below; the
list with source lines is under `hazards` in `PROJECT.json`.

## 2. Modules

| module | what it is |
|---|---|
| `IOCalls` | the calls of the I/O layer and what each gives to a task |
| `CollectiveIO` | abstract specification: a call is one step of a task |
| `SurfexIO` | detailed specification: counters, tags, messages, buffers, threads |
| `SurfexIO_proof` | theorems about `SurfexIO` |
| `Calendar` | dates, `ADD_FORECAST_TO_DATE_SURF`, the day before a date |
| `OfflineRun` | the time loop of OFFLINE, its forcing buffer, outputs and restarts |
| `OfflineRun_proof` | theorems about `Calendar` and `OfflineRun` |
| `IndexPartition` | `INIT_INDEX_MPI` with the linear distribution |
| `IndexPartition_proof` | theorems about `IndexPartition` |
| `ArticleStore` | abstract specification: an LFI file is a table of named articles |
| `LfiFile` | detailed specification of a native LFI file |
| `LfiFile_proof` | theorems about `LfiFile` |
| `LfiMulti` | detailed specification of multi-files on hard links |
| `LfiMulti_proof` | theorems about `LfiMulti` |
| `LfiLibrary` | which library serves a unit; kinds of files, errors, factors |
| `LfiPaths`, `LfiCopy`, `LfiPack` | names of sub-files; copy of a file; packing into a pipe |
| `LfiTools_proof` | theorems about `LfiLibrary` and `LfiCopy` |
| `DrHookCalls`, `DrHookProfile` | entry and exit of routines; the profile made of them |
| `DrHookSignals` | signals, from the set-up to the end of the process |
| `DrHookHeap`, `DrHookMemProfile` | the interposed heap; the memory profile made of it |
| `DrHook_proof` | theorems about `DrHookCalls`, `DrHookSignals` and `DrHookHeap` |
| `SortKernels`, `KeySort` | the sorting routines as functions; `KEYSORT`, with its threads |
| `Sums_proof` | lemmas about totals over a finite set, and induction over sets |
| `MCSurfexIO`, `MCOfflineRun`, `MCIndexPartition`, `MCLfiFile`, `MCLfiMulti`, `MCSupport`, `MCDrHook`, `MCSort`, `SortCalls` | instances for TLC |

`IOCalls <- CollectiveIO` and `IOCalls <- SurfexIO`; `SurfexIO` instantiates
`CollectiveIO` with its refinement mapping. `Calendar <- OfflineRun`. `MCLfiFile` and
`MCLfiMulti` instantiate `ArticleStore`, each with the table a reader of its files
would see. `DrHookCalls <- DrHookProfile`, `DrHookHeap <- DrHookMemProfile`,
`SortKernels <- KeySort`.

How instances are given: a module that can be configured has a constant set of
records (`Instances`, `Setups`, `Options`, `Environments`, `Builds`, `Calls`), one of
which is chosen in the initial state and kept; its fields are the compile-time
switches, environment variables and arguments the code reads, and the bounds of the
run. So one run has all the instances. `MCSupport`, `MCDrHook` and `MCSort` run one of
several modules that share no state, chosen in the initial state (`part`); the
variables of the others have the value `"rests"`. `MCDrHook` extends the three parts of
Dr.Hook, so that its properties are those of the theorems; the parts that rest stay in
an initial state.

### SurfexIO: the parallel input/output protocol

Each task `r` is at call `op[r]`, at the place `pc[r]` in it, and, in a parallel
read, in pass `jp[r]` (`JP` of `READ_SURF_COV`). The tasks agree on the sequence of
calls because they run the same program; the first to arrive at a call chooses it.

| action | code |
|---|---|
| `FirstCall`, `NextCall` | entry of a call, and `IDX_W` of a write, from 0 for the first write of an output (`offline.F90:1442`) |
| `Broadcast` | `MPI_BCAST` of a scalar (`read_surf.F90`) or of `NINDEX` (`mode_read_surf_cov.F90:161-174`) |
| `ReadColumn`, `NoColumn`, `EndColumns` | the loop over `JP` (`mode_read_surf_cov.F90:187-335`, `mode_read_surf_layers.F90`) |
| `PackAndSend` | one iteration of the OpenMP loop of `READ_AND_SEND_MPI` |
| `SendToPIO` | `MPI_SEND` of `GATHER_AND_WRITE_MPI` and of a column with `HDIR='A'` |
| `EndSend`, `Receive`, `EndReceive` | `MPI_RECV` loops, `MPI_WAITALL`, end of the call and its advance of `IDX_R` |
| `CopyOut` | MPI copies the buffer of a pending `MPI_ISEND` |
| `StorageReused` | the stack is reused after the return of `READ_AND_SEND_MPI_N1D` |

Abstractions. A piece of a field is its identity (call, column, points), so that a
wrong piece in the right place is visible whatever the numbers are. A blocking
`MPI_SEND` returns at once or when it is received, chosen by the model at each send.
The value of a message sent with `MPI_ISEND` is read from the buffer when MPI copies
it or when it is received, whichever the model chooses. Messages of a pair of tasks
with one tag do not overtake. OpenMP threads take the iterations of a dynamic loop
in order, `NTHREADS` at a time. `READ_AND_SEND_MPI` exists in several ranks and
types that differ only in the loop over the second dimension; they share the
actions. `works` stands for the buffer a task sends from: `XWORKS`, `ISIZE` in
`TREAT_FIELD`, `IWORKS` in `TREAT_BATHYFIELD`; a task uses one at a time, and the
first two are kept until the wait. `NPIO = NRANK` during the reading of a column (`HDIR='A'`, which sends
nothing) is set and put back within `ReadColumn`. `calls[k].idxR` and `idxW` are
history variables for the proofs. A task resets `IDX_W` when it comes to an output, in
`EnterCall` of its first write (`n = 1`): other tasks may still be in the writes of the
output before, so that messages of two outputs are in flight with the same tag.

### OfflineRun: the time loop of OFFLINE

A line of the forcing is its index in the file; a line of the buffer is the index it
holds, so that the effect of the shared line of two parts, of the shorter last part
and of a sequential file shows. Dates are those of `Calendar`, in whole seconds.

| action | code |
|---|---|
| `Configure`, `Abort` | `OL_READ_ATM_CONF` and the coherence checks (`offline.F90:601-711`) |
| `FirstReading`, `ForcingStep` | `OL_READ_ATM` and the loop over `JFORC_STEP` (`offline.F90:764`, `901-970`) |
| `SurfaceStep` | one surface step, the two clocks, the output (`offline.F90:1100-1418`) |
| `Restart` | the restart file with `DTCUR` (`offline.F90:1605`, `write_surf_atmn.F90:120`) |
| `Launch` | another run of OFFLINE from that file |

A run that does not start at the first line needs netCDF forcing and
`LDELAYEDSTART_NC`, so only such runs are followed by another. What the environment
is assumed to do: the forcing file has regular lines, at least two, and a line is left
to read after the one of the PREP file's date. `Dates` are the valid days of the calendar
from year 0 on, with a time below a day. The minute resolution of the names is in `YTAG`.
The driver computes the end of the run a second time, as `TDATE_END`
(`offline.F90:606-610`), and gives it to the initialisation of the surface, which reads
the vegetation parameters of the periods up to it (`Period`, `PeriodsRead`,
`SURFEX/read_pgd_isba_parn.F90:580-617`, for parameters of 36 periods a year). The loop
over the forcing does not use it, so that it is an operator of the state: `EndDate` is
about the line the loop ends at, `PeriodsOfTheRun` about the other.

### IndexPartition: the distribution of the grid

`NextTask` and `AssignPoint` are `SET_NB_POINTS_LIN`; `CountPoints`, `MovePoint` and
`EndMoves` the loop that takes points off the I/O task; `NumberPoint` and
`SizeTasks` the tables `NNUM` and `NSIZE_TASK`. `PIO_FRAC` is a rational. The
broadcasts of the tables are left out: all tasks wait for them.

### LfiFile: a native LFI file

`fh` is the descriptor (`lfi_alts_fh_t`): index in memory, rank `iart` of the current
article, header; `disk` what has reached the disk and `pend` the writes in the stdio
buffer, in order. The contents of an article are the number of the call that wrote it,
word by word: an article that is overwritten in part shows. The actions are the LFI
calls under their own names (`LFIOUV`, `LFIECR`, `LFISUP`, `LFIREN`, `LFINFO`, `LFILEC`,
`LFICAS`, `LFICAP`, `LFILAS`, `LFILAP`, `LFIPOS`, `LFIFER`), each the whole `*_alts`
routine with the writes it makes, and `Crash`, which keeps any prefix of `pend`.
Operators follow the code's steps: `Lookup` and `SeekNext` (`lookup_rc`, `seek_rc`),
`GrowIdx` (`fh_grow_idx`), `HoleEnd`, `AppendAt`, `WriteHdr`. A page holds
`Section` entries and `Page` words independently of each other; a page has at least the
8 words that the size of the file leaves out (`pos + len - 8`). Not modelled: byte
order, statistics, failing writes.

### LfiMulti: multi-files

Files are inodes under paths: `fs` maps a path to an inode, `ino` an inode to its
contents; a sub-file is a native file seen as a table, which `LfiFile` justifies
(`Refinement`). `fh` is the open main file. The actions are the LFI calls, the tools
(`CopyTo`, `MergeTo`, `IndexTo`, `RemoveOf` for `lfi_altm_copy_`, `lfi_altm_merge_`,
`lfi_altm_index_`, `lfi_altm_remove_`) and the deaths of the process: between two
calls (`Dies`), while the main file is written (`DiesInHeader`), before the sub-files
are closed (`DiesInClose`). A copy made of links is one step: the tools call nothing
else in between. What is left uninitialised by `malloc` is any value.

### LfiLibrary, LfiPaths, LfiCopy, LfiPack

`LfiLibrary`: `lib[i]` is what library `i` knows (units open, error level, default
factor, factors given to units); `dir` the kind of each file, as `lfi_grok` sees it;
`ret` the reply, and whether the program stops. What a message shows is left out. The
number of the unit asks for a library (`LibraryOf`), and so does the kind of the file
(`ByFile`), which an opening may change (`KindOnceOpen`): a new file becomes what its
library makes, a native file opened as a multi-file becomes one. With `Asks = TRUE` programs open units and files that are not open, as SURFEX does. A call
that goes to all libraries in turn is one action (`ToAll`, `SetAll`).
`LfiPaths`: a name is the sequence of what its slashes separate; a step is a program
that makes, opens, indexes or copies a main file, or a directory that gets a new name.
`LfiCopy`: one action for each call of stdio and of the file system, which may fail;
the process may be killed between any two. `LfiPack`: one action per article in each
of the two passes, the first to count the size, the second to write.

### DrHookCalls, DrHookProfile: calls of routines and their profile

Per thread: `keydata` (the table, buckets of chains of keys), `tree` and `this` (the
calling tree and where the thread is in it), `curkey`, `cstk` (the handles of the single
precision build), `self` and `overhead`. `Start` is `c_drhook_start_` with `getkey`,
`insert_calltree` and `callstack`, `End` is `c_drhook_end_` with `putkey` and
`remove_calltree`, `Abort` the case putkey raises SIGABRT in, `Tick` the clock. `Forget`
is a routine that returns without its closing call. `routines`, `spent` and `inhook` are
history variables: what the program really did. The rows, clusters and totals of
`c_drhook_print_` are operators of the state in `DrHookProfile`. Two calling paths are
the same key in the code when their lengths and their hashes of 32 bits are equal
(`drhook.c:2519-2521`); `Matches` compares the paths, so that the case of two paths of
equal length and hash, which would share a key, is left out. The hash of a name only
chooses its bucket, as in the code, and collides in the instances.

### DrHookSignals

`step` is where `signal_drhook_init` is, one action for each list of signals; a handler
is a frame on the stack of its thread, its place in `signal_drhook` a field of the
frame. The signals are counted in a critical region, in one step (`Count`); without
OpenMP there is none, and the count is read and written in two steps (`ReadCount`,
`StoreCount`) between which another signal can be handled. Tracebacks and other libraries' handlers may return, end the
process or hang. Time is left out: an alarm that is armed may expire, a spin may end.

### DrHookHeap, DrHookMemProfile

`block` has for each block what `EC_malloc` put in its header and whether its last
word still has the NaN; `curalloca`, `maxcurheapa`, `hits` are the counters of a
thread, `mem` the amounts of a routine on a thread, `job` where a thread is in
`EC_malloc` or `EC_free`, `lock` who has `getcurheap_lock`. `Program(t)` starts a call,
`Heap(t)` goes on with it, at the granularity of the lock and of the callback to
`c_drhook_memcounter_`.

### SortKernels, KeySort

Words have `Width` bits; a kind says what they mean. A kernel is a function of the
keys and of the index (radix sort, in one word and in two, counting sort by digits,
quick, gnome and heap sort, merge); `KEYSORT` is a state machine over `jkey` with one
action per pass, per part of a thread (`SortPart`), and per merge (`MergeParts`), and
the shifts between indexes that count from 0 and from 1 (`adjusted`).

## 3. What is checked

| run | instance | shows |
|---|---|---|
| `io_run` | 3 tasks, 2 threads, 2 calls out of scalar, read, write, first write of an output, cover H and A | pieces are never misplaced or missing, buffers never overwritten while pending, tags agree, `CollectiveIO` is implemented |
| `io_live` | 2 tasks, 1 thread, 3 calls out of all kinds, those of PGD included | every program terminates, whichever sends wait |
| `run` | 3 formats of the forcing, 2 to 8 lines, 0 to 5 parts, 3 step ratios, end of a year and of February in a leap year; up to 3 runs in one netCDF file, 7 stop dates or none | right lines at every step, readings within the file, outputs on time and under names that increase; each run ends at the date asked for, the next continues from it |
| `partition` | 1 to 4 tasks, grids of 1x1 to 3x4, with and without shadows and topography | the tables agree, balance, whole rows, termination |
| `lfi_file` | 2 or 3 names, contents of 1 to 3 words; an index of 3 entries and 4 writes; an index of 1 entry that grows, with 3 writes of two lengths or 5 of one; an index of 3, three openings and two deaths | articles, holes and index sections never overlap; the counters of the header tell what the file holds; `ArticleStore` is implemented; a file is damaged only by a death, and then says so |
| `lfi_multi` | 2 names, 3 main files: a copy made or removed; a merge; an index; a death of the program, with 2 articles per sub-file and a rename | no call aborts on a state other calls made; no sub-file is lost or left over; the main files are independent; a copy or merge reads as its sources; after a death old, new or an error |
| `support` | 2 units, 2 files, 3 libraries; 20 path names, 4 directories; copies of 0 to 3 blocks with failures; up to 5 articles packed; all triples of 4-bit words as unsigned, integer or real; `KEYSORT` on 3 to 5 rows, 1 or 2 keys, 5 methods, 1 to 4 threads | one library serves a unit, that of the kind of its file; a sub-file is found from its main file; what is reported copied or packed is whole; the kernels agree with one definition of order; `KEYSORT` orders rows stably and loses no word |
| `drhook` | calls: 3 routines with colliding names on 1 or 2 threads, up to 5 calls; signals: 2 threads and 3 signals, or every list of the environment and 1; memory: 2 blocks, 2 threads, up to 6 operations | the tree follows the calls and the profile adds up; the first signal decides and the process ends; the memory reported is what is allocated |
| `io_bathy` | 3 tasks, the exchange of `TREAT_BATHYFIELD` | violated, see below |
| `run_zenith` | one run per format | violated, see below |
| `run_periods` | one run per format | violated, see below |
| `partition_share` | `PIO_FRAC` = 1/2 | violated, see below |

The longest runs, `lfi_multi`, `support` and `drhook`, take two to three minutes on two
cores. The utilities of the support library, the sorting included, share the run
`support`.

*Bounds and why they are enough.*

* `SurfexIO`: three tasks give a sender, a receiver and a task that is elsewhere, ranks
  on both sides of the sender for the shift of `NREQ`, and with `NPROC+1` columns two
  passes of which only some tasks have a second column. Two calls are enough for a
  message of one call to be met by the next; `Termination` needs a third to have a
  task two calls behind. PGD's calls are in `io_live`; their invariants are among
  those proved for every value of the constants.
* `OfflineRun`: parts of every length from one line to the whole file, with every
  remainder. `IndexPartition`: fewer, as many and more points than tasks.
* `LfiFile`: four writes make a hole, split it, fill it and extend an article over it;
  an index that starts with one entry grows once it has an article, so that the second
  section lies among the articles; two deaths and three openings let a process die in a file another
  left damaged. Lengths 1 and 3 differ by more than a hole's minimum, -1 is refused.
* `LfiMulti`: three main files are what a merge needs. One article per sub-file makes
  each write begin another; the deaths have two, so that a sub-file can be part full.
* `LfiLibrary`: two of the libraries in either order; `LfiCopy`: no block, one, two and
  three; `LfiPack`: as many articles as need a second index section.
* `DrHookCalls`: two routines of one bucket, one of another, a name equal to another
  once trimmed, recursion to depth 4, the stack that may be too short.
  `DrHookSignals`: a second signal on another thread and a third on either.
  `DrHookHeap`: words of two bytes, so that a block may not fill its last word; a block
  freed by the thread or the routine that did not allocate it.
* `SortKernels`: words of four bits in digits of two, with every sign and both zeros;
  three rows are the first number at which stability and merging differ from a swap.
  `KeySort`: five rows in up to four parts, so that there are two rounds of merges
  and a part of one row.

*Fairness.* `io_live` assumes weak fairness of the steps of each task and nothing of
MPI: a posted message can be received, and `CopyOut` is never needed. A task is a
process, which the system runs. `partition` assumes weak fairness of `Next`: the
loop runs on one task that waits for nobody. In `drhook` an alarm that was set
expires and a thread within Dr.Hook's handler goes on; the tracebacks, the program
and the handlers of other libraries may hang for ever: that the process ends
nevertheless is what `HandledEnds` says.

*Deadlock* is checked in `io_run`, `run`, `partition` and the violations. Not in
`io_live`, where a stuck task violates `Termination`; nor in `lfi_file`, `lfi_multi`,
`support` and `drhook`, where a program stops, a routine has answered or
a bound on the calls is reached.

### Disagreements the runs show

Four runs end in a violation of what the code or its comments say of themselves
(`findings` in `PROJECT.json`):

* `io_bathy`: `TREAT_BATHYFIELD` sends with `MPI_ISEND` from an automatic array of a
  procedure that has returned. `TREAT_FIELD` makes the same exchange from an array of
  its own, `ISIZE`, which it keeps until `MPI_WAITALL`.
* `partition_share`: with `XIO_FRAC < 1`, `INIT_INDEX_MPI` may give the I/O task its own
  points back and loop for ever.
* `run_zenith`: in a forcing step that crosses midnight, the zenith angle is computed
  for one day later than the date of the step.
* `run_periods`: `TDATE_END` is the day of the start plus the duration of the run, without
  the time of the start. A run of 18 h from 31 December at 12 h has it on 31 December, and
  the vegetation parameters of the first decade of January are not read for its last hours.

### Other disagreements, left out of the runs

The instances of the passing runs leave out the cases below, in which the code does
not do what its comments or the Fortran library's say. Each is stated by a definition
that is kept in its module (in brackets, with the instance that shows it where it is
not the definition alone) and is violated when checked on that instance.

Driver: an output step that the surface step does not divide is accepted, but outputs
are missing and the others have the wrong time (`OutputsOnTime` with `out` of 2 h and
`surf` of 3 h, `offline.F90:1339`).

Native LFI files, `lfi_alts.c`:

* `:818` An extra index section added by the last write before closing gets no
  placeholder at the next opening, and the next article is written over it
  (`Disjoint`, with `MaxOpens` = 2 in `Grows`).
* `:576` Going back from the end, the search returns a free slot (`PreviousArticle`).
* `:843` Holes at the end of the index stay counted after an opening (`HoleCount`).
* `:1242` A blank name is that of a hole: suppressing it counts the hole twice
  (`Counters`, with the blank name in `CallNames`).
* `:1256` A process killed while it makes a hole leaves a file that is not flagged and
  whose counters are one off (`Counters`, which therefore stops at the first death).
* `:1470` The number of physical articles is one short at some lengths (`PhysicalCount`).

Choice of the library, `lfi_intf.c` unless said otherwise:

* `:119` A unit may be opened in two libraries (`OneLibraryPerUnit`, with `Asks` =
  FALSE); `lfi_alts.c:670` a file may be opened on two units (`OneUnitPerFile`).
* `:300` A factor one library refused is reported accepted (`AttributedWhenZero`).
* `lfi_fort.c:90` The table of messages is called though it was not set (`NoWildCall`).
* `lfi_alts.c:1738` `LFIOMF` does not give the level (`LevelAnswered`).
* `:190` An error at opening stops the program at level 2 too (`NothingFatalAtTwo`).
* `:109` `LFINUM` of a unit that is not open stops the program (`RankOfNone`).
* `:149` `SCRATCH` is refused for a new file (`ScratchOpens`).

Multi-files, `lfi_altm.c`:

* `:1638` After three renames a write overwrites another article (`Refinement`).
* `:1650` A sub-file gets one article too many (`SubFileBound`).
* `:280`, `:420` With relative names, or a main file given with its directory, programs
  abort (`NeverAborts`, with `Relative` = TRUE and `Naming` = "subdir").
* `:276` A program that writes to an index removes the files it is made of
  (`Refinement`, with the index in `Opened`).
* `:950` A sub-file emptied by a merge may be left (`NoOrphans`, memory not zero).
* `:1294` An article of length zero aborts (`NeverAborts`, 0 in `Lens`).
* `:1512` `LFISUP` gives the length of another article (`SuppressedLength`).

Names and copies: names of which one is absolute and the other not, a `.` before `..`,
and a first `dir/..` lead elsewhere (`SubFileFound`, `lfi_util.c:220`, `:185`, `:187`); a
file of no whole number of blocks is reported copied when it is not (`CopiedIsWhole`,
`lfi_util.c:101`); a copy onto a file that exists removes it (`TargetKept`,
`lfi_altm.c:2121`).

Dr.Hook, `drhook.c`: with `CALLPATH`, a routine called outside any other gets another's
path (`KeyOfThePath`, `:2519`) and shares are too large (`ShareOfThread`, `:4046`); outside
any routine memory is charged to the last one (`CurrentKey`, `:976`); the overhead
reported is half of it (`OverheadIsTotal`, `:2816`); two options of the profile count
time twice (`RowsAddUp`, `:4200`, `:3937`); a signal ends the process without its atexits
(`ExitIncludesAtexits`, `:1761`); a fault of the tracebacks waits for itself
(`FirstCanComplete`, `:1556`), and so does a signal in an unnamed critical region
(`HandledEnds` without its condition on `ProgramCritical`, `:1494`); a first signal SIGALRM is not followed by
an alarm (`AlarmReceived`, `:1542`); SIGALRM is handled though ignored
(`IgnoredUntouched`, `:1333`).

Heap, `getcurheap.c`: a block is charged to who frees it (`RoutineLeak`, `:442`); the time
line asks for a lock that is held (`AllocateReturns`, `:449`); an enlarged block loses its
contents (`ReallocKeeps`, `:503`); on the NEC SX a correct program is warned
(`NoFalseWarning` without `HeadersTell`, `:328`); the amount left per range is wrong after a free
(`AmountIsLeft`, `:362`); the peak adds peaks of different times (`PeakIsExact`, `:575`).

Sorting (`SortedAsAsked`, without the restrictions of `MCArrays` and `RightOrder`):
counting sort reverses negative integers (`countingsort.c:344`) and tells the two zeros
apart (`:167`); the least integer comes first in descending order
(`ecsort_shared.h:191`); radix sort on several threads reads keys of other parts
(`rsort64.c:219`).

## 4. What is proved

With TLAPS, for any number of tasks and threads and any set and number of calls of the
protocol; for any grid and options of the distribution; for any forcing file, time
steps and chain of runs; for any signals on any threads and any lists of the
environment; for any program that calls Dr.Hook, on any threads, with any names, hash
and options; for any blocks, sizes and threads of the heap; for any sizes, lengths and calls of an LFI
file; for any main files, articles, tools and bounds of the multi-files; for any units,
files, levels and factors of the libraries, and any size of a copy:

| theorem | statement |
|---|---|
| `SurfexIO_proof!TypesHold` | `Spec => []TypeOK` |
| `SurfexIO_proof!Invariance` | `Spec => []Inv` |
| `SurfexIO_proof!PlacementHolds` | `Spec => []Placement` |
| `SurfexIO_proof!BufferHolds` | `Spec => BufferIntact` |
| `SurfexIO_proof!SynchronisedHolds` | `Spec => []Synchronised` |
| `SurfexIO_proof!CompletenessHolds` | `Spec => []Completeness` |
| `SurfexIO_proof!RefinementHolds` | `Spec => Refinement` |
| `IndexPartition_proof!NumberedHolds` | `Spec => []Numbered` |
| `IndexPartition_proof!BalancedHolds` | `Spec => []Balanced` |
| `IndexPartition_proof!WholeRowsHolds` | `Spec => []WholeRows` |
| `OfflineRun_proof!AddForecastType` | a date plus seconds is a date of the calendar |
| `OfflineRun_proof!AddForecastTwice` | adding seconds in two steps is adding their sum |
| `OfflineRun_proof!TypeCorrect` | `Spec => []TypeOK` |
| `OfflineRun_proof!EndDateHolds` | `Spec => []EndDate` |
| `OfflineRun_proof!DateContinuousHolds` | `Spec => DateContinuous` |
| `OfflineRun_proof!ReadsInFileHolds` | `Spec => []ReadsInFile` |
| `OfflineRun_proof!ForcingOfTheDateHolds` | `Spec => []ForcingOfTheDate` |
| `OfflineRun_proof!OutputsOnTimeHolds` | `Spec => []OutputsOnTime` |
| `OfflineRun_proof!NamesIncreaseHolds` | `Spec => NamesIncrease` |
| `DrHook_proof!FirstSignalHolds` | `Spec => []FirstSignalDecides` |
| `DrHook_proof!HeapInvHolds` | `HeapSpec => []HeapInv` |
| `DrHook_proof!MemoryAccountsHolds` | `HeapSpec => []MemoryAccounts` |
| `DrHook_proof!OverrunFoundHolds` | `HeapSpec => OverrunFound` |
| `DrHook_proof!CallsInvHolds` | `CallsSpec => [](CallsInv /\ TimesInv)` |
| `DrHook_proof!CallsFollowedHolds` | `CallsSpec => []CallsFollowed` |
| `DrHook_proof!ClosesItsOwnHolds` | `CallsSpec => ClosesItsOwn` |
| `LfiFile_proof!DisjointHolds` | `Spec => []Disjoint` |
| `LfiFile_proof!DamageOnlyByDeathHolds` | `Spec => DamageOnlyByDeath` |
| `LfiMulti_proof!MultiInvHolds` | `OrdinaryUse => (Spec => []MultiInv)` |
| `LfiMulti_proof!NeverAbortsHolds` | `OrdinaryUse => (Spec => []NeverAborts)` |
| `LfiMulti_proof!NoOrphansHolds` | `OrdinaryUse => (Spec => []NoOrphans)` |
| `LfiTools_proof!OneLibraryHolds` | `Spec => []OneLibraryPerUnit` |
| `LfiTools_proof!FactorAsAnnouncedHolds` | `Spec => FactorAsAnnounced` |
| `LfiTools_proof!ServedByItsKindHolds` | `Spec => []ServedByItsKind` |
| `LfiTools_proof!CopiedIsWholeHolds` | `CopySpec => []CopiedIsWhole` |

Assumptions of the protocol: `CallsAssumption` and `TasksAssumption` (types of the constants; calls
whose root is not `NPIO` only where every task has `NINDEX`), and, for all but
`TypesHold` and `CompletenessHolds`, `NoBathy`: the program does not call
`TREAT_BATHYFIELD`, for which `Placement` is false. Of the distribution:
`InstancesAssumption` (a grid and a number of tasks that are not empty, the types of the
options). Of the driver: the assumptions of `OfflineRun` on the setups (types of the
namelists and of the forcing file, a line of it left to read); `OutputsOnTimeHolds` needs the surface step to divide the output step, which the
code does not check and without which the statement is false, and `NamesIncreaseHolds`
an output step of a minute at least, the resolution of the names. Of the signals:
SIGALRM is one of them, and a program without OpenMP has one thread. Of the calls of
Dr.Hook, `DrHookAssumption`: the hash is defined on the names, threads are numbered from
1, the options have their types. Two parts of what is proved are guarded, in the
definitions that TLC checks too: `OwnTimeIsSpent` is for programs that make both calls
and enter no routine twice, because a key has one time of entry; `ClosesItsOwn` excepts
the programs for which a handle tells nothing (`HandlesTell`: the handle is the pointer
to the key, routines are recursive and leave out closing calls). Of the heap,
`HeapAssumption`: words of at least a byte, finitely many threads, routines and blocks;
what the sizes in the headers are needed for is guarded by `HeadersTell`, which is false
only on the NEC SX for sizes that are not whole words (`getcurheap.c:328`, above). Of an
LFI file:
pages of at least 8 words, and `CallersAssumption` of `LfiFile_proof`: the callers give
the names of articles or the blank name of a hole (a suppressed hole), and the file
either has one index section or is opened once. Without the last part `Disjoint` is
false, see `lfi_alts.c:818` above; without the first, the code does not refuse the name
of a placeholder and the argument does not cover what becomes of one.
`DamageOnlyByDeathHolds` assumes nothing of the sizes nor of the callers. Of the
multi-files, `OrdinaryUse`: sub-files have names that mean the same from every
directory, articles are not empty, and an index of files that are not its own is
only read. Without the first two `NeverAborts` is false (`lfi_altm.c:280`, `:420`,
`:1294` above), and without the third the sub-files of the sources may be unlinked
(`:276`). There are finitely many names and main files (`NamesAssumption`). Of the
libraries, `ProgramsAssumption`: programs open files and units that are not open (`Asks`),
with no more units than `JPXUFM` and factors from 1 to `JPFACX`; beyond, the Fortran
library refuses what the others accept (`AttributedWhenZero`, above). Of a copy:
files of whole blocks (`BlocksAssumption`), as `fh_write_pad` leaves them, a page being
a multiple of 4096 bytes; for the file of a writer that was killed `CopiedIsWhole` is
false (`lfi_util.c:101`, above).

`TypeOK` and `Placement` are not inductive. A receive takes the oldest message with
its tag from its source: that it is the right one depends on all that may be in the
network. The argument names a message by its source, destination and *round*, the
call and pass it was posted in, and shows

* `Base` (with the types): where a task can be in each kind of call, and what its
  loops may still serve;
* `LocalInv`: the tag counters are a function of the position in the program
  (`TagsOK`); a task that packs columns knows the partition (`NindexOK`); its own
  column is in `XWORKS` until it is stored (`OwnOK`);
* `NetInv`: a message in the network is of a round that its source has posted and its
  destination not received, with the tag and content of that round (`NetOK`); one
  that was posted and not received is there (`InFlight`), once (`UniqueOK`); messages
  of a pair are numbered in the order of their rounds (`OrderOK`); nothing is received
  before it is posted (`Causal`); a pending `MPI_ISEND` is of the current pass of its
  source and has its slot of `NREQ` (`PendingOK`).

So the oldest message with a tag is that of the receiver's own round: an older round
was received, a later one has a larger number. `BufferHolds` follows from
`PendingOK`: a task packs again only after the wait that empties its requests.
`SynchronisedHolds` follows from `NetOK` and `TagsOK`.

`Completeness` says something of the calls a task has left, and what has arrived in
the one it is in must be read off its place: `ArrivedOK` says that a task that
receives has stored what came from every task it no longer waits for (`Current`), and
in a cover read the columns of every pass before (`Passed`). With `Covered`, that every
column of `1..n` is the column of some task in one of the `IPAS(n)` passes, the end of
the loops gives all the columns. It needs no more than `Base`: a column that arrives
is counted whether its content is right or not.

`RefinementHolds` maps the entry of the first task to `Agree` and the end of a call
of a task to `Complete`; the other steps change nothing of what the program sees. At
the end of a call what was stored is what `CollectiveIO` gives: no more, as a task
stores only in the columns it asked for (`ColumnsOK`), with the values of `Placement`,
and no less by `Completeness`. That the contributors have come to the call follows
from `Causal`, as their messages were received; for those that send none, NPIO in a
broadcast, from `BcastOK` and `HeardOK`.

For `IndexPartition` the inductive invariant `PartitionInv` says, for each loop of
`INIT_INDEX_MPI`, what it has done so far. While the points are given out, the point of
the loop is as far from `Before(inst, IPROC1)`, the number of points that the tasks
served earlier are to have, as the task has points (`Assigning`): so the loop never
leaves the tasks before the points are exhausted, which `TaskAfter` alone does not say.
`Before` has a closed form (each task the quotient, some of them one more or one less),
whose last value is the size of the grid in both branches of `GET_SIZES_PARALLEL`;
`AboveStep` and `AboveEnds` take the place of an induction over the tasks. The points of
a task then lie between two of its values (`Within`), which with shadows are multiples of
a row in the order of the tasks: that is `WholeRows`. A move of a point changes two of
the counts (`MovedCounts`), or none where the receiver is the I/O task itself, and the
counters in the same way (`CountersAgree`); the numbering counts the points of a task
among the first `JJ` (`NumberedSoFar`).

The balance needs more of the first loop: that a point lies between the bounds of one
task only (`OneTask`, from the order of the bounds, `BoundsInOrder`), so that the tasks
have the sizes they were meant to have (`GivenInFull`), which differ by one. Then
`EvenTo` is kept while points are moved: the tasks have `b` points or `b + 1`, and where
the I/O task has `b + 1` either a task with `b` is the next to receive, or all have
`b + 1`. So at most one point is moved, and never to the I/O task itself; where the I/O
task starts as one of the smallest, none is.

For the calendar, `AddDays` is a recursive function of the number of days.
Induction over a statement is replaced by induction over the set of the numbers for
which it is true (`SetInduction`, from the least element of its complement), so that
adding `m` and then `n` days is adding `m + n`; the seconds below a day are arithmetic.

For `OfflineRun`, `ClockInv` says that both clocks are at the date of the line of the
forcing file the loop is at plus the surface steps made (`Timed`), with the numbers of
lines and steps the configuration planned (`Planned`); by `AddForecastTwice` the date
after the last surface step of a forcing step is that of the next line.
`ReadingInv` says which lines the buffer holds: the part that was read ends where the
position in the file is, and the next part begins with its last line (`PartHeld`), for
every division of the lines into parts and the last part shorter. `OutputInv` has the
number of outputs as the quotient of the time by the output step. `NameInv` has the last
name as that of a date `o` at least `ZTIMEC % setup.out` seconds ago; two such dates are
in the order of their names also where one takes the name of the day before.

For `DrHookSignals`, `SignalsInv` says what the lists read so far make of each signal
while none has been counted (`ListsRead`, with `Claim`: the first list that names a
signal decides); what a handler at each of its places has counted (`FramesOK`); that a
thread that has read the count without storing it finds it unchanged (`ReadsAgree`:
without OpenMP there is one thread, and a handler that was interrupted never goes on, as
the one above it does not return); that at most one handler was counted first
(`OneFirst`), and that it is for the signal `first`. A process that ends with an exit
code is ended by that handler, or by a core that was asked for, or before the set-up.

For `DrHookCalls`, `CallsInv` is about one thread at a time (`ThreadOK`), as no thread
touches another's table. The active nodes of the tree are the first ones, up to the one
the thread is at (`TreeShape`), also where a node is used again after its call has ended;
the number of active nodes of a key is its status; the routines the program is really in
have their nodes in the order of the calls, and where closing calls were left out the
nodes of those routines lie between them (`FramesOK`). So putkey, which closes the node
the thread is at, closes the routine's own unless something was left open above it, and
then the handle of the call stack (`StackOK`) or the key tells. `TimesInv` says of each
routine what its keys and their children have received: all that was spent in it if no
call of it is active, else all but the time since the active call was entered or its
callee left (`OpenAt`). A routine may have several keys, one for each path, and the total
is over all of them.

For `DrHookHeap`, the counters agree with the blocks only while no call is in progress;
the invariant has to say what each call has already added or deducted. `BytesInv`: the
counters of the threads, plus for each thread the bytes of the block it has allocated and
not yet counted, less those it has freed and not yet deducted (`Uncounted`), are the bytes of
the blocks alive. `HitsInv` is the same for the hits of the ranges, `CursInv` for the
charges of the routines, of which a free may change those of another thread. `JobsInv`
keeps the blocks of two calls in progress apart. `PeakInv`: the maxima of the threads add
up to no less than the largest total there ever was.

Both need totals over all threads, routines or blocks. `SumFunction` of the community
modules chooses the order in which it takes the elements; `Sums_proof` shows, by induction
over the finite subsets of a set (`FiniteInduction`), that the order does not matter:
a total is the value of any element plus the total of the others (`SumSplit`), a change of
one value changes it by the difference (`SumChange`).

For `LfiFile`, the entries of the index are in the order of their words (`InOrder`):
free slots last, every other entry beyond the header's pages and before the next one.
Each way a write finds its place keeps that order: in its own slot, shortened or
lengthened into the hole behind it or into the end of the file (`OwnSlotInOrder`), in
the smallest hole that fits, behind the last article (`AppendedInOrder`), or with a new
index section behind it, whose placeholder comes next (`GrownInOrder`).
`SectionsOK` ties the sections of the header to their placeholders. For files that are
opened again the order must survive the disk: an index is written whole, before
its header (`Queues`), whatever prefix of the writes a death leaves is a disk whose
index is in order (`PlainDisk`, `AfterKeeps`), and what an opening makes of it is again
(`ReadPlain`).

`DamageOnlyByDeath` is about the flag in memory and the flag on the disk. `FlagInv` says
that a file that is open and was not modified is the one on the disk, with nothing in the
stdio buffer, and that nothing is in it for a closed file. So the close of an unmodified
file, which writes nothing, leaves the flag it found; that of a modified one leaves the
header it has in memory, which is written after every flag (`AfterClose`). Every call
keeps the flag in memory, and one that writes anything marks the file as modified
(`KeepsFlag`), also where it fails after a suppression.

For `LfiMulti`, the difficulty is that files share inodes: `MultiInv` says what may.
`Disk`: only native files have more than one path, and sub-files are native, so that
writing a main file anew in its inode changes no other file; the index of a main file
lists different paths of its own directory, which are there and whose inodes have the
articles under the names the index has for them (`IndexOK`). An index of other
files (`Solid` is false for it) promises only that its entries are well formed, which is
why it must not be written to. `OpenOK` says the same of the open unit and its table,
in memory, of which the disk may not have the last entries: its sub-files that have
articles or were not unlinked (`Present`) are there, are opened at the inodes their paths
have, and no two are one file; the sub-file being written is open and is not marked dead.

These are kept, also by deaths, because the inodes only gain: a session writes to
the sub-file it made itself and links only add paths (`Grows`, `DiskGrows`,
`SessionGrows`), a path goes only with the last entry that needs it (`DropDisk`,
`HdrDisk`), and what a death leaves of a main file, nothing or the index written
before the sub-files are closed, is of one main file only (`TornDisk`). That a sub-file
can be opened is another matter: a sub-file written to is flagged as not closed until
`lfifer_altm`, so that as long as no process has died the files not closed are those
of the open unit (`Clean`, `Readable`). `Owned` says whose each sub-file is: the
table of the open unit or an index names it; it holds because `fh_write_hdr` keeps or unlinks
each sub-file in its table (`HdrUndying`), and until a session has modified
anything the index on the disk still is that of its table (`Filed`).

For `LfiLibrary`, every call changes the open units of one library, or the settings of
all three (`OpensUnit`, `ClosesUnits`, `SetsAll`); `LibraryInv` says that the units are in
one library each and the settings the same. That the settings stay the same is where the
libraries could part: each decides alone whether it accepts a factor, and the Fortran one
also by the room it has left, which a count of the units bounds (`AttributeAlike`). The kinds of
the files are shared by the libraries: that an opening leaves those of the other open
files as they are needs that no two units have one file, and `KindsInv` is
`ServedByItsKind` with `OneUnitPerFile`. A call that opens nothing changes no kind and
adds no file (`FilesKept`), an opening takes the file to the library of its kind
(`OpeningFiles`).

For `LfiCopy`, `CopyInv` says that what was given to stdio, what is in the buffer and
what is not read yet are together the source; what is on the disk may be any part of it
until `fclose` succeeds, which is before the reply. A copy by a link has nothing to
close.

Only model-checked: `Termination` of `SurfexIO`; `PartitionEnds` of `IndexPartition`;
`HandledEnds` of `DrHookSignals`: liveness under fairness and `ENABLED` are out of reach
of the prover. The recursive operators of `SortKernels` and `KeySort` (`KernelsAgree`,
`SortedAsAsked`) are too: it cannot be used at all in a module with one. The reports of
Dr.Hook (`ReportsAreRight`) and the packing (`PackedIsWhole`) fold over sequences that are
themselves chosen or built by a fold, and `SubFileFound` normalises names of any length:
what such a definition computes for every input is an induction over data, for which the
library's theorems cannot be used. The refinements of `ArticleStore` by `LfiFile` and
`LfiMulti` (and `ToolResult`, `OldOrNew`, which compare what is read before and after) are
within reach in principle; that of `LfiFile` needs an invariant that pairs every pending
write with the header that follows it, as do its counters (`Counters`), which after an
opening are those of the file that was written.

## 5. What is not modelled

* The physics, the numerical filters of SODA, interpolation weights: floating-point
  computations without control that TLC could explore.
* In the driver: OASIS, TOPD and XIOS branches, radiation and slope corrections. Of
  the distribution, the adjacent and tiled ones.
* Of XRD44: the Fortran LFI library, FA and GRIB, the message passing layer MPL, the
  byte-level I/O (`bytes_io.c`), the generation of `privpub.h`, the messages' texts, and
  small wrappers of the system. Of Dr.Hook, the hardware counters, the time line's
  text and the vector reports.
* Vendored models: TRIP, TOPODYN, GELATO; netCDF.
* Constant tables (`default_*.F90`, `ini_data_cover.F90`).
* The file back ends of SURFEX other than LFI.

## 6. Plan

Done: `SurfexIO` with `CollectiveIO`, its proofs; `OfflineRun`; `IndexPartition`; the LFI
files in C with `ArticleStore`; Dr.Hook with its heap; the sorting.

Left, in order of importance:

1. Extension of `SurfexIO`: `SUM_ON_ALL_PROCS`.
2. Extension of `IndexPartition`: `SET_NB_POINTS_ADJ` (growth of connected blocks) and
   `SET_NB_POINTS_TIL` (tiles, and the file of the distribution).
3. `SurfaceBlocks`: the OpenMP blocks of the surface step, the packing of tiles and
   patches and its inverse; property: the fluxes of a point come from its own tiles,
   whatever the threads do.
4. `Coupling`: exchange with OASIS at coupling dates, the last one of a run included.
5. `RecordList`: `IO_BUFF` and the calls that rely on a record being written once.
6. `Dates`: Julian days and netCDF units as operators, checked against `Calendar`.
7. Proofs: `Counters` of `LfiFile`; the refinement of `ArticleStore` by `LfiMulti`, for
   which `MultiInv` is the invariant to start from.
