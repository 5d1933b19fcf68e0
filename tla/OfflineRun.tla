----------------------------- MODULE OfflineRun -----------------------------
(***************************************************************************)
(* The time loop of the OFFLINE driver: the forcing file and the buffer    *)
(* through which it is read in parts, the dates of the driver and of the   *)
(* model, the outputs, and the restart file that the next run starts from. *)
(*                                                                         *)
(* A line of the forcing is abstracted to its index in the file, an output *)
(* to its date and its time label.  Times are whole seconds.               *)
(***************************************************************************)
EXTENDS Calendar, Sequences, FiniteSets

CONSTANTS
  Setups,     \* the forcing files and namelists that a run may have
  NoDate,     \* NDATESTOP = 0,0,0,0
  MaxRuns     \* bound: number of successive runs, each from the last restart

Files == {"NETCDF", "ASCII", "BINARY"}

VARIABLES
  setup,      \* the namelist and the forcing file of the run
  prep,       \* DTCUR of the file the run starts from
  stop,       \* NDATESTOP of the run
  runs,       \* number of runs launched
  pc,         \* where the driver is
  ITIMESTARTINDEX, INB_STEP_ATM, INB_LINES, NB_READ_FORC, IDMAX,
  JFORC_STEP, JSURF_STEP,
  buffer,     \* line of the file held by each line of ZTA, ZQA, ...
  filepos,    \* lines of an ASCII file read so far
  date,       \* IYEAR, IMONTH, IDAY, ZTIME
  ttime,      \* YSC%U%TTIME
  ZTIMEC,     \* time since the start of the run
  zenith,     \* dates of the zenith angles summed for the forcing step
  outputs,    \* time labels and times of the outputs of the run
  tag,        \* date in the name of the last output file, of all the runs
  readings    \* history: the lines asked for by each reading of the run

config == <<setup, stop, runs>>
lines == <<INB_LINES, NB_READ_FORC, ITIMESTARTINDEX, INB_STEP_ATM>>
reader == <<IDMAX, buffer, filepos, readings>>
clock == <<date, ttime, ZTIMEC>>
written == <<outputs, tag>>
vars == <<config, prep, pc, lines, reader, JFORC_STEP, JSURF_STEP, clock, zenith, written>>

-----------------------------------------------------------------------------
(* The forcing file and the configuration of the run. *)

INB_ATM == setup.forc \div setup.surf
RowDate(s, i) == AddForecast(s.first, (i - 1) * s.forc)
RowsOf(s, d) == {i \in 1 .. s.rows : RowDate(s, i) = d}
First(S) == CHOOSE i \in S : \A j \in S : i <= j

(* OL_READ_ATM_CONF: the first line of the run; 0 if the dates disagree. *)
StartIndex(s, d) ==
  IF s.delayed
    THEN IF RowsOf(s, d) = {} THEN 0 ELSE First(RowsOf(s, d))
    ELSE IF RowDate(s, 1) = d THEN 1 ELSE 0

ASSUME SetupsAssumption ==
  /\ NoDate \notin Dates
  /\ MaxRuns \in Nat \ {0}
  /\ \A s \in Setups :
       /\ s.file \in Files
       /\ s.rows \in Nat \ {0, 1}          \* lines of the forcing file
       /\ s.first \in Dates                \* date of its first line
       /\ s.prep \in Dates                 \* DTCUR of the PREP file
       /\ s.forc \in Nat \ {0}             \* its time step
       /\ s.surf \in Nat \ {0}             \* XTSTEP_SURF
       /\ s.out \in Nat \ {0}              \* XTSTEP_OUTPUT
       /\ s.nread \in Nat                  \* NB_READ_FORC
       /\ s.delayed \in BOOLEAN            \* LDELAYEDSTART_NC
       /\ s.delayed => s.file = "NETCDF"
       /\ s.timename \in BOOLEAN           \* LOUT_TIMENAME
       /\ s.stops \subseteq Dates \cup {NoDate}   \* values of NDATESTOP
       /\ StartIndex(s, s.prep) # s.rows   \* a line left to read after the first

(* mutant: the lines before the start are counted *)
LastIndexUnshifted(s, from, d) ==
  LET found == {i \in RowsOf(s, d) : i >= from}
  IN  IF s.file = "NETCDF" /\ d # NoDate /\ found # {}
        THEN First(found) + from - 1 ELSE s.rows + from - 1

(* The last line of the run; NDATESTOP is ignored if no line has its date. *)
LastIndex(s, from, d) ==
  LET found == {i \in RowsOf(s, d) : i >= from}
  IN  IF s.file = "NETCDF" /\ d # NoDate /\ found # {} THEN First(found) ELSE s.rows

(* The coherence checks of the time steps. *)
Coherent(s, d) ==
  /\ (s.out % s.forc) * (s.forc % s.out) = 0
  /\ s.forc % s.surf = 0
  /\ d.time # 0 => d.time % s.surf = 0

CeilDiv(a, b) == (a + b - 1) \div b

(* Lines of the forcing in one reading of n + 1 lines. *)
Lines(n, nread) ==
  IF nread = 1 THEN n ELSE IF nread # 0 THEN CeilDiv(n + 1, nread) ELSE 1

Init ==
  /\ setup \in Setups
  /\ prep = setup.prep
  /\ stop \in setup.stops
  /\ runs = 1
  /\ pc = "configure"
  /\ ITIMESTARTINDEX = 0 /\ INB_STEP_ATM = 0 /\ INB_LINES = 1
  /\ NB_READ_FORC = setup.nread /\ IDMAX = 0
  /\ JFORC_STEP = 0 /\ JSURF_STEP = 0
  /\ buffer = <<>> /\ filepos = 0
  /\ date = prep /\ ttime = prep /\ ZTIMEC = 0
  /\ zenith = <<>>
  /\ outputs = <<>> /\ tag = <<-1, 0, 0, 0, 0>>
  /\ readings = <<>>

Configure ==
  LET from == StartIndex(setup, prep)
      n    == LastIndex(setup, from, stop) - from
      size == Lines(n, NB_READ_FORC)
  IN
  /\ pc = "configure"
  /\ from # 0 /\ Coherent(setup, prep)
  /\ ITIMESTARTINDEX' = from
  /\ INB_STEP_ATM' = n
  /\ INB_LINES' = size
  /\ IDMAX' = size + 1
  /\ NB_READ_FORC' = IF size = 0 THEN 0 ELSE CeilDiv(n + 1, size)
  /\ buffer' = [i \in 1 .. size + 1 |-> 0]
  /\ date' = prep /\ ttime' = prep
  /\ ZTIMEC' = 0
  /\ pc' = "first reading"
  /\ UNCHANGED <<config, prep, filepos, readings, JFORC_STEP, JSURF_STEP, zenith, written>>

(* ABOR1_SFX: the dates or the time steps do not agree. *)
Abort ==
  /\ pc = "configure"
  /\ StartIndex(setup, prep) = 0 \/ ~Coherent(setup, prep)
  /\ pc' = "aborted"
  /\ UNCHANGED <<config, prep, lines, reader, JFORC_STEP, JSURF_STEP, clock, zenith, written>>

(* TDATE_END, given to INIT_SURF_ATM_n: the duration of the run is added   *)
(* to the day it starts, without ZTIME.                                    *)
TDATE_END == AddForecast([prep EXCEPT !.time = 0], INB_STEP_ATM * setup.forc)

(* The parameters of ISBA given for each of 36 periods, three a month, of  *)
(* which only some are read; the others are XUNDEF.                        *)
Period(d) == 3 * (d.month - 1) + (IF d.day = 31 THEN 3 ELSE CeilDiv(d.day, 10))

PeriodsRead(from, to) ==
  {p \in 1 .. 36 :
     \/ to.year >= from.year + 2
     \/ to.year = from.year + 1 /\ (p >= Period(from) \/ p <= Period(to))
     \/ to.year <= from.year /\ p >= Period(from) /\ p <= Period(to)}

-----------------------------------------------------------------------------
(* OL_READ_ATM of lines step .. step + n - 1 into lines 1 .. n of buf.  In *)
(* ASCII and BINARY, READ_SURF_ATM takes the first line from the end of    *)
(* the part read before; in ASCII the file is read sequentially.           *)

FirstRead(s, step) == s.file = "NETCDF" \/ step = 1

ReadLine(s, buf, step, n, pos, i) ==
  IF i > n THEN buf[i]
  ELSE IF i = 1 /\ ~FirstRead(s, step) THEN buf[n]
  ELSE IF s.file # "ASCII" THEN step + i - 1
  ELSE IF step = 1 THEN i ELSE pos + i - 1

OL_READ_ATM(buf, step, n) ==
  /\ buffer' = [i \in DOMAIN buf |-> ReadLine(setup, buf, step, n, filepos, i)]
  /\ filepos' = IF step = 1 THEN n ELSE filepos + n - 1
  /\ readings' = Append(readings, {buffer'[i] : i \in 1 .. n})

ID_FORC(j) == IF j % INB_LINES = 0 THEN INB_LINES ELSE j % INB_LINES

(* The last reading is shorter; its last line is first given the last line *)
(* of the buffer, "for ascii and binary forcing files".                    *)
LastReadingNever(j) == FALSE   \* mutant
LastReading(j) == j \div INB_LINES = NB_READ_FORC - 1
LastSize(j) == INB_STEP_ATM - j + 1 + 1
KeepNothing(buf, n) == buf   \* mutant
KeepLast(buf, n) == [buf EXCEPT ![n] = buf[INB_LINES + 1]]

(* The dates given to SUNPOS for the sum of the zenith angles. *)
ZenithDates ==
  [k \in 1 .. INB_ATM |->
    LET time == date.time + (k - 1) * setup.surf
    IN  [day |-> IF time > DAY THEN date.day + 1 ELSE date.day, time |-> time]]

FirstReading ==
  /\ pc = "first reading"
  /\ OL_READ_ATM(buffer, ITIMESTARTINDEX, IDMAX)
  /\ JFORC_STEP' = 1
  /\ pc' = IF INB_STEP_ATM = 0 THEN "restart" ELSE "forcing"
  /\ UNCHANGED <<config, prep, lines, IDMAX, JSURF_STEP, clock, zenith, written>>

ForcingStep ==
  /\ pc = "forcing"
  /\ IF ID_FORC(JFORC_STEP) = 1 /\ JFORC_STEP # 1
       THEN LET n   == IF LastReading(JFORC_STEP) THEN LastSize(JFORC_STEP) ELSE IDMAX
                buf == IF LastReading(JFORC_STEP) THEN KeepLast(buffer, n) ELSE buffer
            IN  /\ IDMAX' = n
                /\ OL_READ_ATM(buf, ITIMESTARTINDEX + JFORC_STEP - 1, n)
       ELSE UNCHANGED reader
  /\ zenith' = ZenithDates
  /\ JSURF_STEP' = 1
  /\ pc' = "surface"
  /\ UNCHANGED <<config, prep, lines, JFORC_STEP, clock, written>>

-----------------------------------------------------------------------------
(* One step of the surface, its output, and the end of the run. *)

TagDate(s, d) == IF s.timename /\ d.time = 0 THEN EndOfDayBefore(d) ELSE d

YTAG(s, d) ==
  LET t == TagDate(s, d)
      hour == t.time \div 3600
  IN  <<t.year, t.month, t.day, hour, t.time \div 60 - 60 * hour>>

(* Time label of the n-th output: XTSTEP_OUTPUT * XSTARTW. *)
Label(s, n) == s.out * n

OutputTimeFromZero(t) == t > setup.surf /\ (t - setup.surf) % setup.out = 0   \* mutant
OutputTime(t) == t % setup.out = 0

WriteOutput(d, t) ==
  IF OutputTime(t)
    THEN /\ outputs' = Append(outputs, [label |-> Label(setup, Len(outputs) + 1), time |-> t])
         /\ tag' = YTAG(setup, d)
    ELSE UNCHANGED written

(* What follows a step of the surface. *)
NextStep ==
  IF JSURF_STEP < INB_ATM
    THEN JSURF_STEP' = JSURF_STEP + 1 /\ UNCHANGED <<JFORC_STEP, pc>>
  ELSE IF JFORC_STEP < INB_STEP_ATM
    THEN JFORC_STEP' = JFORC_STEP + 1 /\ pc' = "forcing" /\ UNCHANGED JSURF_STEP
    ELSE pc' = "restart" /\ UNCHANGED <<JFORC_STEP, JSURF_STEP>>

SurfaceStep ==
  /\ pc = "surface"
  /\ ZTIMEC' = ZTIMEC + setup.surf
  /\ ttime' = AddForecast(ttime, setup.surf)
  /\ date' = AddForecast(date, setup.surf)
  /\ WriteOutput(date', ZTIMEC')
  /\ NextStep
  /\ UNCHANGED <<config, prep, lines, reader, zenith>>

(* mutant: the restart file keeps the date that the run started from *)
RestartUndated ==
  /\ pc = "restart"
  /\ pc' = "finished"
  /\ UNCHANGED <<config, prep, lines, reader, JFORC_STEP, JSURF_STEP, clock, zenith, written>>

(* The restart file, with the date of the model. *)
Restart ==
  /\ pc = "restart"
  /\ prep' = ttime
  /\ pc' = "finished"
  /\ UNCHANGED <<config, lines, reader, JFORC_STEP, JSURF_STEP, clock, zenith, written>>

(* The next run continues from the restart file, in the same forcing file, *)
(* until another date.                                                     *)
Launch ==
  /\ pc = "finished" /\ runs < MaxRuns
  /\ setup.delayed
  /\ StartIndex(setup, prep) \in 1 .. setup.rows - 1
  /\ stop' \in setup.stops
  /\ runs' = runs + 1
  /\ pc' = "configure"
  /\ NB_READ_FORC' = setup.nread
  /\ ITIMESTARTINDEX' = 0 /\ INB_STEP_ATM' = 0 /\ INB_LINES' = 1
  /\ IDMAX' = 0 /\ buffer' = <<>> /\ filepos' = 0 /\ readings' = <<>>
  /\ JFORC_STEP' = 0 /\ JSURF_STEP' = 0
  /\ ZTIMEC' = 0 /\ zenith' = <<>> /\ outputs' = <<>>
  /\ UNCHANGED <<setup, prep, date, ttime, tag>>

Stopped ==
  /\ pc \in {"finished", "aborted"}
  /\ UNCHANGED vars

Next ==
  \/ Configure \/ Abort \/ FirstReading \/ ForcingStep
  \/ SurfaceStep \/ Restart \/ Launch \/ Stopped

Spec == Init /\ [][Next]_vars

-----------------------------------------------------------------------------
(* Type invariant: the domains of the state of the driver. *)
TypeOK ==
  /\ setup \in Setups /\ stop \in setup.stops /\ runs \in 1 .. MaxRuns
  /\ pc \in {"configure", "first reading", "forcing", "surface",
             "restart", "finished", "aborted"}
  /\ {date, ttime, prep} \subseteq Dates
  /\ {ITIMESTARTINDEX, INB_STEP_ATM, INB_LINES, NB_READ_FORC, IDMAX} \subseteq Nat
  /\ {JFORC_STEP, JSURF_STEP, filepos, ZTIMEC} \subseteq Nat
  /\ buffer \in Seq(Nat)
  /\ readings \in Seq(SUBSET Nat)
  /\ outputs \in Seq([label : Nat, time : Nat])

(* At each step of the surface the lines ID_FORC and ID_FORC + 1 of the    *)
(* buffer are the forcing of the two dates around the date of the driver,  *)
(* whatever the format of the file, the parts it is read in and the date   *)
(* the run started from.                                                   *)
ForcingOfTheDate ==
  pc = "surface" =>
    LET line == buffer[ID_FORC(JFORC_STEP)] IN
    /\ buffer[ID_FORC(JFORC_STEP) + 1] = line + 1
    /\ line \in 1 .. setup.rows - 1
    /\ date = AddForecast(RowDate(setup, line), (JSURF_STEP - 1) * setup.surf)

(* No reading goes beyond the end of the forcing file, the shorter last    *)
(* part included, and the forcing is not read in more parts than the       *)
(* namelist asks for ("to be sure the number of readings will be           *)
(* NB_READ_FORC as a maximum").                                            *)
ReadsInFile ==
  /\ \A i \in 1 .. Len(readings) : readings[i] \subseteq 1 .. setup.rows
  /\ setup.nread > 0 => Len(readings) <= setup.nread

(* When the restart file is written, the driver and the model have the     *)
(* date of the last line of the run: NDATESTOP when it is the date of a    *)
(* line from the start on.  (TDATE_END is another date: see                *)
(* PeriodsOfTheRun.)                                                       *)
EndDate ==
  pc = "restart" =>
    /\ date = RowDate(setup, ITIMESTARTINDEX + INB_STEP_ATM)
    /\ ttime = date
    /\ (/\ setup.file = "NETCDF"
        /\ \E i \in ITIMESTARTINDEX .. setup.rows : RowDate(setup, i) = stop) => date = stop

(* The time label of a record of the output file, "seconds since" the date *)
(* of the start of the run, is the time simulated when it is written, and  *)
(* no record is missing: NSTEP_OUTPUT of them at the end of the run.       *)
OutputsOnTime ==
  /\ \A i \in 1 .. Len(outputs) : outputs[i].label = outputs[i].time
  /\ pc = "restart" => Len(outputs) = (INB_STEP_ATM * setup.forc) \div setup.out

(* The zenith angles averaged over a forcing step are those of its own     *)
(* surface steps ("SUM ZENITH angle between 2 timestep").                  *)
ZenithOfTheStep ==
  \A k \in 1 .. Len(zenith) :
    pc = "surface" /\ JSURF_STEP = 1 =>
      zenith[k].day * DAY + zenith[k].time
        = date.day * DAY + date.time + (k - 1) * setup.surf

(* Each step of the surface is made in a period that READ_PGD_ISBA_PAR_n   *)
(* has read ("all periods between JT_BEG and JT_END are read"): the date   *)
(* of the model is that by which VEGETATION_UPDATE takes the parameters.   *)
PeriodsOfTheRun ==
  pc = "surface" => Period(ttime) \in PeriodsRead(prep, TDATE_END)

(* The date only moves by steps of the surface, from one run to the next   *)
(* as within a run: a restarted run leaves no gap and repeats nothing.     *)
DateContinuous == [][date' = AddForecast(date, setup.surf)]_date

Earlier(a, b) ==
  \E i \in 1 .. Len(a) : a[i] < b[i] /\ \A k \in 1 .. i - 1 : a[k] = b[k]

(* The names of the output files follow time, so that no file is written   *)
(* twice, also with LOUT_TIMENAME at the end of a day, a month or a year.  *)
NamesIncrease == [][Len(outputs') > Len(outputs) => Earlier(tag, tag')]_outputs
=============================================================================
