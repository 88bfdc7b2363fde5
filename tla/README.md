# PANIC: TLA+ models, model checking and proofs

PANIC is a small distributed operating system simulator: a **Kernel** process
schedules programs written in AnSISOP on **CPU** processes, keeps their pages in a
**Memoria** process and their files in a **FileSystem** process, and talks to the
users through **Consola** processes. All of them are C programs over TCP sockets
(`PANICommons`). This directory models the parts whose correctness depends on
order, interleaving and stale data, checks them with TLC and proves some of the
results with TLAPS.

Names of operators, variables and constants are the ones of the C code wherever
TLA+ allows it; every definition that stands for code is listed with its lines in
`PROJECT.json` under `map`.

## 1. Inventory

| Component | State | Operations | Interacts with |
|---|---|---|---|
| Kernel, planificador (`Kernel.c`, `estados.c`, WAIT/SIGNAL of `CapaMemoria.c`) | queues New, Ready, Exec, Blocked, Exit; `lista_programas_actuales`; `lista_cpus_conectadas`; semaphore `grado_multiprog`; `listForFinish`, `listForFinishDesconexion`; AnSISOP semaphores with their queues of PIDs; one mutex for each | `nuevoPrograma`/`programa`, `enviar_a_cpu`, `retornarPCB`, `wait`, `signal`, `end`/`finalizarProceso`, `desconexionConsola`/`finalizarProcesoDesconexion`, `finishProcess`, `desconectarCPU` | CPUs and consoles (two select loops), Memoria; one `programa` thread for each program, one thread for each request to finish |
| CPU, main loop (`CPU.c`, `PrimitivasAnsisop.c` wait/signal) | PCB, quantum, `signalSIGUSR1`, `terminoCPU` | `correrPCB`, `ejecutarPrograma`, `waitAnsisop`, `signalAnsisop`, `signalHandler`, `finishCPU` | Kernel, synchronous requests; Memoria |
| CPU, primitives and stack (`PrimitivasAnsisop.c`) | stack index of the PCB, stack pages | variables, assignment, calls and returns, arguments | Memoria (SOLC_BYTES, ALMC_BYTES), Kernel |
| Memoria (`Memoria.c`) | inverted page table and frames in one block, collision hash, `cache_admin`, `bloqueCache`, two mutexes | `iniciarPrograma`, `asignarPaginas`, `solicitarBytes`, `almacenarBytes`, `liberarPagina`, `finalizarPrograma`, `flush` | Kernel and CPUs, one thread for each connection |
| Kernel, capa de file system (`CapaFS.c`) | `tablaArchivosPorProceso`, `tablaArchivosGlobales`, `ultimoGlobalFD`, `capaFSMutex` | `abrirArchivo`, `cerrarArchivo`, `borrarArchivo`, `moverCursor`, `leerArchivo`, `escribirArchivo`, `cleanFilesOpen`; command `tablaProceso` | CPUs; FileSystem, one request at a time |
| Kernel, heap (`CapaMemoria.c`) | for each program its heap pages with `espacioDisponible`, `maxPaginas`; block metadata inside the pages | `pedirPaginaHeap`, `reservar`, `liberar`, `compressPageHeap`, `cleanMemoriaHeap` | Memoria |
| Kernel, shared variables (`CapaMemoria.c`) | a dictionary of integers | get, set | CPUs |
| Kernel, stop/restart and multiprogramacion (`Kernel.c`, `estados.c`) | `isStopped`, `stopped` semaphore | `stop`, `restart`, `checkStopped`, `changeMultiprogramacion`, `bajarGrado` | every thread that moves a PCB |
| FileSystem (`FileSystem.c`) | bitmap, metadata of each file, blocks | validate, create, delete, read, write | Kernel only, single thread |
| Consola (`Consola.c`) | a thread for each program, `avisoKernel`, two semaphores | start, finish, receive | Kernel |
| Protocol (`panisocket.c`, `serializacion.c`) | sockets, select loops, packages | send, receive, serialise | all |
| inotify, configuration, logs, statistics | delays, texts, counters | read and print | - |

The behaviours that are hard, and that the models are aimed at (the list with
their lines is under `hazards` in `PROJECT.json`):

* every queue of the scheduler is changed by the select loop, by one thread for
  each program and by one thread for each request to finish a program; a PCB is in
  no queue while a thread moves it;
* some functions hold a mutex and take another one, in different orders;
* the Kernel answers WAIT after it has marked the CPU idle;
* Memoria keeps two structures for one cache, under one lock, and the frames under
  another; requests sleep between the two;
* the Kernel's tables of open files keep pointers to entries that another handler
  frees;
* a program may be finished (END, disconnection of its console, an error of its
  own) at any moment of its life.

## 2. Plan

Done in the order of importance for the system; the state is noted at the right.

| Module | Composes / abstracts | State |
|---|---|---|
| `Planificador` | Kernel scheduler composed with the CPU loop | checked, its invariants proved |
| `Planificador_proofs` | proofs about it | type correctness, the one deadly embrace |
| `Planificador_lugares` | proofs about it | one place, one holder, requests, pages and ends of programs, turns to dispatch, semaphores; at its end, the proofs about `Detencion` |
| `Detencion` | the operator's commands composed with `Planificador` | checked, proved in `Planificador_lugares` |
| `EspacioDirecciones` | abstract: what Memoria promises | checked |
| `Memoria` | implements `EspacioDirecciones` | checked, proved in `Memoria_proofs`, with the refinement |
| `CapaFS` | Kernel tables composed with the set of files of FileSystem | checked, proved in `CapaFS_proofs` |
| `AsignadorHeap` | abstract: what alocar and liberar promise a program | checked |
| `Heap` | Kernel's heap composed with the page numbers of Memoria; implements `AsignadorHeap` | checked, proved in `Heap_proofs`, with the refinement |
| `FileSystem` | the disk of the FileSystem process | checked, proved in `FileSystem_proofs` |
| `Contextos` | abstract: frames and values, what the primitives promise a program | checked |
| `Pila` | primitives, loop of the CPU and trips of the PCB; implements `Contextos` | checked, proved in `Pila_proofs`, with the refinement |
| `Consola` | hand-over of messages between the threads of a console | checked, safety proved in `Consola_proofs` |

No module uses a RECURSIVE operator, so each can be proved about. What is left to prove is
liveness, which the prover does not reach (section 12).

## 3. Planificador: the scheduler and the CPUs

*State.* The queues searched by PID (New, Exec, Blocked, Exit) are sets; Ready is
popped from its head and is a sequence. A thread is a pair (`SrvCPU`,
`Programa(p)`, `FinEnd(p)`, `FinDesconexion(p)`) with a program counter `paso`, the
step to go on with when a call returns (`vuelve`), the PCB it has taken out of
every queue (`pcb`) and its locals (`pid`, `sock`). A CPU process is `estado[c]`,
the process it has (`ejecuta`), and the messages on their way from the Kernel
(`deKernel[c]`); a request on its way to the Kernel is the state `RET_PCB`, `WAIT`
or `SIGNAL`, because CPUs wait for the answer before they send again. FINISH_CPU
is sent from a signal handler and may come at any moment (`finishPend`).

*Steps.* One step is one critical section. The three mutexes that are held while
another is asked for (`colaReadyMutex`, `mutexProgramasActuales`,
`mutexCPUConectadas`) are variables holding their owner; all others protect one
operation and are inside the step. The actions are named after the functions:
`cargar_programa`, `moverA_colaNew`, `sem_wait`, `inicializar_programa`,
`moverA_colaReady...`, `enviar_a_cpu`, `retornarPCB`, `wait`, `signal`,
`finalizarProceso...`, `finishProcess` and so on.

*History variables.* `pedidos`: programs a finalizador found alive, so that a
forgotten request can be told. `desfase`: a CORRER_PCB was sent to a CPU that
still waits for RES_WAIT; from then on a program may be run twice, so the
properties about where a program is are stated for behaviours without it, and a
run of its own (`plan_respuesta`) shows how it comes about.

*Properties.* `UnSoloLugar` (a PCB is never lost nor in two places), `TenenciaUnica` (Exec, the list of
CPUs, the messages and the CPUs agree), `BloqueadosDespertables` (a blocked process
is in the queue of one semaphore and the value counts the queue),
`PedidoNoOlvidado` (a request to finish is never lost), `FinCompleto` (a finished
program gave back its place and its pages and told its console once), `MemoriaAcotada` (how far
Memoria may exceed the degree, since the place is given back before the pages),
`DespachosSuficientes` (nobody waits in Ready beside an idle CPU unless a thread is
about to dispatch), `UnicoAbrazoMortal` (the only circular wait),
`TodoProgramaTermina` (liveness).

| Run | Instance | Question |
|---|---|---|
| `plan_semaforos` | 2 programs, 1 semaphore, RR, console may leave, END requests with one program; up to the first overtaken reply (CONSTRAINT) | blocking and waking, disconnection at any moment, circular waits |
| `plan_sigusr1` | `SpecJusta`, 2 programs, 2 CPUs, one may receive SIGUSR1, RR | CPUs leaving while PCBs are dispatched; every program ends |
| `plan_respuesta` | violation | RES_WAIT overtaken by CORRER_PCB (`CapaMemoria.c:99`) |

Two programs are enough for one to wait for the other's place, CPU, semaphore or
mutex; two CPUs for a PCB to be sent to the wrong one. END requests race the rest of
one program in `plan_semaforos` and of two in `plan_detencion` (section 4). Bounds:
`MaxProgramas`, `MaxEnd` (END requests for a program), `MaxConEnd` (programs started
when one is made), `MaxValor` (how far a semaphore is
signalled). Deadlock checking is off: the system stops when every program has
ended, and in the embrace of `UnicoAbrazoMortal`.

*Fairness.* `SpecJusta` gives weak fairness to every thread of the Kernel and to
every CPU process (they are threads of an operating system, none of them waits
for ever on purpose), and strong fairness to the end of a program: one that is
given a CPU again and again comes to its last instruction. `TodoProgramaTermina`
is claimed while some CPU that never receives SIGUSR1 is connected, and is checked
without requests to finish, because with them the embrace may stop everything.

*Proofs.* `TypeCorrect` proves `[]TypeOK` for all values of the constants.
`TypeOK` is not inductive: a step that moves the PCB in a thread's hands needs to
know there is one, so the invariant is `TypeInv == TypeOK /\ CadaUnoLleva`, which
says of every step of a thread what it holds. `OneDeadlyEmbrace` proves
`[]UnicoAbrazoMortal` from `MutexInv == TypeInv /\ Duenos /\ DeFinalizadores /\
SinEmpezar`: the owner of each mutex is at one of the few steps at which it may be
held, and a thread that has not begun owns nothing. From the owners' steps follows
which mutex each owner may wait for, hence which circles can close. The
assumptions are those of `ConstantesAssumption`.

`Planificador_lugares` proves `OnePlace`, `OneHolder`, `NoRequestForgotten`,
`MemoryBounded` and `CompleteEnd` from one invariant, `PlanInv == MutexInv /\ HilosInv /\
(~desfase => Reparto)`. None of the properties is inductive, and they need each other. The
parts of it, in the order in which each rests on those before it:

* `HilosInv`: the step of a thread determines what it has in its hands and for whom;
* `Canales`: the messages a CPU can find, by where it is (`Forma`), and which CPU the
  select loop still owes an answer (`Respuestas`). It is what tells that a CORRER_PCB sent
  to a CPU reaches one that reads it as such, and it is false after `desfase`;
* `Tenencia`: a process of Exec is at one CPU: running there, in a message on its way, or
  in the hands of a thread that is about to send it;
* `Ubicados`: queues and hands are *sites* and a PCB is in one of them; every step is then
  "nothing moves" (`Quietud`), "p goes from y to z" (`Traslado`) or "one is created";
* `Fines`: a program whose exit code was set is in Exit or with whoever takes it there, and
  a request is noted until then; `Paginas`: who has pages, and who was told the end.

`CompleteEnd` also needs that a place taken is given back once: `grado` plus the number of
programs admitted never changes (`PlazasInv`), counted with the finite set theorems.
`Ef_...` lemmas say once what each step changes and all the rest is derived from them.

Two more invariants rest on `PlanInv`. `EnoughDispatches` compares three numbers, the turns to
dispatch, the PCBs in Ready and the idle CPUs (`Turnos`, `Listos`, `Huecos`), each counted
with what a handler of the select loop is going to add before it is done: every step moves
them by the same amount at worst (`Cambian`), or is a look at the list of CPUs or at Ready
that finds it empty. A PCB that is dropped on its way to a CPU would spend a turn; `Ubicados`
shows that none is, which is why the property stops at `desfase`. `BlockedCanBeWoken` keeps
the accounts of the semaphores (`EsperaInv`): a PID is queued once, on one semaphore
(`Unicas`), a queued PID is in Blocked or in Exit, and what a value below zero owes is what
is queued, with the PID of the WAIT that is being handled (`Cuentas`).

## 4. Detencion: the operator's commands

`Detencion` extends `Planificador` with the Kernel's own console. `stop` sets
`isStopped` and `restart` clears it and posts the semaphore `stopped`; every
function of `estados.c` that moves a PCB begins with `checkStopped`, which waits for
that semaphore with `stoppedMutex` held. `multiprogramacion n` starts a thread,
`bajarGrado`, which reads and writes `GradoMultiprog` and then moves the semaphore
`grado` one place at a time; `end` looks the PID up and starts a finalizador.

*Steps.* `Planifica` and `Maneja` are the steps of `Planificador`, each with the gate
in front of it: a thread at a step of `ConPuerta` (or the select loop with a message
of `MuevePCB`) goes on only while the gate is open or with its name in `pases`, the
threads that had passed it when it closed or that left it after a post. `esperan` is
who sleeps in it, `enExec` the thread that does so with `mutexProgramasActuales`
taken (`enviar_a_cpu` calls `moverA_colaExec` under it), and whoever needs that mutex
then waits too, the operator's `end` included: after `stop` and `end` the operator may
be unable to type `restart`. While the gate is open, passing it and the operation
behind it are one step; `stop` may nevertheless find any of the threads in front of it
on the other side. `carrera` is history: two `bajarGrado` threads read and wrote the
degree at the same time (`Kernel.c:216`), after which nothing is claimed of it.

The run `plan_detencion` has two programs, one CPU, one place, no semaphores.
`ColasQuietas`: no queue changes while stopped, except by those in `pases`: a restart
that nobody waited for leaves a post behind, and the next stop lets one thread through
for it. `EsperanRespaldados`: one thread at a time sleeps in the gate, and after restart
its post is there. `GradoConcuerda`: places free, places in use and turns still to be
made add up to the degree asked for. `MemoriaAcotada` under END requests. Bounds:
`MaxStop`, `MaxCambios`, `MaxGrado`, and the CONSTRAINT `Casos`, which keeps apart what
would multiply: stops and changes of the degree are not mixed in one behaviour, nor
either of them with requests to finish unless a single program was started, and a second
change of the degree comes with a single program. In each of those cases everything else
interleaves freely. No liveness is claimed: the operator may leave the planning stopped.

*Proofs* (the last part of `Planificador_lugares`, on whose `PlanInv` they rest). A step of `Detencion` is, for the scheduler, one of its own steps, a turn of
`bajarGrado`, which moves only the degree (`SoloGrado`), or a stutter; so `PlanInv` carries
over, and with it `OnePlaceD` and `MemoryBoundedD` (nothing the operator types loses a PCB).
`BackedWaiters` follows from `Respaldo`: at most one thread sleeps in the gate and after a
restart its post is there. `QuietQueues` is an action property: behind a closed gate only a
thread of `pases` changes a queue. `DegreeAddsUp` adds to the invariant that places free,
programs admitted and turns still to be made (`SumaFaltan`, the count of a finite set of
turns, not a recursive sum) make up `multiprog`, and that while there was no `carrera` the
thread about to write the degree read the one there is (`Leido`). It is stated before
`desfase`, as the places of programs run twice are not told apart.

## 5. EspacioDirecciones and Memoria

`EspacioDirecciones` says what Memoria promises its clients: for each program a
set of pages, zero-filled when assigned, bytes read as last written, errors for
pages that do not exist and for accesses over the end of a page, and lack of
frames as an answer. A request is made, takes effect at one moment and is
answered; the exception is the end of a program or of a page, which may take
effect at once while other requests of the same program cannot be under way.

`Memoria` models the table, the hash with its probing, the frames byte by byte,
the cache as the code has it (`cacheEntradas` for the administrative entries,
`bloqueCache` for the pages) and one thread for each connection. `mutexCache` is
explicit because it is held over the delay in `solicitarBytes` (miss) and
`almacenarBytes`, and released before it in `finalizarPrograma` and
`liberarPagina`; `mutexMemoriaPrincipal` is always the last lock and lies inside
one step. Victims are chosen among the oldest entries: the list's order is not
modelled, so ties of `time(0)` are nondeterministic. Requests of one program are
serialised between the Kernel and the CPU that runs it, and the Kernel's socket by
its `mutexMemoria`, which the guards of `Pedir` state: two requests for one program never
race in this model. `corridas` is history: the
pages cached from the middle of their frame (`Memoria.c:847`).

| Run | Question |
|---|---|
| `mem_cache` | page numbers are unique while frames collide and pages are freed and taken again, both cache structures agree, no program exceeds its quota, flush at any moment |
| `mem_espacio` | `SpecJusta`: cached bytes equal the frame's, `Memoria` implements `EspacioDirecciones`, each request is answered; a page cached from its middle is the one exception |
| `mem_corrida` | violation: a page "encontrada en cache" that is shifted |

Instances have two programs (0 and 1, whose hashes collide on purpose), one or two
cache entries, pages of one or two bytes and values 0 and 1: a cache entry is
contended, a page has a middle, and a stale byte can be told from a fresh one.
Bounds: `MaxPagina`, `MaxReloj`, and the sets `Escrituras` and `Lecturas`.
`mem_espacio` uses strong fairness for each connection's thread, since it waits
for a mutex others take repeatedly (pthread mutexes on Linux hand over in finite
time as threads sleep outside them).

*Proofs.* `MemoriaInv` has a part for each thing the code keeps in step by hand. Of the
threads: `Hilos` (who has `mutexCache`, that a step serves a request of its kind, that no
two serve one program), `Pendientes` (who asks for its first pages has none) and `Fuera`:
between the two critical sections of a request the page it reads, or frees, is not in the
cache. Without it the invariant is not inductive: the second critical section of a read
would cache a page twice, and the one of `liberarPagina` leave a cached page without a
frame. Of the structures: `Repartida` (a page has one frame, only programs that began have
frames, a free frame is blank), `Concuerdan` (both lists of the cache speak of the same
pages), `EnCuota` and `Reflejan` (a cached page has a frame and its bytes, unless it is in
`corridas`). The operators need two arguments of their own: that `Ubicar`, which
places pages one after the other, gives each a free frame however many they are, by a least
counterexample, and that a free administrative entry comes with a free block, by counting
(`HayBloque`).

`FramesImplementPages` is the refinement, step by step: a request maps to a request
(`RefPedir`), the assignment of pages to the abstract one, for which the free frames
are counted (`RefAsignar`), a read takes effect at the cache hit or at the frame
(`RefSolicitarBytes`, `RefSolicitarBytesMarco`), a write at the frame
(`RefAlmacenarBytesMarco`), the end of a program or a page at the frames (`RefBorrar`), and
all other steps, `flush` and every move of the cache included, are stutters. Writes begin
anywhere in their page, so the code is not the page space alone: a write past the first
byte of a page that is not cached leaves it in the cache shifted (`Memoria.c:847`, the run
`mem_corrida`). `ImplementaEspacio` says how far that goes. A write as the page space
describes it, past the first byte of its page, is the only step that adds a page to
`corridas` (`EscribirCorrida`, `CorridasDespues`); a read of such a page, within its
bounds, is the only one whose answer may differ, and only in the bytes it carries
(`LeerCorrida`). The page space itself is never disturbed, and where no write begins past
the first byte of a page `corridas` stays empty and the refinement is exact. Of the constants it assumes what `MemoriaAssumption` says: a
program's pages may be numbered up to `MaxPagina`, offsets of reads and writes are not
negative, and a write begins inside the page (the CPU computes it as a remainder by the
page size and the Kernel writes whole pages).

## 6. CapaFS

The tables of open files as lists in the code's order, because `list_find` answers
the first element and `list_remove` takes the first one away. An entry of
`tablaArchivosGlobales` is named by its `globalFD` and `vivas` says which were not
freed, so that the duplicate pointer of `CapaFS.c:93` is visible. Each handler
holds `capaFSMutex` for its whole work and is one step; the dialogue with
FileSystem is inside, with each answer it may give. A failed call ends its program
(the CPU sets `exit_code`). Reading a freed entry, following NULL and freeing a pointer
nobody set may each be the end of the Kernel: they set `kernel` to "indefinido", "NULL"
and "basura", and nothing is modelled after them.

The last one is in the ordinary error branches. `leerArchivo`, `escribirArchivo` and
`borrarArchivo` answer and then free the path (and the buffer) of a request to FileSystem
that only the branch which makes it has filled in (`CapaFS.c:347`, `485`, `575-576`). For
a descriptor that is not open, a flag that is missing or a file others have open, the
pointer holds what the stack held: the model takes both outcomes, a failed call and
"basura" (`FallaYLibera`). The pointers are local, so that the free comes after
`capaFSMutex` is released changes nothing. An error FileSystem answers comes after the
pointers were set and is clean.

`fs_tablas` checks that counts equal references, a file has one entry and FileSystem
has the file (`TablaConsistente`), a descriptor never reaches another file than its own
(`DescriptorFiel`), the descriptors of a process differ as long as it closes its files
from the last to the first (`DescriptoresDistintos`; the number is computed from how many
are open, so after another order two files may have the same one, `CapaFS.c:83`), only
unshared files are deleted (`BorradoExclusivo`), and the Kernel comes down only in three ways
(`CaidaJustificada`): it follows NULL when a process still has the descriptor of a file it
deleted, as in `leeBorra.ansisop`, which closes a file after deleting it (`CapaFS.c:612`
leaves the process's entry), it reads a freed entry only when a file was opened a second
time, which adds its pointer to the list again (`CapaFS.c:93`), and it frees a pointer
without a value only in a call of a descriptor no file of the program has (or two, if it
closed out of order), of a file it did not open to read or write, or to delete a file that
others have open. A program that opens its own files, uses them as it opened them and
closes them in order brings nothing down, whatever the others did to the counts. The zero
that `strcpy(banderas,"rw")` writes past `banderas[2]` (`CapaFS.c:69-71`) is taken to fall
on nothing in use. `desordenados`,
`compartidas` and `causa` are history: processes that closed out of order, entries opened
twice, the call that ended in "basura". Two
programs, two files (one exists from the beginning), few entries and pointers. Bounds:
`MaxGlobalFD`, `MaxTabla`, `MaxAbiertos`, `Permisos`, `Posiciones`.

The `tablaProceso` command returns with `capaFSMutex` taken when the PID has no files
(`Kernel.c:360`), after which no call on files is served; the model does it too, and no
property denies it.

*Proofs.* `TablasInv` is the inductive invariant: beside the types, each entry that lives is
in the list, its count is the number of descriptors that refer to it, it is the only one of
a file that exists (`EnLaLista`, `Contadas`, `UnaPorArchivo`), a descriptor is its place in
the list as long as the process closes in order (`Correlativos`), an entry somebody refers
to was not freed except by `borrarArchivo` (`Conocidas`), and the global list has no pointer
twice nor a dangling one before a file is opened a second time (`ListaLimpia`). From it
follow four invariants and the first two ways to fall and, for the step of a deletion, `DeletionIsExclusive`. The last
thing a program does, `cleanFilesOpen`, closes its files one after the other: `Soltadas` is a
recursive function of the number of entries already closed, and what it does to the counts
is shown by a least counterexample. The third way to fall is a second invariant,
`CausaInv`, about the call in `causa`: it rests on `TablasInv`, because the branch it fell in
was chosen by counts and descriptors that are right. The only assumption beyond those of the bounds is that
there is some file name (`Archivos # {}`).

## 7. AsignadorHeap and Heap

`AsignadorHeap` is the allocator programs are promised: a block that is reserved
overlaps no block its program holds and lies in one page, a block that is held
stays until it is freed or its program ends, and can always be freed; a call that
fails changes nothing. A free of something the program does not hold is refused,
ignored, or the end of every promise (`kernel = "indefinido"`).

`Heap` has each page as a function from the offsets of its metadata to
`[isFree, size]` (`bloques`), the Kernel's list of pages with `espacioDisponible`
(`paginas`), its count `maxPaginas`, and the pages Memoria has assigned
(`enMemoria`), numbered by Memoria. One thread serves these calls and a program
that waits for the answer is not finished meanwhile, so each handler is one step:
`reservar` (with `tryAllocate` and `pedirPaginaHeap`), `liberar` (with
`compressPageHeap` and `removePaginaHeap`), `finishProcess`. A failed call makes
the program end (`estado = "error"`).

A program may free any pointer, and `liberar` takes the five bytes before it for
metadata without asking whether they are (`CapaMemoria.c:529-565`). Where a block in
use begins they are, and the block is freed (`liberarUsado`). Elsewhere
(`liberarAjeno`) they are what they happen to be: read as free, the answer is an
error; read as in use, the code writes a 1 on the first, clears as many bytes as the
other four say and adds that number to `espacioDisponible`. If that number is 0 and
the 1 falls on no metadata, nothing changes. Otherwise the heap may be corrupted, of
the program or of the Kernel, and nothing is modelled after: `kernel = "indefinido"`.
For example, with pages of 64 bytes: `alocar` 3, 10 and 4 bytes, `liberar` the first
two, `alocar` 1, and `liberar` the second pointer again: the five bytes before it now
straddle the metadata at 6, which reads 268 bytes instead of 12 afterwards, the answer
is `LIBERAR_OK`, and an `alocar` of 25 bytes is given bytes the third block holds.
So the properties below say what happens until a program does that, and that nothing
else (blocks freed in any order, twice where the metadata is still there, requests
that fail) leads there. Which bytes are at such a place is not modelled: all three
outcomes are possible at each. A program that writes outside its blocks is not
modelled either.

The run `heap` has two programs, three frames (each takes one for its code), pages
of 20 bytes and requests of 0, 2, 3, 11 (one more than fits) and -1 bytes: three
empty blocks fit in a page, or two of any of these sizes, freed in every order, so
that the metadata of later blocks falls across that of earlier ones; any pointer is
freed at any moment. One program alone gets two heap pages, both together one each.
`CHECK_DEADLOCK FALSE`: it stops when both have ended or the heap is "indefinido".
`PaginaBienFormada` (the blocks tile the page, no two free neighbours, no
wholly free page, and a page has the room it claims), `NumeracionConcuerda` (the heap
pages of the Kernel exist in Memoria, the Kernel never writes a new page over an old
one, and `alocar` is refused room only when there is no frame or the two numberings
drifted apart), and the
refinement `ImplementaAsignador`, mapping the blocks in use to the blocks held; the
pointer in an answer to `LIBERAR` is history, that of the block in use that began
there. Bound: `MaxPagina`.

What `NumeracionConcuerda` makes precise: the Kernel numbers pages by counting
and Memoria by its greatest page. A program that frees a page in the middle and then
its last one leaves the Kernel one ahead; the next `alocar` that needs a page is
answered that there is no room, and the page Memoria did assign is not used by
anyone until the program ends, although `pedirPaginaHeap` is said to tell "si pudo
o no asignar una nueva pagina" (`CapaMemoria.c:164`). `espacioDisponible`, "el
espacio disponible" (`CapaMemoria.h:25`), drifts below the truth because the
metadata recovered on freeing is never added; it never exceeds it.

`Heap_proofs` proves the types, `PaginaBienFormada`, `NumeracionConcuerda` and
`ImplementaAsignador` for any programs and requests, any size of a page and number of frames.
First one page: what `tryAllocate` (`Partir`), `compressPageHeap` (`Comprimir`) and
`liberar` (`LiberarBloque`) do to a chain of blocks that covers the page, and to its free
bytes, whose number is the cardinality of the set of their offsets. Then one program: `Bien`
relates its pages in Memoria, the contents of its heap pages, the Kernel's list and
`maxPaginas`, and each handler keeps it; `UsadosDe`, the blocks it holds, gains the block
reserved or loses the one freed and nothing else, which is the refinement. The inductive
invariant `IInv` says `Bien` of every program. Over the properties, it has that the pages of
code and stack stay assigned while the program lives, and that before the Kernel numbers its
first heap page Memoria has no other: without it the Kernel's first page could fall on one
that exists; and that the last block of a page is always a free one, so that no pointer to
a block points to the page after its own and a pointer names one block at most. What the
theorems say, they say until the free of a pointer that is no block's makes the heap
"indefinido". It was model-checked on the instance of the run before it was proved. Besides the sizes of pages,
`HeapAssumption` says that the bound on page numbers leaves room for code and stack.

## 8. FileSystem

Everything FileSystem has is on disk: the mapped bitmap, a metadata file for each
path, a file for each block. `contenido[b]` has the bytes written to `<b>.bin`; the
ones it lacks read as `Basura`, the uninitialised buffer of `leerBloque`. The server
has one thread, so a handler is one step, except that the process may fall in any
iteration of the loop of `escribirDatosArchivo`: blocks are marked and written, the
metadata is not saved, and it starts again over the same disk. A write that starts
beyond the end of the file leaves addresses in the array of blocks that were never
written; turning them into text makes it fall in the same way. A fall in the middle of
`config_save`, which would leave half a metadata file, is not modelled: saving it is one
instant.

The run `filesystem` has two files and three blocks of two bytes; requests start at
0, 1, 3 or 4 and have 0 or 3 bytes, so that they begin in the middle of a block, go
through two, need two new ones at once and leave holes. Its VIEW leaves out the
last answer and the contents of blocks no file has, which nothing reads.
`BloquesPropios`: no block is in two places, the map marks what the files have and
what falls lost, and sizes and blocks agree. `EspacioJusto`: a
write is refused only if the blocks do not suffice. `LecturaFiel`, `EscrituraFiel`:
which bytes are read, written and left alone. Bounds: `Offsets`, `Tamanios`. Offsets are
naturals: the Kernel's `moverCursor` stores any cursor a program gives it (`CapaFS.c:373`),
and what FileSystem does with a negative one is outside the model and the theorems.

The properties say exactly how far the code goes. `hayXBloquesLibres` looks at
blocks 1 to n instead of 0 to n-1, and the bit after the last reads as free, so on a
disk with block 0 taken it counts one too many: the last write that fits may be let
through with one block too few, which becomes the block "-1" that the files of a full disk share
(`FileSystem.c:305`, `:349`). `escribirBloque` opens with "wb", so writing part of a
block loses the rest of it, as `editarFS.ansisop` does when it writes back 10 bytes.

*Proofs.* Here the property checked is the invariant: `DiscoInv` adds to the parts of
`BloquesPropios` (`SinCompartir`, `MapaFiel`, `MedidaFiel`) only that every block has its
bytes (`DiscoEntero`). The work is in the operators: `obtenerBloqueVacio(mapa, i)` is
the i-th free block (`Encontrado`: i - 1 free blocks are before it), so a write that needs
several gets different ones (`EncontradosDistintos`); in which turn of the loop of
`escribirDatosArchivo` a byte is written, and from where (`Turno`, `Vuelta`); and which
blocks the file has after k turns (`Hasta`), since the process may fall after any of them.
`SpaceIsCounted`, `ReadsAreFaithful` and `WritesAreFaithful` prove the action properties for
any number of blocks, any block size and all requests.

## 9. Contextos and Pila: the primitives of the CPU

`Contextos` is what a program may rely on: a machine whose variables have values and no
addresses. Every function has a frame, a call comes back to the line behind it, and the
program goes on until the end of main or its first error, whose code it stops with. Any
definition may be one too many for the stack.

`Pila` is the code: a PCB with `pc`, `fin_stack` and `indice_stack`, the bytes of the
stack pages in Memoria, `error_en_ejecucion` and `proceso_bloqueado`. A line is the
sequence of primitives the parser calls for it, and a step: nobody else touches the PCB
meanwhile. Each primitive is an operator from a machine to the one it leaves. The quantum
may be over after any line (`retornarPCB`), the PCB goes to the Kernel and back through
`deserializar_pcb`, which reads most of its numbers as one char: beyond `Limite` lines,
arguments or variables it cannot be read, and is not followed any further
(`donde = "ilegible"`). With SIGUSR1 pending the PCB goes back as it came, which changes
nothing here. The system calls are sets of the codes they may stop a program with; what
they change is in the other modules.

`ImplementaContextos`, by the mapping `Marco` from addresses to values, says all of that
together: quanta do not show, frames do not disturb each other, the first error counts.
`desviado` is history and says when nothing is promised: an argument whose number is the
number of arguments is read behind the array (`PrimitivasAnsisop.c:114`); `return` in a
function called for its value takes the frame away and goes on with the next line
(`PrimitivasAnsisop.c:401`; in main it overwrites the first bytes of the code, because the
entry of main comes from `calloc`); and after the end of main the loop goes on with the
lines behind it, if main is not the last function. `PosicionesPropias`: positions of
living entries are different and inside the stack. `fin_stack` never goes back, so a
program that calls often enough overflows the stack although its frames are gone; the
abstract machine allows it.

The run `pila` has every program of four lines over eleven sentences, and six longer ones:
two functions before main with variables of the same name, all system calls, more lines
than a char holds, variables defined over and over, a missing argument. The stack has six
pages of two variables; `Limite` is 11 instead of 128. `CHECK_DEADLOCK FALSE`: programs end.

*Proofs.* Both properties are proved for every program, size of stack and page and width of
a char (`Pila_proofs`). `PosicionesPropias` is not inductive: nothing in
it keeps `fin_stack` itself in the stack and on a multiple of four, nor the numbers of lines
small enough for the trips of the PCB. `PilaInv` adds what a line relies on when it starts: `fin_stack` is a place of the
stack or its end (`Limita`), every return goes to a line the program has (`Retornos`), there
is an error exactly when there is a code to stop with, and, until something nothing is
promised about, a call for a value waits for it at an address of the stack (`Destinos`) and
nobody wrote above `fin_stack` (`EnBlanco`), which is why a new variable is 0, as the
abstract machine says, although the place was never cleared. Because `fin_stack` never goes
back, a new place is above all others, those of frames that are gone included; that is all
`Propias` needs. The primitives are operators, so each has a lemma that says what it leaves
(`DefinirVariable`, `LineaConstante`, ...), and a line is one of a few outcomes (`Guardo`,
`NoEsta`, `Invoco`, ...). `CpuImplementsFrames` then takes each outcome to the frames: equal
positions are equal addresses (`UnaDireccionCadaUna`), so a write changes one value of one
frame (`MarcosGuardado`), a call adds a frame and changes no other (`MarcosConArgumento`,
`MarcosLlamada`), and an end takes away the last (`MarcosSinUltima`). The trips of the PCB
are stutters because a PCB that can be read has numbers that fit a char.

`PilaAssumption` says what the theorems rest on: sizes are positive and a page holds whole
variables (`PaginaTam % 4 = 0`; Memoria's page size is configured), names of variables and
of arguments differ, and the parser gives lines with names and with labels of the program
or -1 (`Escritas`; only variables are defined by a line, arguments by a call).

## 10. Consola

One thread, `esperarKernel`, receives the Kernel's messages into `avisoKernel`, wakes the
thread of the program with its semaphore of the dictionary and waits for `avisoProcesado`
before it frees the message; the thread of a program looks at it, and at the last one takes
its entry out of the dictionaries first. NEW_PID creates entry and thread, with the
semaphore at 1. A message whose program has no entry is dropped: other threads of the Kernel
may send one behind END_PRGM ("Proceso inicializado" is sent after the program went to Ready,
`Kernel.c:716`). END_PRGM before NEW_PID cannot happen: a program that is in New is only
noted for finishing (`Kernel.c:105-130`). The user types `end` and `shutdown` meanwhile,
the latter with `mutexSemaforosPID` held over all its messages.

The run `consola` has two programs. `EntregaFiel`: whoever looks at `avisoKernel` finds the
next message of its own program, neither freed nor replaced, one thread has the turn at a
time, and a thread that still waits has its semaphore. `TodosSeEnteran`: every message is
seen unless its program had ended, and the last one ends the thread. *Fairness*
(`Justicia`): weak, for `esperarKernel`, for each thread (both only wait for each other) and
for a command once typed, since it holds a mutex; nothing obliges the Kernel or the user to
send anything. Bounds: `MaxMensajes`, `MaxTarde`, `MaxEnd`. `CHECK_DEADLOCK FALSE`: everybody
waits when the programs have ended, and `exit` ends the process.

*Proofs.* `FaithfulDelivery` says for every number of programs and messages what the run says
for two: the two semaphores are enough. The invariant `IInv` needs to know that the
messages on their way are numbered, increasing and complete from the next one on
(`Numerados`, `Crecientes`, `Completos`), what is in `avisoKernel` at each step of
`esperarKernel` (`AvisoTomado`), and that a thread with an entry in the dictionary
has not left (`HiloYEntrada`).

## 11. What is not modelled

Byte streams (partial sends and receives), texts and logs, delays as numbers, the
parser library (only the primitives it calls for each line), statistics and listings,
which only read. PIDs of more than seven bits, which `deserializar_pcb` truncates too. A CPU or Memoria that
dies: the code has no handling for it beyond ending the process. What programs
write in their heap blocks, or over their limits, and what the heap is after a free
that corrupts it (section 7). Falls of FileSystem between the two disk writes of `crearArchivo` (the file exists and its
block is still free) and of `borrarArchivo` (the reverse): they do break
`BloquesPropios`, in a way the code has no answer to. Shared variables: each call is
one access to a dictionary by the only thread that serves the CPUs.

## 12. What is proved and what is only checked

`theorems` in `PROJECT.json` lists the results with the property each one states; every
module `..._proofs` and `Planificador_lugares` is checked by `tlapm` to the last leaf, and
rests on nothing but the named assumptions of its component about its constants:
`ConstantesAssumption`, `DetencionAssumption`, `MemoriaAssumption`, `CapaFSAssumption`,
`HeapAssumption`, `FileSystemAssumption`, `PilaAssumption`, `ConsolaAssumption`. The bounds of a run (`MaxEnd`, `MaxReloj`...)
are constants in the theorems too, of any size.

Only model-checked:

* liveness under fairness (`TodoProgramaTermina`, `SeResponde`, `TodosSeEnteran`): the
  proofs of it need ENABLED, which the prover does not handle;
* that a page cached from its middle does read otherwise than its frame (`mem_corrida`): the
  theorem only says that nothing else can.

Facts about recursive functions (`Soltadas`, `Ubicar`) are not proved by an
induction theorem, which the provers cannot instantiate, but by the least number at which
they would fail.

## 13. Running

`tlc -config X.cfg MCModule.tla` for each row of `runs` in `PROJECT.json`;
`tlapm X.tla` for each module of proofs: about ten minutes for `Planificador_proofs` and for
`Planificador_lugares`, two to four for each of the others.
