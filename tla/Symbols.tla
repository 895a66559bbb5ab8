------------------------------ MODULE Symbols ------------------------------
(***************************************************************************)
(* Names for the addresses of a stack (src/src/symbols.rs, with its caller *)
(* in cpu_profile.rs): the mappings of a process, the version of the file  *)
(* they name and its symbols are read one after the other and cached, the  *)
(* files by a path that means another file in another root, while          *)
(* processes execute and exit and files are replaced.                      *)
(***************************************************************************)
EXTENDS Integers, Sequences, FiniteSets, SequencesExt

CONSTANTS
  ProfiledPids,
  Roots,        \* root directories: the host's, those of containers
  Starts,       \* where an image may be mapped
  UnsizedLimit, \* what a symbol of unknown length may cover, 64 KiB in the code
  MaxHostSteps  \* bound on what happens to files and processes

ASSUME SymbolsAssumption ==
  /\ "none" \notin Roots /\ IsFiniteSet(Roots) /\ Starts \subseteq Int
  /\ UnsizedLimit \in Nat \ {0} /\ MaxHostSteps \in Nat

VARIABLES
  file,      \* per root: the version of the file at the path, 0 none
  versions,  \* files there were; also bounds what happens
  processes, \* per PID
  maps,      \* Symbols.maps
  image,     \* Symbols.images, at the path
  image_version,
  crossed,   \* whether that was read in another root than its version
  checked,   \* whether checked_images has the path
  stack,     \* the stack that is resolved, and whether what it is of changed
  step,      \* in user()
  resolved   \* the frame resolved last

symbolsVars ==
  <<file, versions, processes, maps, image, image_version, crossed, checked, stack, step,
    resolved>>

Gone == [root |-> "none", version |-> 0, start |-> 0]
Unread == -1
NotAvailable == 0
NoName == <<>>
NoStack == [pid |-> 0, address |-> 0, changed |-> FALSE, root |-> "none"]
NothingResolved ==
  [name |-> NoName, address |-> 0, process |-> Gone, deleted |-> FALSE, changed |-> FALSE,
   crossed |-> FALSE]

\* Text is mapped from offset 1 and its symbols' addresses are of a segment that
\* begins there; the last mapped offset is in no segment.
Offset == 1
Mapped == 4
Segment == [offset |-> 1, vaddr |-> 101, length |-> 3]

\* Functions of one version and of the next. Size 0 is unknown.
Table(v) ==
  IF v % 2 = 1
  THEN <<[value |-> 101, size |-> 0], [value |-> 103, size |-> 1]>>
  ELSE <<[value |-> 101, size |-> 1], [value |-> 103, size |-> 0]>>

Addresses(p) == p.start .. (p.start + Mapped)

SymbolsInit ==
  /\ file \in {f \in [Roots -> 1..Cardinality(Roots)] : IsInjective(f)}
  /\ versions = Cardinality(Roots)
  /\ processes \in [ProfiledPids -> {[root |-> r, version |-> file[r], start |-> s] :
                               r \in Roots, s \in Starts}]
  /\ maps = [p \in ProfiledPids |-> <<>>] /\ image = Unread /\ image_version = 0
  /\ crossed = FALSE /\ checked = FALSE /\ stack = NoStack /\ step = "idle" /\ resolved = NothingResolved

-----------------------------------------------------------------------------
(* The host: no two files are of one version *)

symbolCaches == <<maps, image, image_version, crossed, checked, step, resolved>>

HostStep == versions < MaxHostSteps /\ versions' = versions + 1 /\ UNCHANGED symbolCaches

Touch(affected) == stack' = [stack EXCEPT !.changed = @ \/ affected]

IsOfStack(pid) == step # "idle" /\ stack.pid = pid

\* A file is replaced, or removed.
ReplaceFile(root, version) ==
  /\ HostStep
  /\ file' = [file EXCEPT ![root] = version]
  /\ Touch(step # "idle" /\ processes[stack.pid].root = root)
  /\ UNCHANGED processes

Execute(pid, root, start) ==
  /\ HostStep /\ file[root] # 0
  /\ processes' = [processes EXCEPT ![pid] = [root |-> root, version |-> file[root],
                                              start |-> start]]
  /\ Touch(IsOfStack(pid)) /\ UNCHANGED file

ProcessExits(pid) ==
  /\ HostStep /\ processes[pid] # Gone
  /\ processes' = [processes EXCEPT ![pid] = Gone]
  /\ Touch(IsOfStack(pid)) /\ UNCHANGED file

HostMoves ==
  \/ \E r \in Roots : ReplaceFile(r, versions + 1) \/ ReplaceFile(r, 0)
  \/ \E p \in ProfiledPids : ProcessExits(p) \/ \E r \in Roots, s \in Starts : Execute(p, r, s)

-----------------------------------------------------------------------------
(* The resolver *)

host == <<file, versions, processes>>

Deleted(p) == file[p.root] # p.version

\* parse_maps: a deleted file has no mapping that can be resolved.
MappingsOf(p) ==
  IF p = Gone \/ Deleted(p) THEN <<>> ELSE <<[start |-> p.start, end |-> p.start + Mapped]>>

\* Mutant: only the mappings of the process are forgotten.
ForgetMaps(pid) == maps' = [maps EXCEPT ![pid] = <<>>] /\ UNCHANGED checked

\* forget
Forget(pid) == maps' = [maps EXCEPT ![pid] = <<>>] /\ checked' = FALSE

\* A stack of a process that is the one it was captured of.
BeginStack(pid) ==
  /\ step = "idle" /\ processes[pid] # Gone
  /\ Forget(pid)
  /\ \E a \in Addresses(processes[pid]) :
       stack' = [NoStack EXCEPT !.pid = pid, !.address = a]
  /\ step' = "maps"
  /\ UNCHANGED <<host, image, image_version, crossed, resolved>>

\* The next frame of the stack finds what the one before has read.
NextFrame ==
  /\ step = "done"
  /\ \E a \in Addresses(processes[stack.pid]) \ {stack.address} :
       stack' = [stack EXCEPT !.address = a]
  /\ step' = "mapped" /\ resolved' = NothingResolved
  /\ UNCHANGED <<host, maps, image, image_version, crossed, checked>>

EndStack ==
  /\ step = "done" /\ step' = "idle" /\ stack' = NoStack /\ resolved' = NothingResolved
  /\ UNCHANGED <<host, maps, image, image_version, crossed, checked>>

ReadMaps ==
  /\ step = "maps"
  /\ maps' = [maps EXCEPT ![stack.pid] = MappingsOf(processes[stack.pid])]
  /\ step' = "mapped"
  /\ UNCHANGED <<host, image, image_version, crossed, checked, stack, resolved>>

Covering == {m \in ToSet(maps[stack.pid]) : stack.address \in m.start .. (m.end - 1)}

Resolve(name) ==
  /\ resolved' = [name |-> name, address |-> stack.address, process |-> processes[stack.pid],
                  deleted |-> processes[stack.pid] # Gone /\ Deleted(processes[stack.pid]),
                  changed |-> stack.changed, crossed |-> crossed]
  /\ step' = "done"

\* The file as the process would find it.
FileOf(pid) == IF processes[pid] = Gone THEN 0 ELSE file[processes[pid].root]

Unmapped ==
  /\ step = "mapped" /\ Covering = {}
  /\ Resolve(NoName)
  /\ UNCHANGED <<host, maps, image, image_version, crossed, checked, stack>>

\* The file is looked at once per stack; an image that was not available is not
\* kept, nor one of another version.
Stat ==
  /\ step = "mapped" /\ Covering # {} /\ ~checked
  /\ checked' = TRUE
  /\ LET version == FileOf(stack.pid) IN
     IF version = 0
     THEN image' = NotAvailable /\ Resolve(NoName) /\ UNCHANGED <<image_version, stack>>
     ELSE /\ image' = IF image_version # version \/ image = NotAvailable THEN Unread ELSE image
          /\ stack' = [stack EXCEPT !.root = processes[stack.pid].root]
          /\ image_version' = version
          /\ step' = "image" /\ UNCHANGED resolved
  /\ UNCHANGED <<host, maps, crossed>>

Checked ==
  /\ step = "mapped" /\ Covering # {} /\ checked
  /\ step' = "image"
  /\ UNCHANGED <<host, maps, image, image_version, crossed, checked, stack, resolved>>

ReadImage ==
  /\ step = "image" /\ image = Unread
  /\ image' = FileOf(stack.pid)
  /\ crossed' = (image' # NotAvailable /\ processes[stack.pid].root # stack.root)
  /\ UNCHANGED <<host, maps, image_version, checked, stack, step, resolved>>

\* vaddr: 0 for an offset in no segment.
Vaddr(offset) ==
  IF offset \in Segment.offset .. (Segment.offset + Segment.length - 1)
  THEN offset - Segment.offset + Segment.vaddr
  ELSE 0

\* Mutant: a symbol covers what follows up to the next.
SpanToNext(table, i) ==
  IF i < Len(table) THEN table[i + 1].value - table[i].value ELSE UnsizedLimit

Span(table, i) ==
  CASE table[i].size > 0 -> table[i].size
    [] table[i].size = 0 /\ i < Len(table) ->
         LET gap == table[i + 1].value - table[i].value
         IN  IF gap < UnsizedLimit THEN gap ELSE UnsizedLimit
    [] OTHER -> UnsizedLimit

\* lookup, and the filter of user(): the symbol before an address, if it covers
\* it; of one of unknown length the first address only.
Lookup(table, address) ==
  LET before == {i \in DOMAIN table : table[i].value <= address}
      nearest == {i \in before : \A j \in before : j <= i}
  IN  {i \in nearest : /\ address < table[i].value + Span(table, i)
                       /\ table[i].size > 0 \/ table[i].value = address}

Name ==
  /\ step = "image" /\ image # Unread
  /\ LET mapping == CHOOSE m \in Covering : TRUE
         address == Vaddr(stack.address - mapping.start + Offset)
         found == IF image = NotAvailable THEN {} ELSE Lookup(Table(image), address)
     IN  Resolve(IF found = {} THEN NoName
                 ELSE <<image, Table(image)[CHOOSE i \in found : TRUE].value>>)
  /\ UNCHANGED <<host, maps, image, image_version, crossed, checked, stack>>

SymbolsNext ==
  \/ HostMoves
  \/ \E p \in ProfiledPids : BeginStack(p)
  \/ ReadMaps \/ Unmapped \/ Stat \/ Checked \/ ReadImage \/ Name \/ NextFrame \/ EndStack

SymbolsSpec == SymbolsInit /\ [][SymbolsNext]_symbolsVars

-----------------------------------------------------------------------------
\* The functions of a version that cover an address of a process.
Functions(p, address) ==
  LET at == address - p.start + Offset - Segment.offset + Segment.vaddr IN
  {s \in ToSet(Table(p.version)) :
     /\ address < p.start + Segment.length
     /\ IF s.size = 0 THEN at = s.value ELSE at \in s.value .. (s.value + s.size - 1)}

\* A frame has the name of the function its process had at the address, and no
\* name if there is none or the file is gone, whatever was cached of the path
\* for other processes and roots, and of the PID for others that had it; unless
\* the process or the file changed while the stack was resolved. An image that was
\* read after its process had moved to another root is taken for one of the
\* version in the first; what it names is excepted.
NamesAreExact ==
  (resolved # NothingResolved /\ ~resolved.changed /\ ~resolved.crossed) =>
    resolved.name =
      LET functions == IF resolved.deleted THEN {}
                       ELSE Functions(resolved.process, resolved.address)
      IN  IF functions = {} THEN NoName
          ELSE <<resolved.process.version, (CHOOSE s \in functions : TRUE).value>>

=============================================================================
