-------------------------- MODULE ProvisionProofs --------------------------
(***************************************************************************)
(* Proofs about what is downloaded and installed.  Download: a resumed     *)
(* download is exact, for every set of releases, every asset size and      *)
(* every number of faults.  PluginInstall (Plugin): what a plugin's        *)
(* installer takes for installed is whole, for every device and engine,    *)
(* and every number of releases, attempts, faults and changes of the pin.  *)
(* ArtifactStore (Store): the engine's directory is one whole archive,     *)
(* for any processes, devices, published variants and bounds.              *)
(***************************************************************************)
EXTENDS MCProvision, SequenceTheorems, TLAPS

\* While a response is streamed the server's position is the end of the file,
\* and the attempt is one of the allowed ones.
StreamInStep == pc = "stream" => sent = Len(partial) /\ attempt <= MaxRetries

\* What a step relies on.
IInv == TypeOK /\ ResumeExact /\ StreamInStep

\* download starts with no partial file.
LEMMA InitIInv == Init => IInv
BY SizeAssumption, FaultsAssumption
   DEF Init, IInv, TypeOK, ResumeExact, StreamInStep, MaxRetries, Byte

\* Appending the byte at the server's position keeps the file exact.
LEMMA ChunkIInv == IInv /\ WriteChunk => IInv'
<1> SUFFICES ASSUME IInv, WriteChunk PROVE IInv'
  OBVIOUS
<1> USE DEF IInv, TypeOK, StreamInStep, WriteChunk
<1>1. sent + 1 \in Nat \ {0} /\ <<rel, sent + 1>> \in Byte
  BY DEF Byte
<1>2. partial' \in Seq(Byte) /\ Len(partial') = Len(partial) + 1
  BY <1>1
<1>3. TypeOK'
  BY <1>2
<1>4. ResumeExact'
  <2> SUFFICES ASSUME NEW i \in 1..Len(partial') PROVE partial'[i][2] = i
    BY DEF ResumeExact
  <2>1. CASE i \in 1..Len(partial)
    BY <2>1, <1>1 DEF ResumeExact
  <2>2. CASE i = Len(partial) + 1
    BY <2>2, <1>1
  <2> QED
    BY <2>1, <2>2, <1>2
<1>5. StreamInStep'
  BY <1>2
<1> QED
  BY <1>3, <1>4, <1>5

\* Every step of the updater, of the server and of the environment.
LEMMA NextIInv == IInv /\ [Next]_vars => IInv'
<1> SUFFICES ASSUME IInv, [Next]_vars PROVE IInv'
  OBVIOUS
<1> USE DEF IInv, TypeOK, ResumeExact, StreamInStep, MaxRetries
<1>e. <<>> \in Seq(Byte) /\ Len(<<>>) = 0
  OBVIOUS
<1>n. Len(partial) \in Nat
  OBVIOUS
<1>1. ASSUME NEW r \in Releases, PublishRelease(r) PROVE IInv'
  BY <1>1 DEF PublishRelease
<1>2. CASE StartDownload
  BY <1>2 DEF StartDownload
<1>3. CASE OpenPartial
  BY <1>3, <1>e, <1>n DEF OpenPartial, Resuming, Existing
<1>4. CASE AttemptFails
  BY <1>4, FaultsAssumption DEF AttemptFails, Fault, Resuming, Existing
<1>5. CASE WriteChunk
  BY <1>5, ChunkIInv
<1>6. CASE StreamEnds
  BY <1>6, FaultsAssumption DEF StreamEnds, Fault
<1>7. CASE GiveUp
  BY <1>7 DEF GiveUp
<1>8. CASE ReplaceDest
  BY <1>8, <1>e DEF ReplaceDest
<1>9. CASE Verify
  BY <1>9 DEF Verify
<1>10. CASE Install
  <2>1. CASE dest' = <<>> /\ partial' = <<>> /\ UNCHANGED faults
    BY <1>10, <2>1, <1>e DEF Install
  <2>2. CASE Fault /\ UNCHANGED <<dest, partial>>
    BY <1>10, <2>2, FaultsAssumption DEF Install, Fault
  <2> QED
    BY <1>10, <2>1, <2>2 DEF Install
<1>11. CASE Killed
  BY <1>11, FaultsAssumption DEF Killed, Fault
<1>12. CASE UNCHANGED vars
  BY <1>12 DEF vars
<1> QED
  BY <1>1, <1>2, <1>3, <1>4, <1>5, <1>6, <1>7, <1>8, <1>9, <1>10, <1>11, <1>12
     DEF Next, Updater

\* The invariant holds in every state.
THEOREM DownloadInvariance == Spec => []IInv
<1>1. QED
  BY InitIInv, NextIInv, PTL DEF Spec

\* Whatever mix of resumed, restarted and killed downloads of whatever
\* releases download goes through, byte i of the partial is byte i of a
\* release.
THEOREM ResumeIsExact == Spec => []ResumeExact
<1>1. IInv => ResumeExact
  BY DEF IInv
<1>2. QED
  BY <1>1, DownloadInvariance, PTL

\* The state stays well typed: no call makes more than MaxRetries attempts.
THEOREM DownloadTypeSafe == Spec => []TypeOK
<1>1. IInv => TypeOK
  BY DEF IInv
<1>2. QED
  BY <1>1, DownloadInvariance, PTL

-----------------------------------------------------------------------------
(* The plugin installers, when no checkout moves a pin back.               *)
Forward ==
    /\ ~Downgrades
    /\ MaxTag \in Nat \ {0} /\ PluginAttempts \in Nat \ {0} /\ MaxPins \in Nat
    /\ PluginFaults \in Nat

Prebuilt == [tag |-> i_pin, build |-> Plugin!PrebuiltUrl]
FromSource == [tag |-> i_pin, build |-> "source"]
Fetching == {"download", "wipe", "extract"}

\* The tag file names the pin only while nothing is under way, and then the
\* engine is whole: an installer that began finds another tag there until it
\* stamps its own.
Stamped ==
    /\ i_tagfile.tag <= i_pin
    /\ i_tagfile.tag = i_pin =>
        /\ i_pc = "idle" /\ Plugin!Whole(i_pin)
        /\ i_engine = "whisper" /\ i_device.os # "Windows" => i_tagfile.build = "source"

\* What is on disk at each step of a run.
Progress ==
    /\ i_pc \in Fetching => Plugin!PrebuiltUrl \in Plugin!Archives
    /\ i_pc \in Fetching /\ i_engine = "swap" => i_todo \subseteq {"server"}
    /\ i_pc = "wipe" => i_todo = {"server", "lib"}
    /\ i_pc = "extract" /\ "server" \notin i_todo => i_server = Prebuilt
    /\ i_pc = "extract" /\ "lib" \notin i_todo /\ i_engine # "swap" => i_lib = Prebuilt
    /\ i_pc = "clone" => i_src = Plugin!None
    /\ i_pc = "build" => i_src = [tag |-> i_pin, build |-> "whole"]
    /\ i_pc = "copy" => i_built = FromSource
    /\ i_pc = "stamp" => i_server = FromSource
    /\ i_force => i_engine = "whisper" /\ i_device.os # "Windows"

\* How a run ended, and what it left then.
Outcome ==
    /\ i_result = "exit" => ~i_clean
    /\ i_result = "ok" => i_pc = "idle" /\ i_tagfile.tag = i_pin

InstallInv == Plugin!TypeOK /\ Stamped /\ Progress /\ Outcome

(* An installer downloads an archive or builds; only on Windows does the   *)
(* transcriber have an archive, and only on ARM there does llama-swap not. *)
LEMMA LlamaNames == ASSUME NEW d PROVE Plugin!LlamaBuild(d) \in Plugin!Archives \cup {"source"}
  BY Zenon DEF Plugin!LlamaBuild, Plugin!Archives

LEMMA WhisperNames == ASSUME NEW d
                      PROVE  /\ Plugin!WhisperBuild(d) \in Plugin!Archives \cup {"source"}
                             /\ Plugin!WhisperBuild(d) # "source" => d.os = "Windows"
  BY Zenon DEF Plugin!WhisperBuild, Plugin!Archives

LEMMA ArchiveNames ==
    /\ Plugin!PrebuiltUrl \in Plugin!Archives \cup {"source", "unavailable"}
    /\ Plugin!PrebuiltUrl = "unavailable" => i_engine \notin {"llama", "whisper"}
    /\ Plugin!PrebuiltUrl = "source" => i_engine # "swap"
    /\ i_engine = "whisper" /\ Plugin!PrebuiltUrl # "source" => i_device.os = "Windows"
  <1>1. CASE i_engine = "llama"
    <2>1. Plugin!PrebuiltUrl = Plugin!LlamaBuild(i_device) BY Zenon, <1>1 DEF Plugin!PrebuiltUrl
    <2> QED BY <1>1, <2>1, LlamaNames DEF Plugin!Archives
  <1>2. CASE i_engine = "whisper"
    <2>1. Plugin!PrebuiltUrl = Plugin!WhisperBuild(i_device) BY Zenon, <1>2 DEF Plugin!PrebuiltUrl
    <2> QED BY <1>2, <2>1, WhisperNames DEF Plugin!Archives
  <1>3. CASE i_engine \notin {"llama", "whisper"}
    <2>1. Plugin!PrebuiltUrl = Plugin!SwapBuild(i_device) BY Zenon, <1>3 DEF Plugin!PrebuiltUrl
    <2> QED BY <1>3, <2>1 DEF Plugin!SwapBuild, Plugin!Archives
  <1> QED BY <1>1, <1>2, <1>3

(* What is written to disk, and that it is there.                          *)
LEMMA FileTypes == ASSUME Forward
                   PROVE  /\ Plugin!None \in Plugin!File /\ Plugin!Torn \in Plugin!File
                          /\ \A t \in Plugin!Tag, b \in Plugin!Origin \cup {"torn"} :
                                /\ [tag |-> t, build |-> b] \in Plugin!File
                                /\ [tag |-> t, build |-> b] # Plugin!None
  BY DEF Forward, Plugin!None, Plugin!Torn, Plugin!File, Plugin!Tag

LEMMA ArchiveKept == UNCHANGED <<i_engine, i_device>> => Plugin!PrebuiltUrl' = Plugin!PrebuiltUrl
  <1> SUFFICES ASSUME UNCHANGED <<i_engine, i_device>>
               PROVE  Plugin!PrebuiltUrl' = Plugin!PrebuiltUrl
    OBVIOUS
  <1>1. CASE i_engine = "llama"
    <2>1. Plugin!PrebuiltUrl = Plugin!LlamaBuild(i_device) BY Zenon, <1>1 DEF Plugin!PrebuiltUrl
    <2>2. Plugin!PrebuiltUrl' = Plugin!LlamaBuild(i_device') BY Zenon, <1>1 DEF Plugin!PrebuiltUrl
    <2> QED BY <2>1, <2>2
  <1>2. CASE i_engine = "whisper"
    <2>1. Plugin!PrebuiltUrl = Plugin!WhisperBuild(i_device) BY Zenon, <1>2 DEF Plugin!PrebuiltUrl
    <2>2. Plugin!PrebuiltUrl' = Plugin!WhisperBuild(i_device') BY Zenon, <1>2 DEF Plugin!PrebuiltUrl
    <2> QED BY <2>1, <2>2
  <1>3. CASE i_engine \notin {"llama", "whisper"}
    <2>1. Plugin!PrebuiltUrl = Plugin!SwapBuild(i_device) BY Zenon, <1>3 DEF Plugin!PrebuiltUrl
    <2>2. Plugin!PrebuiltUrl' = Plugin!SwapBuild(i_device') BY Zenon, <1>3 DEF Plugin!PrebuiltUrl
    <2> QED BY <2>1, <2>2
  <1> QED BY <1>1, <1>2, <1>3

(* The types, the flags apart.                                             *)
Typed ==
    /\ i_engine \in Engines /\ i_device \in PluginDevices /\ i_pin \in Plugin!Tag /\ i_pins \in 0 .. MaxPins
    /\ {i_tagfile, i_server, i_lib, i_src, i_built} \subseteq Plugin!File
    /\ i_pc \in {"idle", "download", "wipe", "extract", "checkout", "clone", "build", "copy", "stamp"}
    /\ i_todo \subseteq {"server", "lib"} /\ (i_todo # {} => i_pc \in {"wipe", "extract"})
    /\ i_attempt \in 1 .. PluginAttempts
    /\ (i_pc \in {"build", "copy", "stamp"} => i_src # Plugin!None)
    /\ (i_pc \in {"copy", "stamp"} => i_built # Plugin!None)
    /\ i_result \in {"none", "ok", "off", "exit"} /\ i_faults \in 0 .. PluginFaults

LEMMA InitInstallInv == ASSUME Forward, Plugin!Init PROVE InstallInv
  <1> USE ArchiveNames
      DEF Forward, Plugin!Init, Plugin!None, Plugin!Torn, Plugin!File, Plugin!Tag, Plugin!Origin
  <1>1. {i_tagfile, i_server, i_lib, i_src, i_built} \subseteq Plugin!File BY DEF Plugin!Archives
  <1>2. i_force = FALSE /\ i_clean = TRUE OBVIOUS
  <1>3. Typed BY <1>1 DEF Typed
  <1>4. Plugin!TypeOK BY <1>2, <1>3 DEF Plugin!TypeOK, Typed
  <1>5. Stamped BY DEF Stamped, Plugin!Whole, Plugin!Archives
  <1>6. Progress BY DEF Progress, Fetching
  <1>7. Outcome BY DEF Outcome
  <1> QED BY <1>4, <1>5, <1>6, <1>7 DEF InstallInv

(* An installer runs on only where the tag file names another release.     *)
LEMMA RunsWhenStale == ASSUME Forward, InstallInv, Plugin!Run PROVE i_tagfile.tag # i_pin
  <1> SUFFICES ASSUME i_tagfile.tag = i_pin PROVE FALSE
    OBVIOUS
  <1>1. i_server # Plugin!None
    BY DEF InstallInv, Stamped, Plugin!Whole, Plugin!None
  <1>2. CASE i_engine = "whisper"
    BY <1>1, <1>2
       DEF InstallInv, Stamped, Plugin!Run, Plugin!InstallWhisper, Plugin!WhisperInstalled
  <1>3. CASE i_engine # "whisper"
    <2>1. Plugin!AlreadyInstalled
      BY Zenon, <1>1, <1>3 DEF Plugin!AlreadyInstalled, Plugin!LlamaInstalled, Plugin!SwapInstalled
    <2> QED BY <1>3, <2>1 DEF Plugin!Run
  <1> QED BY <1>2, <1>3

LEMMA NextTyped == ASSUME Forward, InstallInv, [Plugin!Next]_Plugin!vars PROVE Typed'
  <1> USE FileTypes, ArchiveNames
         DEF Forward, InstallInv, Plugin!Origin, Plugin!setup, Plugin!disk, Typed, Plugin!TypeOK
  <1>1. CASE Plugin!NewPin
    BY <1>1 DEF Plugin!NewPin, Plugin!Tag
  <1>2. CASE Plugin!Run
    BY <1>2 DEF Plugin!Run, Plugin!InstallLlama, Plugin!InstallSwap, Plugin!InstallWhisper
  <1>3. CASE Plugin!Downloaded
    BY <1>3 DEF Plugin!Downloaded, Plugin!Members
  <1>4. CASE Plugin!DownloadDrops
    BY <1>4 DEF Plugin!DownloadDrops
  <1>5. CASE Plugin!LlamaWipe
    BY <1>5 DEF Plugin!LlamaWipe
  <1>6. CASE Plugin!ExtractServer
    BY <1>6 DEF Plugin!ExtractServer, Progress, Fetching
  <1>7. CASE Plugin!ExtractSwap
    BY <1>7 DEF Plugin!ExtractSwap, Progress, Fetching
  <1>8. CASE Plugin!ExtractLibs
    BY <1>8 DEF Plugin!ExtractLibs, Progress, Fetching
  <1>9. CASE Plugin!StampPrebuilt
    BY <1>9 DEF Plugin!StampPrebuilt, Plugin!Ends
  <1>10. CASE Plugin!PrebuiltFails
    BY <1>10 DEF Plugin!PrebuiltFails
  <1>11. CASE Plugin!LlamaCheckout
    BY <1>11 DEF Plugin!LlamaCheckout
  <1>12. CASE Plugin!WhisperCheckout
    BY <1>12 DEF Plugin!WhisperCheckout
  <1>13. CASE Plugin!Clone
    BY <1>13 DEF Plugin!Clone
  <1>14. CASE Plugin!Build
    BY <1>14 DEF Plugin!Build, Plugin!Ends, Progress, Fetching
  <1>15. CASE Plugin!Copy
    BY <1>15 DEF Plugin!Copy
  <1>16. CASE Plugin!StampSource
    BY <1>16 DEF Plugin!StampSource, Plugin!Ends
  <1>17. CASE Plugin!SourceFails
    BY <1>17 DEF Plugin!SourceFails, Plugin!Ends
  <1>18. CASE Plugin!Killed
    BY <1>18 DEF Plugin!Killed, Plugin!Ends
  <1>19. CASE UNCHANGED Plugin!vars BY <1>19 DEF Plugin!vars
  <1> QED BY <1>1, <1>2, <1>3, <1>4, <1>5, <1>6, <1>7, <1>8, <1>9, <1>10,
             <1>11, <1>12, <1>13, <1>14, <1>15, <1>16, <1>17, <1>18, <1>19
          DEF Plugin!Next

LEMMA NextFlags == ASSUME InstallInv, [Plugin!Next]_Plugin!vars
                   PROVE  i_force' \in BOOLEAN /\ i_clean' \in BOOLEAN
  <1>1. i_force \in BOOLEAN /\ i_clean \in BOOLEAN BY DEF InstallInv, Plugin!TypeOK
  <1> QED BY Zenon, <1>1
         DEF Plugin!Next, Plugin!vars, Plugin!NewPin, Plugin!Run, Plugin!Downloaded,
             Plugin!DownloadDrops, Plugin!LlamaWipe, Plugin!ExtractServer, Plugin!ExtractSwap,
             Plugin!ExtractLibs, Plugin!StampPrebuilt, Plugin!PrebuiltFails, Plugin!LlamaCheckout,
             Plugin!WhisperCheckout, Plugin!Clone, Plugin!Build, Plugin!Copy, Plugin!StampSource,
             Plugin!SourceFails, Plugin!Killed, Plugin!InstallLlama, Plugin!InstallSwap,
             Plugin!InstallWhisper

LEMMA NextStamped == ASSUME Forward, InstallInv, [Plugin!Next]_Plugin!vars PROVE Stamped'
  <1> USE ArchiveNames, ArchiveKept
         DEF Forward, InstallInv, Plugin!setup, Plugin!disk, Stamped, Progress, Plugin!TypeOK,
             Plugin!Whole, Prebuilt, FromSource, Fetching, Plugin!Archives, Plugin!None, Plugin!Torn,
             Plugin!File, Plugin!Tag, Plugin!Origin
  <1>1. CASE Plugin!NewPin
    BY <1>1 DEF Plugin!NewPin
  <1>2. CASE Plugin!Run
    BY <1>2, RunsWhenStale
       DEF Plugin!Run, Plugin!InstallLlama, Plugin!InstallSwap, Plugin!InstallWhisper
  <1>3. CASE Plugin!Downloaded
    BY <1>3 DEF Plugin!Downloaded, Plugin!Members
  <1>4. CASE Plugin!DownloadDrops
    BY <1>4 DEF Plugin!DownloadDrops
  <1>5. CASE Plugin!LlamaWipe
    BY <1>5 DEF Plugin!LlamaWipe
  <1>6. CASE Plugin!ExtractServer
    BY <1>6 DEF Plugin!ExtractServer
  <1>7. CASE Plugin!ExtractSwap
    BY <1>7 DEF Plugin!ExtractSwap
  <1>8. CASE Plugin!ExtractLibs
    BY <1>8 DEF Plugin!ExtractLibs
  <1>9. CASE Plugin!StampPrebuilt
    BY <1>9 DEF Plugin!StampPrebuilt, Plugin!Ends
  <1>10. CASE Plugin!PrebuiltFails
    BY <1>10 DEF Plugin!PrebuiltFails
  <1>11. CASE Plugin!LlamaCheckout
    BY <1>11 DEF Plugin!LlamaCheckout
  <1>12. CASE Plugin!WhisperCheckout
    BY <1>12 DEF Plugin!WhisperCheckout
  <1>13. CASE Plugin!Clone
    BY <1>13 DEF Plugin!Clone
  <1>14. CASE Plugin!Build
    BY <1>14 DEF Plugin!Build, Plugin!Ends
  <1>15. CASE Plugin!Copy
    BY <1>15 DEF Plugin!Copy
  <1>16. CASE Plugin!StampSource
    BY <1>16 DEF Plugin!StampSource, Plugin!Ends
  <1>17. CASE Plugin!SourceFails
    BY <1>17 DEF Plugin!SourceFails, Plugin!Ends
  <1>18. CASE Plugin!Killed
    BY <1>18 DEF Plugin!Killed, Plugin!Ends
  <1>19. CASE UNCHANGED Plugin!vars BY <1>19 DEF Plugin!vars
  <1> QED BY <1>1, <1>2, <1>3, <1>4, <1>5, <1>6, <1>7, <1>8, <1>9, <1>10,
             <1>11, <1>12, <1>13, <1>14, <1>15, <1>16, <1>17, <1>18, <1>19
          DEF Plugin!Next

LEMMA NextProgress == ASSUME Forward, InstallInv, [Plugin!Next]_Plugin!vars PROVE Progress'
  <1> USE ArchiveNames, ArchiveKept
         DEF Forward, InstallInv, Plugin!setup, Plugin!disk, Progress, Stamped, Plugin!TypeOK,
             Prebuilt, FromSource, Fetching, Plugin!Whole, Plugin!None, Plugin!Torn, Plugin!File,
             Plugin!Tag, Plugin!Origin
  <1>1. CASE Plugin!NewPin
    BY <1>1 DEF Plugin!NewPin
  <1>2. CASE Plugin!Run
    <2>1. i_force' => i_engine' = "whisper" /\ i_device'.os # "Windows"
      BY <1>2, Zenon DEF Plugin!Run, Plugin!InstallLlama, Plugin!InstallSwap, Plugin!InstallWhisper
    <2>2. i_pc' \in {"idle", "download", "checkout"} /\ i_todo' = {}
      BY <1>2 DEF Plugin!Run, Plugin!InstallLlama, Plugin!InstallSwap, Plugin!InstallWhisper
    <2>3. i_pc' = "download" => /\ Plugin!PrebuiltUrl # "source" \/ i_engine = "swap"
                                /\ Plugin!PrebuiltUrl # "unavailable" \/ i_engine # "swap"
      BY <1>2, Zenon DEF Plugin!Run, Plugin!InstallLlama, Plugin!InstallSwap, Plugin!InstallWhisper
    <2>4. i_engine \in {"llama", "whisper", "swap"} /\ UNCHANGED <<i_engine, i_device>>
      BY <1>2 DEF Plugin!Run, Plugin!InstallLlama, Plugin!InstallSwap, Plugin!InstallWhisper
    <2>5. i_pc' = "download" => Plugin!PrebuiltUrl' \in Plugin!Archives
      BY <2>3, <2>4
    <2> QED BY <2>1, <2>2, <2>5
  <1>3. CASE Plugin!Downloaded
    BY <1>3 DEF Plugin!Downloaded, Plugin!Members
  <1>4. CASE Plugin!DownloadDrops
    BY <1>4 DEF Plugin!DownloadDrops
  <1>5. CASE Plugin!LlamaWipe
    BY <1>5 DEF Plugin!LlamaWipe
  <1>6. CASE Plugin!ExtractServer
    BY <1>6 DEF Plugin!ExtractServer
  <1>7. CASE Plugin!ExtractSwap
    BY <1>7 DEF Plugin!ExtractSwap
  <1>8. CASE Plugin!ExtractLibs
    BY <1>8 DEF Plugin!ExtractLibs
  <1>9. CASE Plugin!StampPrebuilt
    BY <1>9 DEF Plugin!StampPrebuilt, Plugin!Ends
  <1>10. CASE Plugin!PrebuiltFails
    BY <1>10 DEF Plugin!PrebuiltFails
  <1>11. CASE Plugin!LlamaCheckout
    BY <1>11 DEF Plugin!LlamaCheckout
  <1>12. CASE Plugin!WhisperCheckout
    BY <1>12 DEF Plugin!WhisperCheckout
  <1>13. CASE Plugin!Clone
    BY <1>13 DEF Plugin!Clone
  <1>14. CASE Plugin!Build
    BY <1>14 DEF Plugin!Build, Plugin!Ends
  <1>15. CASE Plugin!Copy
    BY <1>15 DEF Plugin!Copy
  <1>16. CASE Plugin!StampSource
    BY <1>16 DEF Plugin!StampSource, Plugin!Ends
  <1>17. CASE Plugin!SourceFails
    BY <1>17 DEF Plugin!SourceFails, Plugin!Ends
  <1>18. CASE Plugin!Killed
    BY <1>18 DEF Plugin!Killed, Plugin!Ends
  <1>19. CASE UNCHANGED Plugin!vars BY <1>19 DEF Plugin!vars
  <1> QED BY <1>1, <1>2, <1>3, <1>4, <1>5, <1>6, <1>7, <1>8, <1>9, <1>10,
             <1>11, <1>12, <1>13, <1>14, <1>15, <1>16, <1>17, <1>18, <1>19
          DEF Plugin!Next

LEMMA NextOutcome == ASSUME Forward, InstallInv, [Plugin!Next]_Plugin!vars PROVE Outcome'
  <1> USE ArchiveNames, ArchiveKept
         DEF Forward, InstallInv, Plugin!setup, Plugin!disk, Outcome, Stamped, Plugin!TypeOK,
             Progress
  <1>1. CASE Plugin!NewPin
    BY <1>1 DEF Plugin!NewPin
  <1>2. CASE Plugin!Run
    BY <1>2 DEF Plugin!Run, Plugin!InstallLlama, Plugin!InstallSwap, Plugin!InstallWhisper
  <1>3. CASE Plugin!Downloaded
    BY <1>3 DEF Plugin!Downloaded, Plugin!Members
  <1>4. CASE Plugin!DownloadDrops
    BY <1>4 DEF Plugin!DownloadDrops
  <1>5. CASE Plugin!LlamaWipe
    BY <1>5 DEF Plugin!LlamaWipe
  <1>6. CASE Plugin!ExtractServer
    BY <1>6 DEF Plugin!ExtractServer
  <1>7. CASE Plugin!ExtractSwap
    BY <1>7 DEF Plugin!ExtractSwap
  <1>8. CASE Plugin!ExtractLibs
    BY <1>8 DEF Plugin!ExtractLibs
  <1>9. CASE Plugin!StampPrebuilt
    BY <1>9 DEF Plugin!StampPrebuilt, Plugin!Ends
  <1>10. CASE Plugin!PrebuiltFails
    BY <1>10 DEF Plugin!PrebuiltFails
  <1>11. CASE Plugin!LlamaCheckout
    BY <1>11 DEF Plugin!LlamaCheckout
  <1>12. CASE Plugin!WhisperCheckout
    BY <1>12 DEF Plugin!WhisperCheckout
  <1>13. CASE Plugin!Clone
    BY <1>13 DEF Plugin!Clone
  <1>14. CASE Plugin!Build
    BY <1>14 DEF Plugin!Build, Plugin!Ends
  <1>15. CASE Plugin!Copy
    BY <1>15 DEF Plugin!Copy
  <1>16. CASE Plugin!StampSource
    BY <1>16 DEF Plugin!StampSource, Plugin!Ends
  <1>17. CASE Plugin!SourceFails
    BY <1>17 DEF Plugin!SourceFails, Plugin!Ends
  <1>18. CASE Plugin!Killed
    BY <1>18 DEF Plugin!Killed, Plugin!Ends
  <1>19. CASE UNCHANGED Plugin!vars BY <1>19 DEF Plugin!vars
  <1> QED BY <1>1, <1>2, <1>3, <1>4, <1>5, <1>6, <1>7, <1>8, <1>9, <1>10,
             <1>11, <1>12, <1>13, <1>14, <1>15, <1>16, <1>17, <1>18, <1>19
          DEF Plugin!Next

LEMMA NextInstallInv == ASSUME Forward, InstallInv, [Plugin!Next]_Plugin!vars PROVE InstallInv'
  BY NextTyped, NextFlags, NextStamped, NextProgress, NextOutcome
     DEF InstallInv, Typed, Plugin!TypeOK

(* _is_already_installed and the two installers: whatever failed or was    *)
(* killed before, an engine that the test accepts starts and is the pinned *)
(* release, and a run in which no step failed installs that release.  Only *)
(* a checkout that moves a pin back is left out: the tag file of a run     *)
(* that was killed may then name the pin again.                            *)
THEOREM InstalledSafe == ASSUME Forward PROVE Plugin!Spec => []InstalledIsWhole
  <1>1. InstallInv => InstalledIsWhole
    <2> SUFFICES ASSUME InstallInv PROVE InstalledIsWhole
      OBVIOUS
    <2> USE DEF InstallInv, InstalledIsWhole
    <2>1. Plugin!InstalledIsWhole
      BY DEF Plugin!InstalledIsWhole, Stamped, Plugin!AlreadyInstalled, Plugin!LlamaInstalled,
             Plugin!SwapInstalled, Plugin!WhisperInstalled
    <2>2. Plugin!CleanRunInstalls
      BY DEF Plugin!CleanRunInstalls, Stamped, Outcome, Progress, Plugin!TypeOK, Plugin!Tag,
             Plugin!Whole, Plugin!None, Plugin!AlreadyInstalled, Plugin!LlamaInstalled,
             Plugin!SwapInstalled, Plugin!WhisperInstalled
    <2> QED BY <2>1, <2>2
  <1>2. Plugin!Init => InstallInv BY InitInstallInv
  <1>3. InstallInv /\ [Plugin!Next]_Plugin!vars => InstallInv' BY NextInstallInv
  <1> QED BY <1>1, <1>2, <1>3, PTL DEF Plugin!Spec

---------------------------------------------------------------------------
(* The artifact store.                                                     *)
StoreConstants == /\ NoOne \notin Proc /\ StoreFaults \in Nat
             /\ MaxVersion \in Nat \ {0} /\ StoreAttempts \in Nat \ {0}

(* Every step a process can be at, and the manifest's shape.               *)
Outside == {"idle", "check", "lock", "ok", "serving", "missing", "raise"}
Asking == Store!Working \cup {"check", "lock", "ok"}
Manifest == [default : Store!Version, variants : [Store!Version -> Published]]

(* The types, with those that only the proof needs: a call that is on its  *)
(* way has resolved a hash.                                                *)
Types == /\ Store!TypeOK /\ a_pc \in [Proc -> Store!Working \cup Outside]
         /\ a_published \in Manifest
         /\ \A p \in Proc : a_pc[p] \in Asking => a_want[p] \in Store!Sha

---------------------------------------------------------------------------
(* accel_suffixes has at most three candidates, all of them variants.      *)
LEMMA Suffixes ==
    ASSUME NEW d
    PROVE  LET s == Store!AccelSuffixes(d) IN Len(s) \in 1 .. 3
           /\ \A i \in 1 .. Len(s) : s[i] \in Store!Accel
  <1> DEFINE c == IF d.os = "windows" /\ d.cuda # 0
                  THEN <<IF d.cuda >= 13 THEN "-cuda-13.3" ELSE "-cuda-12.4">> ELSE <<>>
             g == IF d.gpu /\ (d.os = "windows" \/ (d.os = "linux" /\ ~d.arm)) THEN <<"-vulkan">> ELSE <<>>
  <1>0. /\ <<>> \in Seq(Store!Accel) /\ Len(<<>>) = 0
        /\ \A x \in Store!Accel : <<x>> \in Seq(Store!Accel) /\ Len(<<x>>) = 1
    OBVIOUS
  <1>1. c \in Seq(Store!Accel) /\ Len(c) \in 0 .. 1
    <2> DEFINE x == IF d.cuda >= 13 THEN "-cuda-13.3" ELSE "-cuda-12.4"
    <2>1. x \in Store!Accel BY DEF Store!Accel
    <2>2. c = <<x>> \/ c = <<>> OBVIOUS
    <2> HIDE DEF x, c
    <2>3. <<x>> \in Seq(Store!Accel) /\ Len(<<x>>) = 1 BY <1>0, <2>1
    <2>4. CASE c = <<x>> BY <2>3, <2>4
    <2>5. CASE c = <<>> BY <1>0, <2>5
    <2> QED BY <2>2, <2>4, <2>5
  <1>2. g \in Seq(Store!Accel) /\ Len(g) \in 0 .. 1
    <2>1. "-vulkan" \in Store!Accel BY DEF Store!Accel
    <2>2. g = <<"-vulkan">> \/ g = <<>> OBVIOUS
    <2> HIDE DEF g
    <2>3. <<"-vulkan">> \in Seq(Store!Accel) /\ Len(<<"-vulkan">>) = 1 BY <1>0, <2>1
    <2>4. CASE g = <<"-vulkan">> BY <2>3, <2>4
    <2>5. CASE g = <<>> BY <1>0, <2>5
    <2> QED BY <2>2, <2>4, <2>5
  <1>3. Store!AccelSuffixes(d) = (c \o g) \o <<"">> BY DEF Store!AccelSuffixes
  <1> HIDE DEF c, g
  <1>4. <<"">> \in Seq(Store!Accel) /\ Len(<<"">>) = 1 BY DEF Store!Accel
  <1>5. c \o g \in Seq(Store!Accel) /\ Len(c \o g) \in 0 .. 2 BY <1>1, <1>2, ConcatProperties
  <1> DEFINE h == c \o g
  <1> HIDE DEF h
  <1>6. h \in Seq(Store!Accel) /\ Len(h) \in 0 .. 2 /\ Store!AccelSuffixes(d) = h \o <<"">>
    BY <1>3, <1>5 DEF h
  <1> DEFINE e == <<"">>
  <1> HIDE DEF e
  <1>7. Store!AccelSuffixes(d) \in Seq(Store!Accel) /\ Len(Store!AccelSuffixes(d)) \in 1 .. 3
    <2>1. e \in Seq(Store!Accel) /\ Len(e) = 1 /\ Store!AccelSuffixes(d) = h \o e
      BY <1>4, <1>6 DEF e
    <2>2. h \o e \in Seq(Store!Accel) /\ Len(h \o e) = Len(h) + Len(e)
      BY <1>6, <2>1, ConcatProperties
    <2>3. Store!AccelSuffixes(d) \in Seq(Store!Accel) /\ Len(Store!AccelSuffixes(d)) = Len(h) + 1
      BY <2>1, <2>2, Zenon
    <2>4. Len(h) \in 0 .. 2 BY <1>6
    <2>5. \A n \in 0 .. 2 : n + 1 \in 1 .. 3 OBVIOUS
    <2>6. Len(Store!AccelSuffixes(d)) \in 1 .. 3 BY <2>3, <2>4, <2>5, Zenon
    <2> QED BY <2>3, <2>6, Zenon
  <1> QED BY <1>7

(* Manifest.variant is a variant of the default version.                   *)
LEMMA VariantType ==
    ASSUME a_published \in Manifest, Store!VariantFound PROVE Store!Variant \in Store!Sha
  <1> DEFINE s == Store!AccelSuffixes(a_device)
             i == CHOOSE i \in Store!Candidates : \A j \in Store!Candidates : i <= j
  <1>1. Len(s) \in 1 .. 3 /\ \A k \in 1 .. Len(s) : s[k] \in Store!Accel BY Suffixes
  <1>2. Store!Candidates \subseteq 1 .. Len(s) /\ Store!Candidates # {}
    BY DEF Store!Candidates, Store!VariantFound
  <1> HIDE DEF s
  <1>3. \E k \in Store!Candidates : \A j \in Store!Candidates : k <= j
    <2>1. Store!Candidates \subseteq {1, 2, 3} BY <1>1, <1>2
    <2>2. CASE 1 \in Store!Candidates BY <2>1, <2>2
    <2>3. CASE 1 \notin Store!Candidates /\ 2 \in Store!Candidates BY <2>1, <2>3
    <2>4. CASE Store!Candidates = {3} BY <2>4
    <2> QED BY <1>2, <2>1, <2>2, <2>3, <2>4
  <1>4. i \in Store!Candidates BY <1>3
  <1>5. s[i] \in Store!Accel BY <1>1, <1>2, <1>4
  <1>6. Store!Variant = <<a_published.default, s[i]>> BY DEF Store!Variant, s
  <1>7. a_published.default \in Store!Version BY DEF Manifest
  <1> HIDE DEF i
  <1>8. \A a \in Store!Version, b \in Store!Accel : <<a, b>> \in Store!Sha BY DEF Store!Sha
  <1> HIDE DEF Store!Variant
  <1> QED BY <1>5, <1>6, <1>7, <1>8

(* The two hashes that are none.                                           *)
LEMMA ShaTypes ==
    Store!NoSha \notin Store!Sha /\ Store!Other \notin Store!Sha /\ Store!NoDir \in Store!Dir
    /\ Store!EmptyDir \in Store!Dir
  <1>1. Store!NoSha \notin Store!Sha /\ Store!Other \notin Store!Sha
    BY DEF Store!NoSha, Store!Other, Store!Sha, Store!Version
  <1>2. Store!NoDir \in Store!Dir BY DEF Store!NoDir, Store!Dir
  <1>3. Store!EmptyDir \in Store!Dir BY DEF Store!EmptyDir, Store!NoDir, Store!Dir
  <1> QED BY <1>1, <1>2, <1>3

---------------------------------------------------------------------------
(* The lock, the calls and the counters; the directories and the store.    *)
Control ==
    /\ a_lock \in Proc \cup {NoOne}
    /\ a_lock # NoOne => a_pc[a_lock] \in Store!Working
    /\ ~LockFails => \A p \in Proc : a_pc[p] \in Store!Working => a_lock = p
    /\ a_pc \in [Proc -> Store!Working \cup Outside]
    /\ a_want \in [Proc -> Store!Sha \cup {Store!NoSha}]
    /\ a_attempt \in [Proc -> 1 .. StoreAttempts] /\ a_faults \in 0 .. StoreFaults
    /\ \A p \in Proc : a_pc[p] \in Asking => a_want[p] \in Store!Sha
Data ==
    /\ a_device \in StoreDevices /\ a_published \in Manifest
    /\ a_dest \in Store!Dir /\ a_staging \in Store!Dir /\ a_old \in Store!Dir
    /\ a_archive \in Store!Sha \cup {Store!Other, Store!NoSha}
    /\ a_partial \in Store!Sha \cup {Store!Other, Store!NoSha}

LEMMA Split == Types <=> Control /\ Data
  <1>1. {a_dest, a_staging, a_old} \subseteq Store!Dir <=>
            a_dest \in Store!Dir /\ a_staging \in Store!Dir /\ a_old \in Store!Dir
    OBVIOUS
  <1>2. {a_archive, a_partial} \subseteq Store!Sha \cup {Store!Other, Store!NoSha} <=>
          a_archive \in Store!Sha \cup {Store!Other, Store!NoSha}
          /\ a_partial \in Store!Sha \cup {Store!Other, Store!NoSha}
    OBVIOUS
  <1> QED BY <1>1, <1>2 DEF Types, Store!TypeOK, Control, Data

LEMMA SplitNext == Control' /\ Data' => Types'
  <1>1. Data' => {a_dest', a_staging', a_old'} \subseteq Store!Dir BY DEF Data
  <1>2. Data' => {a_archive', a_partial'} \subseteq Store!Sha \cup {Store!Other, Store!NoSha}
    BY DEF Data
  <1> QED BY <1>1, <1>2 DEF Types, Store!TypeOK, Control, Data

LEMMA InitTypes == StoreConstants /\ Store!Init => Types
  <1> SUFFICES ASSUME StoreConstants, Store!Init PROVE Control /\ Data BY Split
  <1>1. Control
    BY ShaTypes DEF StoreConstants, Store!Init, Control, Store!Working, Outside, Asking
  <1>2. a_published \in Manifest BY DEF StoreConstants, Store!Init, Manifest, Store!Version
  <1>3. Data BY <1>2, ShaTypes DEF Store!Init, Data
  <1> QED BY <1>1, <1>3

(* What an action of process p does to where it is and to the lock.        *)
LEMMA OutsideControl ==
    ASSUME StoreConstants, Types, NEW p \in Proc,
           \/ Store!EnsureEngine(p) \/ Store!ManifestFails(p) \/ Store!FirstCheck(p)
           \/ Store!Lock(p) \/ Store!Unlocked(p)
           \/ Store!BinaryPath(p) \/ Store!AskAgain(p) \/ Store!Killed(p)
    PROVE  Control'
  <1> USE Split, ShaTypes DEF StoreConstants, Control, Store!Working, Outside, Asking
  <1>1. CASE Store!EnsureEngine(p)
    <2>1. Store!Variant \in Store!Sha BY <1>1, VariantType DEF Store!EnsureEngine, Data
    <2> QED BY <1>1, <2>1 DEF Store!EnsureEngine, Store!At
  <1>2. CASE Store!ManifestFails(p)
    <2>1. a_faults' \in 0 .. StoreFaults BY <1>2 DEF Store!ManifestFails
    <2> QED BY <1>2, <2>1 DEF Store!ManifestFails, Store!At
  <1>3. CASE Store!FirstCheck(p) BY <1>3 DEF Store!FirstCheck
  <1>4. CASE Store!Lock(p) BY <1>4 DEF Store!Lock
  <1>5. CASE Store!Unlocked(p) BY <1>5 DEF Store!Unlocked
  <1>6. CASE Store!BinaryPath(p) BY <1>6 DEF Store!BinaryPath
  <1>7. CASE Store!AskAgain(p) BY <1>7 DEF Store!AskAgain
  <1>8. CASE Store!Killed(p)
    <2>1. a_faults' \in 0 .. StoreFaults BY <1>8 DEF Store!Killed
    <2> QED BY <1>8, <2>1 DEF Store!Killed, Store!Released
  <1> QED BY <1>1, <1>2, <1>3, <1>4, <1>5, <1>6, <1>7, <1>8

LEMMA WorkControl ==
    ASSUME StoreConstants, Types, NEW p \in Proc,
           \/ Store!FetchVariant(p) \/ Store!OpenPartial(p) \/ Store!Downloaded(p)
           \/ Store!SidecarGone(p) \/ Store!DownloadDrops(p)
           \/ Store!Verify(p) \/ Store!FreshStaging(p) \/ Store!Extract(p) \/ Store!Mark(p)
           \/ Store!SwapOut(p) \/ Store!SwapIn(p) \/ Store!CleanUp(p)
    PROVE  Control'
  <1> USE Split DEF StoreConstants, Control, Store!Working, Outside, Asking
  <1>1. CASE Store!FetchVariant(p) BY <1>1 DEF Store!FetchVariant
  <1>2. CASE Store!OpenPartial(p) BY <1>2 DEF Store!OpenPartial, Store!At
  <1>3. CASE Store!Downloaded(p)
    <2>1. a_faults' \in 0 .. StoreFaults BY <1>3 DEF Store!Downloaded
    <2> QED BY <1>3, <2>1 DEF Store!Downloaded, Store!At
  <1>4. CASE Store!SidecarGone(p) BY <1>4 DEF Store!SidecarGone, Store!At, Store!Released
  <1>5. CASE Store!DownloadDrops(p)
    <2>1. a_attempt' \in [Proc -> 1 .. StoreAttempts] BY <1>5 DEF Store!DownloadDrops
    <2> QED BY <1>5, <2>1 DEF Store!DownloadDrops, Store!Released
  <1>6. CASE Store!Verify(p) BY <1>6 DEF Store!Verify, Store!Released
  <1>7. CASE Store!FreshStaging(p) BY <1>7 DEF Store!FreshStaging, Store!At
  <1>8. CASE Store!Extract(p) BY <1>8 DEF Store!Extract, Store!Released
  <1>9. CASE Store!Mark(p) BY <1>9 DEF Store!Mark, Store!Released
  <1>10. CASE Store!SwapOut(p) BY <1>10 DEF Store!SwapOut, Store!At
  <1>11. CASE Store!SwapIn(p) BY <1>11 DEF Store!SwapIn, Store!Released
  <1>12. CASE Store!CleanUp(p) BY <1>12 DEF Store!CleanUp, Store!At, Store!Released
  <1> QED BY <1>1, <1>2, <1>3, <1>4, <1>5, <1>6, <1>7, <1>8, <1>9, <1>10, <1>11, <1>12

Act(p) == Store!EnsureEngine(p) \/ Store!ManifestFails(p) \/ Store!Unlocked(p)
          \/ Store!DownloadDrops(p) \/ Store!AskAgain(p) \/ Store!Killed(p) \/ Store!Step(p)

\* What extracting, and writing the marker, makes of a directory.
LEMMA DirSteps ==
    ASSUME NEW d \in Store!Dir
    PROVE  /\ \A a \in Store!Sha \cup {Store!Other} :
                 /\ [d EXCEPT !.there = TRUE, !.files = @ \cup {a}, !.whole = TRUE] \in Store!Dir
                 /\ [d EXCEPT !.files = @ \cup {a}] \in Store!Dir
           /\ \A m \in Store!Sha : [d EXCEPT !.marker = m] \in Store!Dir
  BY DEF Store!Dir

LEMMA StepData == ASSUME StoreConstants, Types, NEW p \in Proc, Act(p) PROVE Data'
  <1> USE Split, ShaTypes DEF Data
  <1>0. Control BY Split
  <1>1. Store!store' = Store!store
    BY DEF Act, Store!Step, Store!EnsureEngine, Store!ManifestFails, Store!FirstCheck, Store!Lock,
           Store!Unlocked, Store!FetchVariant, Store!OpenPartial, Store!Downloaded,
           Store!SidecarGone, Store!DownloadDrops, Store!Verify, Store!FreshStaging, Store!Extract,
           Store!Mark, Store!SwapOut, Store!SwapIn, Store!CleanUp, Store!BinaryPath, Store!AskAgain,
           Store!Killed
  <1>2. a_device' \in StoreDevices /\ a_published' \in Manifest BY <1>1 DEF Store!store
  <1>3. CASE /\ Store!dirs' = Store!dirs
             /\ a_archive' \in {a_archive, a_want[p], Store!Other, Store!NoSha}
             /\ a_partial' \in {a_partial, Store!Other, Store!NoSha}
    <2>1. a_want[p] \in Store!Sha \cup {Store!NoSha} BY <1>0 DEF Control
    <2> QED BY <1>2, <1>3, <2>1 DEF Store!dirs
  <1>4. CASE Store!FreshStaging(p) BY <1>2, <1>4 DEF Store!FreshStaging
  <1>5. CASE Store!Extract(p)
    <2>1. a_staging' \in Store!Dir
      <3>1. CASE a_archive = Store!NoSha BY <1>5, <3>1 DEF Store!Extract
      <3>2. CASE a_archive # Store!NoSha
        <4> DEFINE d == [a_staging EXCEPT !.there = TRUE, !.files = @ \cup {a_archive}, !.whole = TRUE]
        <4>1. a_archive \in Store!Sha \cup {Store!Other} /\ a_staging \in Store!Dir BY <3>2
        <4>2. d \in Store!Dir BY <4>1, DirSteps
        <4>3. a_staging' = d BY <1>5, <3>2 DEF Store!Extract
        <4> QED BY <4>2, <4>3
      <3> QED BY <3>1, <3>2
    <2> QED BY <1>2, <1>5, <2>1 DEF Store!Extract
  <1>6. CASE Store!Mark(p)
    <2>1. a_want[p] \in Store!Sha BY <1>0, <1>6 DEF Store!Mark, Control, Asking, Store!Working
    <2>2. a_staging' \in Store!Dir BY <1>6, <2>1, DirSteps DEF Store!Mark
    <2> QED BY <1>2, <1>6, <2>2 DEF Store!Mark
  <1>7. CASE Store!SwapOut(p) BY <1>2, <1>7 DEF Store!SwapOut
  <1>8. CASE Store!SwapIn(p) BY <1>2, <1>8 DEF Store!SwapIn, Store!dirs
  <1>9. CASE Store!Killed(p)
    <2>1. a_staging' \in Store!Dir BY <1>9, DirSteps DEF Store!Killed
    <2> QED BY <1>2, <1>9, <2>1 DEF Store!Killed
  <1>10. CASE Store!EnsureEngine(p) \/ Store!ManifestFails(p) \/ Store!FirstCheck(p)
              \/ Store!Lock(p) \/ Store!Unlocked(p) \/ Store!FetchVariant(p)
              \/ Store!OpenPartial(p) \/ Store!Downloaded(p) \/ Store!SidecarGone(p)
              \/ Store!DownloadDrops(p)
              \/ Store!Verify(p) \/ Store!CleanUp(p) \/ Store!BinaryPath(p) \/ Store!AskAgain(p)
    BY <1>3, <1>10 DEF Store!EnsureEngine, Store!ManifestFails, Store!FirstCheck, Store!Lock,
                       Store!Unlocked, Store!FetchVariant, Store!OpenPartial, Store!Downloaded,
                       Store!SidecarGone, Store!DownloadDrops, Store!Verify, Store!CleanUp,
                       Store!BinaryPath, Store!AskAgain
  <1> QED BY <1>4, <1>5, <1>6, <1>7, <1>8, <1>9, <1>10 DEF Act, Store!Step

LEMMA NextTypes == StoreConstants /\ Types /\ [Store!Next]_Store!vars => Types'
  <1> SUFFICES ASSUME StoreConstants, Types, [Store!Next]_Store!vars PROVE Types'
    OBVIOUS
  <1>1. ASSUME NEW p \in Proc, Act(p) PROVE Types'
    <2>1. Control' BY <1>1, OutsideControl, WorkControl DEF Act, Store!Step
    <2> QED BY <1>1, <2>1, StepData, SplitNext
  <1>2. CASE Store!Publish
    <2>1. Control' BY <1>2, Split DEF Store!Publish, Control
    <2>2. a_published' \in Manifest
      BY <1>2, Split DEF Store!Publish, Data, Manifest, Store!Version, StoreConstants
    <2>3. Data' BY <1>2, <2>2, Split DEF Store!Publish, Data, Store!dirs
    <2> QED BY <2>1, <2>3, SplitNext
  <1>3. CASE UNCHANGED Store!vars BY <1>3 DEF Store!vars, Types, Store!TypeOK, Manifest
  <1> QED BY <1>1, <1>2, <1>3 DEF Store!Next, Act

(* The variables have their types; the file lock is with the process that  *)
(* works on the directories, and where it is granted that process works    *)
(* alone.                                                                  *)
THEOREM StoreTypeCorrect == ASSUME StoreConstants PROVE Store!Spec => []Store!TypeOK
  <1>1. Types => Store!TypeOK BY DEF Types
  <1>2. Store!Init => Types BY InitTypes
  <1>3. Types /\ [Store!Next]_Store!vars => Types' BY NextTypes
  <1> QED BY <1>1, <1>2, <1>3, PTL DEF Store!Spec

---------------------------------------------------------------------------
(* What an installer knows of the directories at each step, as long as no  *)
(* other one works on them.                                                *)
WorkFits(p) ==
    /\ a_pc[p] \in {"fetched", "extract"} => a_archive = a_want[p]
    /\ a_pc[p] = "extract" => a_staging = Store!EmptyDir
    /\ a_pc[p] \in {"mark", "out", "in"} =>
         a_staging.there /\ a_staging.whole /\ a_staging.files = {a_want[p]}
    /\ a_pc[p] \in {"out", "in"} => a_staging.marker = a_want[p]
    /\ a_pc[p] = "in" => a_dest = Store!NoDir /\ a_old.marker # a_want[p]
    /\ a_pc[p] \in Store!Working \ {"in", "clean"} => ~Store!Installed(p)
Intact == Types /\ Store!EngineIntact /\ \A p \in Proc : WorkFits(p)
Granted == StoreConstants /\ ~LockFails /\ ~DeletionFails

(* An action is one process's: the others stay where they are.             *)
LEMMA OthersStay ==
    ASSUME Types, NEW p \in Proc, NEW q \in Proc, q # p, Act(p)
    PROVE  a_pc'[q] = a_pc[q] /\ a_want'[q] = a_want[q]
  <1> USE Split DEF Control
  <1>1. a_want'[q] = a_want[q]
    BY DEF Act, Store!Step, Store!EnsureEngine, Store!ManifestFails, Store!FirstCheck, Store!Lock,
           Store!Unlocked, Store!FetchVariant, Store!OpenPartial, Store!Downloaded,
           Store!SidecarGone, Store!DownloadDrops, Store!Verify, Store!FreshStaging, Store!Extract,
           Store!Mark, Store!SwapOut, Store!SwapIn, Store!CleanUp, Store!BinaryPath, Store!AskAgain,
           Store!Killed
  <1>2. \E x : a_pc' = [a_pc EXCEPT ![p] = x]
    BY DEF Act, Store!Step, Store!EnsureEngine, Store!ManifestFails, Store!FirstCheck, Store!Lock,
           Store!Unlocked, Store!FetchVariant, Store!OpenPartial, Store!Downloaded,
           Store!SidecarGone, Store!DownloadDrops, Store!Verify, Store!FreshStaging, Store!Extract,
           Store!Mark, Store!SwapOut, Store!SwapIn, Store!CleanUp, Store!BinaryPath, Store!AskAgain,
           Store!Killed, Store!At
  <1> QED BY <1>1, <1>2

(* While one process works, nobody else touches what it works on.          *)
LEMMA WorksAlone ==
    ASSUME Granted, Types, NEW p \in Proc, NEW q \in Proc, q # p, a_pc[q] \in Store!Working, Act(p)
    PROVE  a_dest' = a_dest /\ a_staging' = a_staging /\ a_old' = a_old /\ a_archive' = a_archive
  <1>1. a_lock = q /\ a_pc[p] \notin Store!Working /\ a_lock # NoOne
    BY Split DEF Granted, StoreConstants, Control
  <1>2. CASE Store!EnsureEngine(p) \/ Store!ManifestFails(p) \/ Store!FirstCheck(p)
             \/ Store!BinaryPath(p) \/ Store!AskAgain(p)
    BY <1>2 DEF Store!EnsureEngine, Store!ManifestFails, Store!FirstCheck, Store!BinaryPath,
                Store!AskAgain, Store!dirs
  <1>3. CASE Store!Killed(p) BY <1>1, <1>3 DEF Store!Killed, Store!Working
  <1>4. ~Store!Lock(p) /\ ~Store!Unlocked(p) BY <1>1 DEF Store!Lock, Store!Unlocked, Granted
  <1>5. ~(\/ Store!FetchVariant(p) \/ Store!OpenPartial(p) \/ Store!Downloaded(p)
          \/ Store!SidecarGone(p) \/ Store!DownloadDrops(p) \/ Store!Verify(p))
    BY <1>1 DEF Store!FetchVariant, Store!OpenPartial, Store!Downloaded, Store!SidecarGone,
                Store!DownloadDrops, Store!Verify, Store!At, Store!Working
  <1>6. ~(\/ Store!FreshStaging(p) \/ Store!Extract(p) \/ Store!Mark(p)
          \/ Store!SwapOut(p) \/ Store!SwapIn(p) \/ Store!CleanUp(p))
    BY <1>1 DEF Store!FreshStaging, Store!Extract, Store!Mark, Store!SwapOut, Store!SwapIn,
                Store!CleanUp, Store!At, Store!Working
  <1> QED BY <1>2, <1>3, <1>4, <1>5, <1>6 DEF Act, Store!Step

\* The installer's own steps.
LEMMA OwnWork ==
    ASSUME Granted, Intact, NEW p \in Proc, Act(p)
    PROVE  WorkFits(p)' /\ Store!EngineIntact'
  <1> USE Split, ShaTypes DEF Intact, Control, Store!Working, Outside, Asking
  <1>0. a_pc \in [Proc -> Store!Working \cup Outside]
        /\ a_want \in [Proc -> Store!Sha \cup {Store!NoSha}]
    OBVIOUS
  <1>1. CASE \/ Store!EnsureEngine(p) \/ Store!ManifestFails(p) \/ Store!FirstCheck(p)
             \/ Store!BinaryPath(p) \/ Store!AskAgain(p)
    <2>1. a_dest' = a_dest
      BY <1>1 DEF Store!EnsureEngine, Store!ManifestFails, Store!FirstCheck, Store!BinaryPath,
                  Store!AskAgain, Store!dirs
    <2>2. a_pc'[p] \in Outside
      BY <1>1 DEF Store!EnsureEngine, Store!ManifestFails, Store!FirstCheck, Store!BinaryPath,
                  Store!AskAgain, Store!At
    <2> QED BY <2>1, <2>2 DEF WorkFits, Store!EngineIntact
  <1>2. CASE Store!Killed(p)
    <2>1. a_dest' = a_dest /\ a_pc'[p] = "idle" BY <1>2 DEF Store!Killed
    <2> QED BY <2>1 DEF WorkFits, Store!EngineIntact
  <1>3. CASE Store!Lock(p) \/ Store!Unlocked(p)
    <2>1. a_dest' = a_dest /\ a_want' = a_want BY <1>3 DEF Store!Lock, Store!Unlocked, Store!dirs
    <2>2. a_pc'[p] = "ok" \/ (a_pc'[p] = "cached" /\ ~Store!Installed(p))
      BY <1>3 DEF Store!Lock, Store!Unlocked
    <2> QED BY <2>1, <2>2 DEF WorkFits, Store!EngineIntact, Store!Installed
  <1>4. CASE Store!FetchVariant(p) \/ Store!OpenPartial(p) \/ Store!Downloaded(p)
             \/ Store!SidecarGone(p) \/ Store!DownloadDrops(p) \/ Store!Verify(p)
    <2>1. a_dest' = a_dest /\ a_want' = a_want
      BY <1>4 DEF Store!FetchVariant, Store!OpenPartial, Store!Downloaded, Store!SidecarGone,
                  Store!DownloadDrops, Store!Verify, Store!dirs
    <2>2. /\ a_pc[p] \in {"cached", "download", "stream", "verify"}
          /\ \/ a_pc'[p] \in {"download", "stream", "verify", "raise"}
             \/ a_pc'[p] = "fetched" /\ a_archive = a_want[p] /\ a_archive' = a_archive
      BY <1>4 DEF Store!FetchVariant, Store!OpenPartial, Store!Downloaded, Store!SidecarGone,
                  Store!DownloadDrops, Store!Verify, Store!At
    <2>3. ~Store!Installed(p) BY <2>2 DEF WorkFits
    <2> QED BY <2>1, <2>2, <2>3 DEF WorkFits, Store!EngineIntact, Store!Installed
  <1>5. CASE Store!FreshStaging(p)
    BY <1>5 DEF Store!FreshStaging, Store!At, WorkFits, Store!EngineIntact, Store!Installed, Granted
  <1>6. CASE Store!Extract(p)
    <2>1. a_pc[p] = "extract" /\ a_archive = a_want[p] /\ a_want[p] \in Store!Sha
          /\ a_staging = Store!EmptyDir /\ ~Store!Installed(p)
      BY <1>6 DEF Store!Extract, WorkFits
    <2>2. /\ a_pc'[p] = "mark" /\ a_dest' = a_dest /\ a_want' = a_want
          /\ a_staging' = [a_staging EXCEPT !.there = TRUE, !.files = @ \cup {a_archive}, !.whole = TRUE]
      BY <1>6, <2>1 DEF Store!Extract
    <2>3. a_staging'.there /\ a_staging'.whole /\ a_staging'.files = {a_want[p]}
      BY <2>1, <2>2 DEF Store!EmptyDir, Store!NoDir
    <2> QED BY <2>1, <2>2, <2>3 DEF WorkFits, Store!EngineIntact, Store!Installed
  <1>7. CASE Store!Mark(p)
    <2>1. /\ a_pc[p] = "mark" /\ ~Store!Installed(p) /\ a_staging \in Store!Dir
          /\ a_staging.there /\ a_staging.whole /\ a_staging.files = {a_want[p]}
      BY <1>7 DEF Store!Mark, WorkFits, Data
    <2>2. a_pc'[p] = "out" /\ a_dest' = a_dest /\ a_want' = a_want
          /\ a_staging' = [a_staging EXCEPT !.marker = a_want[p]]
      BY <1>7, <2>1 DEF Store!Mark
    <2>3. a_staging'.there /\ a_staging'.whole /\ a_staging'.files = {a_want[p]}
          /\ a_staging'.marker = a_want[p]
      BY <2>1, <2>2 DEF Store!Dir
    <2> QED BY <2>1, <2>2, <2>3 DEF WorkFits, Store!EngineIntact, Store!Installed
  <1>8. CASE Store!SwapOut(p)
    <2>1. a_pc[p] = "out" /\ ~Store!Installed(p) /\ a_want[p] \in Store!Sha
      BY <1>8 DEF Store!SwapOut, Store!At, WorkFits
    <2>2. a_pc'[p] = "in" /\ a_dest' = Store!NoDir /\ a_staging' = a_staging /\ a_want' = a_want
      BY <1>8 DEF Store!SwapOut, Store!At
    <2>3. a_old'.marker # a_want[p] BY <1>8, <2>1 DEF Store!SwapOut, Store!Installed, Store!NoDir
    <2>4. Store!EngineIntact' BY <2>2 DEF Store!EngineIntact, Store!NoDir
    <2> QED BY <2>1, <2>2, <2>3, <2>4 DEF WorkFits
  <1>9. CASE Store!SwapIn(p)
    <2>1. a_pc[p] = "in" /\ a_dest = Store!NoDir BY <1>9 DEF Store!SwapIn, WorkFits
    <2>2. a_staging.there /\ a_staging.whole /\ a_staging.files = {a_want[p]}
          /\ a_staging.marker = a_want[p]
      BY <2>1 DEF WorkFits
    <2>3. a_pc'[p] = "clean" /\ a_dest' = a_staging
      BY <1>9, <2>1, <2>2 DEF Store!SwapIn, Store!NoDir
    <2> QED BY <2>2, <2>3 DEF WorkFits, Store!EngineIntact
  <1>10. CASE Store!CleanUp(p)
    BY <1>10 DEF Store!CleanUp, Store!At, Store!dirs, WorkFits, Store!EngineIntact
  <1> QED BY <1>1, <1>2, <1>3, <1>4, <1>5, <1>6, <1>7, <1>8, <1>9, <1>10 DEF Act, Store!Step

LEMMA NextIntact == Granted /\ Intact /\ [Store!Next]_Store!vars => Intact'
  <1> SUFFICES ASSUME Granted, Intact, [Store!Next]_Store!vars
               PROVE  Store!EngineIntact' /\ \A q \in Proc : WorkFits(q)'
    BY NextTypes DEF Intact, Granted
  <1>1. ASSUME NEW p \in Proc, Act(p), NEW q \in Proc, q # p PROVE WorkFits(q)'
    <2>1. a_pc'[q] = a_pc[q] /\ a_want'[q] = a_want[q] /\ WorkFits(q) BY <1>1, OthersStay DEF Intact
    <2>2. CASE a_pc[q] \notin Store!Working BY <2>1, <2>2 DEF WorkFits, Store!Working
    <2>3. CASE a_pc[q] \in Store!Working
      <3>1. a_dest' = a_dest /\ a_staging' = a_staging /\ a_old' = a_old /\ a_archive' = a_archive
        BY <1>1, <2>3, WorksAlone DEF Intact
      <3> QED BY <2>1, <3>1 DEF WorkFits, Store!Installed
    <2> QED BY <2>2, <2>3
  <1>2. ASSUME NEW p \in Proc, Act(p) PROVE Store!EngineIntact' /\ \A q \in Proc : WorkFits(q)'
    BY <1>1, <1>2, OwnWork
  <1>3. CASE UNCHANGED <<a_dest, a_staging, a_old, a_archive, a_pc, a_want>>
    BY <1>3 DEF Intact, Store!EngineIntact, WorkFits, Store!Installed
  <1> QED BY <1>2, <1>3 DEF Store!Next, Act, Store!Publish, Store!dirs, Store!vars

LEMMA InitIntact == StoreConstants /\ Store!Init => Intact
  <1>1. Store!Init => Store!EngineIntact BY DEF Store!Init, Store!EngineIntact, Store!NoDir
  <1>2. Store!Init => \A p \in Proc : WorkFits(p) BY DEF Store!Init, WorkFits, Store!Working
  <1> QED BY <1>1, <1>2, InitTypes DEF Intact

(* Where the file lock is granted and a staging directory can be deleted,  *)
(* the engine's directory never holds anything but one whole archive, the  *)
(* one its marker names, whatever is published meanwhile, whichever        *)
(* download fails and whoever is killed at whichever step.  Where either   *)
(* is refused, this is not so.                                             *)
THEOREM EngineIntactSafe == ASSUME Granted PROVE Store!Spec => []EngineIntact
  <1>1. Store!Init => Intact BY InitIntact DEF Granted
  <1>2. Intact /\ [Store!Next]_Store!vars => Intact' BY NextIntact
  <1>3. Intact => EngineIntact BY DEF Intact, EngineIntact
  <1> QED BY <1>1, <1>2, <1>3, PTL DEF Store!Spec

(* ... and no engine is fetched and swapped in for the same engine: the    *)
(* marker that is read again under the lock is still true at the swap.     *)
THEOREM NoDoubleWorkSafe == ASSUME Granted PROVE Store!Spec => Store!NoDoubleWork
  <1>1. Store!Init => Intact BY InitIntact DEF Granted
  <1>2. Intact /\ [Store!Next]_Store!vars => Intact' BY NextIntact
  <1>3. Intact /\ [Store!Next]_Store!vars =>
             [\A p \in Proc : a_pc[p] = "in" /\ a_pc'[p] = "clean" => a_old.marker # a_want[p]]_Store!vars
    BY DEF Intact, WorkFits
  <1> QED BY <1>1, <1>2, <1>3, PTL DEF Store!Spec, Store!NoDoubleWork
=============================================================================
