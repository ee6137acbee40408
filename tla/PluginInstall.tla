--------------------------- MODULE PluginInstall ---------------------------
(* The plugin installers: plugins/language_model/install.py puts           *)
(* llama-server and llama-swap, plugins/audio_transcriber/install.py puts  *)
(* whisper-server into a bin directory.  Each engine has a release pinned  *)
(* in the source, a tag file that records what was installed, and two ways *)
(* to get a binary: a prebuilt archive (a server and the shared libraries  *)
(* it links), or a clone and a build (one static server).  A run of the    *)
(* installer can fail or be killed at every step, and the next run starts  *)
(* from what it left on disk.                                              *)
EXTENDS Naturals

CONSTANTS
    Engines,     \* the engines considered: "llama", "whisper", "swap"
    Devices,     \* the devices considered, see Device
    MaxTag,      \* the releases are 1 .. MaxTag
    Attempts,    \* attempts at a download
    MaxFaults,   \* bound on failed steps and kills
    MaxPins,     \* bound on changes of the pinned release
    Downgrades   \* may a checkout move the pin back?

Tag == 1 .. MaxTag
None == [tag |-> 0, build |-> "none"]
Torn == [tag |-> 0, build |-> "torn"]

\* What a device has: nvcc and smi are the CUDA major version the two tools
\* report, 0 when the tool is missing; rocm says that rocm-smi is there.
Device == [os : {"Windows", "Linux", "Darwin"}, arm : BOOLEAN,
           nvcc : Nat, smi : Nat, rocm : BOOLEAN]

VARIABLES
    engine, device,
    pin,      \* the release constant in the source
    pins,     \* changes of the pin so far
    tagfile,  \* what build-cache/<engine>/tag says
    server,   \* the binary in the bin directory
    lib,      \* the shared libraries beside it
    src,      \* the source checkout: tag, and build "whole" or "torn"
    built,    \* the binary in the build directory
    pc, todo, \* where the running installer is, the files it has to extract
    attempt,  \* attempts at the download
    force,    \* LOCAI_WHISPER_FORCE_SOURCE of this run
    clean,    \* no step of this run has failed
    result,   \* how the last run ended
    faults

vars == <<engine, device, pin, pins, tagfile, server, lib, src, built, pc, todo,
          attempt, force, clean, result, faults>>
disk == <<tagfile, server, lib, src, built>>
setup == <<engine, device, pin, pins>>

\* Where a binary comes from, or what the tag file says of it.
Archives == {"cuda-13.3", "cuda-12.4", "cpu", "vulkan", "arm64", "x64", "cublas-11.8.0",
             "cublas-12.4.0", "blas", "amd64"}
Origin == Archives \cup {"source", "whole", "bare", "prebuilt"}
File == [tag : Tag, build : Origin] \cup {None, Torn} \cup [tag : Tag, build : {"torn"}]

\* nvcc is asked first; nvidia-smi when it is missing or says nothing.
DetectCuda(d) == IF d.nvcc # 0 THEN d.nvcc ELSE d.smi

\* The llama.cpp archive for a device; "source" where only a build will do.
LlamaBuild(d) ==
    CASE d.os = "Windows" /\ DetectCuda(d) >= 13 -> "cuda-13.3"
      [] d.os = "Windows" /\ DetectCuda(d) \in 1 .. 12 -> "cuda-12.4"
      [] d.os = "Windows" /\ DetectCuda(d) = 0 -> "cpu"
      [] d.os = "Linux" /\ d.nvcc # 0 -> "source"
      [] d.os = "Linux" /\ d.nvcc = 0 /\ (d.smi # 0 \/ d.rocm) /\ ~d.arm -> "vulkan"
      [] OTHER -> IF d.arm THEN "arm64" ELSE "x64"

\* whisper.cpp publishes archives for Windows only.
WhisperBuild(d) ==
    CASE d.os # "Windows" -> "source"
      [] d.os = "Windows" /\ DetectCuda(d) \in 1 .. 11 -> "cublas-11.8.0"
      [] d.os = "Windows" /\ DetectCuda(d) > 11 -> "cublas-12.4.0"
      [] OTHER -> "blas"

\* llama-swap is published for every platform but Windows on ARM.
SwapBuild(d) ==
    IF d.os = "Windows" /\ d.arm THEN "unavailable" ELSE IF d.arm THEN "arm64" ELSE "amd64"

PrebuiltUrl ==
    CASE engine = "llama" -> LlamaBuild(device)
      [] engine = "whisper" -> WhisperBuild(device)
      [] OTHER -> SwapBuild(device)

\* Mutant.
LlamaInstalledAnyTag == server # None /\ tagfile # None

\* The language model's test: the binary is there and the tag file names the tag.
LlamaInstalled == server # None /\ tagfile.tag = pin

\* llama-swap: the same, for its own tag file.
SwapInstalled == server # None /\ tagfile.tag = pin

\* The transcriber's tag file records where the binary comes from; a run that
\* is forced to build counts only a build (a bare tag is a prebuilt of old).
WhisperInstalled(f) ==
    /\ server # None
    /\ tagfile.tag = pin
    /\ f => tagfile.build = "source"

AlreadyInstalled ==
    CASE engine = "llama" -> LlamaInstalled
      [] engine = "whisper" -> WhisperInstalled(force)
      [] OTHER -> SwapInstalled

\* A fresh machine, or one whose transcriber an older installer set up: it
\* wrote the bare tag.
Init ==
    /\ engine \in Engines /\ device \in Devices /\ pin = 1 /\ pins = 0
    /\ \/ tagfile = None /\ server = None /\ lib = None
       \/ /\ engine = "whisper" /\ PrebuiltUrl # "source"
          /\ tagfile = [tag |-> 1, build |-> "bare"]
          /\ server = [tag |-> 1, build |-> PrebuiltUrl]
          /\ lib = server
    /\ src = None /\ built = None
    /\ pc = "idle" /\ todo = {} /\ attempt = 1 /\ force = FALSE /\ clean = TRUE
    /\ result = "none" /\ faults = 0

\* A checkout of another version of the plugin moves the pin.
NewPin ==
    /\ pc = "idle" /\ pins < MaxPins
    /\ \E t \in Tag : (t > pin \/ (Downgrades /\ t < pin)) /\ pin' = t
    /\ pins' = pins + 1 /\ result' = "none"
    /\ UNCHANGED <<engine, device, disk, pc, todo, attempt, force, clean, faults>>

Ends(r) == pc' = "idle" /\ result' = r /\ todo' = {}

\* install_swap: returns, with or without a binary, and never fails.
InstallSwap ==
    /\ engine = "swap" /\ force' = FALSE /\ todo' = {}
    /\ IF PrebuiltUrl = "unavailable" THEN pc' = "idle" /\ result' = "off"
                                      ELSE pc' = "download" /\ result' = "none"

\* install_inference_engine of the language model.
InstallLlama ==
    /\ engine = "llama" /\ force' = FALSE /\ todo' = {} /\ result' = "none"
    /\ pc' = IF PrebuiltUrl = "source" THEN "checkout" ELSE "download"

\* install_inference_engine of the transcriber: the variable that forces a
\* build is ignored on Windows.
InstallWhisper ==
    /\ engine = "whisper" /\ todo' = {} /\ result' = "none"
    /\ force' \in BOOLEAN /\ (device.os = "Windows" => ~force')
    /\ ~WhisperInstalled(force')
    /\ pc' = IF force' \/ PrebuiltUrl = "source" THEN "checkout" ELSE "download"

\* A run of an installer that finds its engine missing; one that finds it
\* installed returns without a word.
Run ==
    /\ pc = "idle" /\ clean' = TRUE /\ attempt' = 1
    /\ IF engine = "whisper" THEN InstallWhisper
       ELSE ~AlreadyInstalled /\ (InstallLlama \/ InstallSwap)
    /\ UNCHANGED <<setup, disk, faults>>

\* What an archive puts into the bin directory: llama-swap is one file.
Members == IF engine = "swap" THEN {"server"} ELSE {"server", "lib"}

\* _download_with_retry streams beside the archive and renames, so what
\* arrives is whole.
Downloaded ==
    /\ pc = "download" /\ todo' = Members
    /\ pc' = IF engine = "llama" THEN "wipe" ELSE "extract"
    /\ UNCHANGED <<setup, disk, attempt, force, clean, result, faults>>

\* A transient failure, with an attempt left.
DownloadDrops ==
    /\ pc = "download" /\ attempt < Attempts /\ attempt' = attempt + 1
    /\ UNCHANGED <<setup, disk, pc, todo, force, clean, result, faults>>

\* The language model deletes the files of the last release first.
LlamaWipe ==
    /\ pc = "wipe" /\ pc' = "extract" /\ server' = None /\ lib' = None
    /\ UNCHANGED <<setup, tagfile, src, built, todo, attempt, force, clean, result, faults>>

\* The members are written in the order of the archive.
ExtractServer ==
    /\ pc = "extract" /\ engine # "swap" /\ "server" \in todo /\ todo' = todo \ {"server"}
    /\ server' = [tag |-> pin, build |-> PrebuiltUrl]
    /\ UNCHANGED <<setup, tagfile, lib, src, built, pc, attempt, force, clean, result, faults>>

ExtractLibs ==
    /\ pc = "extract" /\ "lib" \in todo /\ todo' = todo \ {"lib"}
    /\ lib' = [tag |-> pin, build |-> PrebuiltUrl]
    /\ UNCHANGED <<setup, tagfile, server, src, built, pc, attempt, force, clean, result, faults>>

\* llama-swap is written over the last one.
ExtractSwap ==
    /\ pc = "extract" /\ engine = "swap" /\ todo # {} /\ todo' = {}
    /\ server' = [tag |-> pin, build |-> PrebuiltUrl]
    /\ UNCHANGED <<setup, tagfile, lib, src, built, pc, attempt, force, clean, result, faults>>

\* The tag file is written last.
StampPrebuilt ==
    /\ pc = "extract" /\ todo = {}
    /\ tagfile' = [tag |-> pin, build |-> IF engine = "whisper" THEN "prebuilt" ELSE "bare"]
    /\ Ends("ok")
    /\ UNCHANGED <<setup, server, lib, src, built, attempt, force, clean, faults>>

\* The download, the archive or the extraction fails, and the installer
\* says so: llama-swap is done without, Windows gives up, the others build.
PrebuiltFails ==
    /\ pc \in {"download", "wipe", "extract"} /\ faults < MaxFaults
    /\ faults' = faults + 1 /\ clean' = FALSE /\ todo' = {}
    /\ IF engine = "swap" THEN pc' = "idle" /\ result' = "off"
       ELSE IF device.os = "Windows" THEN pc' = "idle" /\ result' = "exit"
       ELSE pc' = "checkout" /\ result' = "none"
    /\ \/ UNCHANGED <<server, lib>>
       \/ pc = "extract" /\ "server" \in todo /\ server' = Torn /\ lib' = lib
       \/ pc = "extract" /\ "lib" \in todo /\ lib' = Torn /\ server' = server
    /\ UNCHANGED <<setup, tagfile, src, built, attempt, force>>

\* _cmake_build of the language model: a checkout made for another tag, as
\* far as the tag file knows, is deleted with what was built from it.
LlamaCheckout ==
    /\ engine = "llama" /\ pc = "checkout" /\ pc' = "clone"
    /\ IF src # None /\ tagfile.tag # pin THEN src' = None /\ built' = None
                                          ELSE UNCHANGED <<src, built>>
    /\ UNCHANGED <<setup, tagfile, server, lib, todo, attempt, force, clean, result, faults>>

\* The transcriber compares the bare tag, wherever the binary came from.
WhisperCheckout ==
    /\ engine = "whisper" /\ pc = "checkout" /\ pc' = "clone"
    /\ IF src # None /\ tagfile.tag # pin THEN src' = None /\ built' = None
                                          ELSE UNCHANGED <<src, built>>
    /\ UNCHANGED <<setup, tagfile, server, lib, todo, attempt, force, clean, result, faults>>

Clone ==
    /\ pc = "clone" /\ pc' = "build"
    /\ src' = IF src = None THEN [tag |-> pin, build |-> "whole"] ELSE src
    /\ UNCHANGED <<setup, tagfile, server, lib, built, todo, attempt, force, clean, result, faults>>

\* cmake configures and builds what is in the checkout; half of one fails.
Build ==
    /\ pc = "build"
    /\ IF src.build = "whole"
       THEN built' = [tag |-> src.tag, build |-> "source"] /\ pc' = "copy" /\ UNCHANGED <<todo, result>>
       ELSE Ends("exit") /\ UNCHANGED built
    /\ UNCHANGED <<setup, tagfile, server, lib, src, attempt, force, clean, faults>>

Copy ==
    /\ pc = "copy" /\ pc' = "stamp" /\ server' = built
    /\ UNCHANGED <<setup, tagfile, lib, src, built, todo, attempt, force, clean, result, faults>>

StampSource ==
    /\ pc = "stamp"
    /\ tagfile' = [tag |-> pin, build |-> IF engine = "whisper" THEN "source" ELSE "bare"]
    /\ Ends("ok")
    /\ UNCHANGED <<setup, server, lib, src, built, attempt, force, clean, faults>>

\* A tool is missing, the clone or the build fails: the installer exits.
\* git takes away the directory of a clone that failed.
SourceFails ==
    /\ pc \in {"checkout", "clone", "build"} /\ faults < MaxFaults
    /\ faults' = faults + 1 /\ clean' = FALSE /\ Ends("exit")
    /\ UNCHANGED <<setup, disk, attempt, force>>

\* The installer is killed: what it was writing is torn.
Killed ==
    /\ pc # "idle" /\ faults < MaxFaults
    /\ faults' = faults + 1 /\ clean' = FALSE /\ Ends("none")
    /\ \/ UNCHANGED disk
       \/ /\ (pc = "extract" /\ "server" \in todo) \/ pc = "copy"
          /\ server' = Torn /\ UNCHANGED <<tagfile, lib, src, built>>
       \/ /\ pc = "extract" /\ "lib" \in todo
          /\ lib' = Torn /\ UNCHANGED <<tagfile, server, src, built>>
       \/ /\ pc = "clone" /\ src = None
          /\ src' = [tag |-> pin, build |-> "torn"] /\ UNCHANGED <<tagfile, server, lib, built>>
       \/ /\ pc = "stamp" \/ (pc = "extract" /\ todo = {})
          /\ tagfile' = Torn /\ UNCHANGED <<server, lib, src, built>>
    /\ UNCHANGED <<setup, attempt, force>>

Next ==
    \/ NewPin \/ Run \/ Downloaded \/ DownloadDrops \/ LlamaWipe
    \/ ExtractServer \/ ExtractSwap \/ ExtractLibs \/ StampPrebuilt \/ PrebuiltFails
    \/ LlamaCheckout \/ WhisperCheckout \/ Clone \/ Build \/ Copy \/ StampSource
    \/ SourceFails \/ Killed

Spec == Init /\ [][Next]_vars

---------------------------------------------------------------------------
\* A server that starts: a static build, or a prebuilt with its libraries.
Whole(t) ==
    /\ server.tag = t /\ server.build \notin {"none", "torn"}
    /\ server.build = "source" \/ engine = "swap" \/ lib = server

(* The variables have their types; files are left to extract only while    *)
(* the installer extracts, a checkout is there while it is built, and the  *)
(* binary that is copied is there.                                         *)
TypeOK ==
    /\ engine \in Engines /\ device \in Devices /\ pin \in Tag /\ pins \in 0 .. MaxPins
    /\ {tagfile, server, lib, src, built} \subseteq File
    /\ pc \in {"idle", "download", "wipe", "extract", "checkout", "clone", "build", "copy", "stamp"}
    /\ todo \subseteq {"server", "lib"} /\ (todo # {} => pc \in {"wipe", "extract"})
    /\ attempt \in 1 .. Attempts
    /\ (pc \in {"build", "copy", "stamp"} => src # None)
    /\ (pc \in {"copy", "stamp"} => built # None)
    /\ force \in BOOLEAN /\ clean \in BOOLEAN
    /\ result \in {"none", "ok", "off", "exit"} /\ faults \in 0 .. MaxFaults

(* _is_already_installed: "True if llama-server is on disk and at tag".    *)
(* Whatever failed or was killed before, an engine that the test accepts   *)
(* starts, and is the pinned release.                                      *)
InstalledIsWhole == pc = "idle" /\ AlreadyInstalled => Whole(pin)

(* A run in which no step failed installs the pinned release, whatever the *)
(* runs before it left: nothing on disk makes the installer exit, and what *)
(* it reports as installed is.                                             *)
CleanRunInstalls ==
    pc = "idle" /\ clean =>
        /\ result # "exit"
        /\ result = "ok" => Whole(pin) /\ AlreadyInstalled
============================================================================
