------------------------------- MODULE Gzstd -------------------------------
(***************************************************************************)
(* The command gzstd (src/cmd/gzstd/gzstd.v.off): it compresses the files  *)
(* of its command line one after the other with one CompressContext and    *)
(* one StreamContext, reading compress_stream_in_size bytes at a time.     *)
(***************************************************************************)
EXTENDS CompressStream

CONSTANTS
    FileLens,   \* bound: lengths of the files
    MaxFiles    \* bound: number of files on the command line

ASSUME FilesAssumption == FileLens \subseteq Nat /\ MaxFiles \in Nat \ {0}

(* The read buffer is as long as the input buffer, compress_stream_in_size *)
(* (line 67), so a read gives the wrapper a slice of any length up to it.  *)
ASSUME ReadsAssumption == 0 .. InLen \subseteq ChunkLens

VARIABLES
    loop,       \* "files": between two files; "read": in the loop of compress();
                \* "done": a file was compressed
    left,       \* bytes of the current file that are not read yet
    files,      \* files begun
    firstByte   \* bytes read before the current file

gzVars == <<allVars, loop, left, files, firstByte>>

GInit == CInit /\ loop = "files" /\ left = 0 /\ files = 0 /\ firstByte = 0

(* Mutant: the session is not reset.                                       *)
OpenFileDirty(n) ==
    /\ loop \in {"files", "done"} /\ pc \in {"idle", "failed"}
    /\ files < MaxFiles /\ base + n <= MaxBytes
    /\ pc' = "idle" /\ result' = "none"
    /\ drained' = <<>> /\ emitted' = 0 /\ encoded' = <<>> /\ coded' = <<>>
    /\ opened' = base
    /\ loop' = "read" /\ left' = n /\ files' = files + 1
    /\ firstByte' = base
    /\ UNCHANGED <<bufVars, callVars, base, eaten, cstep, ip, dst, stage, consumed,
                   streamStage, pledgedPlusOne, blockSizeMax, inBuffSize, outBuffSize,
                   ringVars, flushVars, maxBlockSize, pledging>>

(* compress(): the session of the CompressContext is reset, the output     *)
(* file is created empty.                                                  *)
OpenFile(n) ==
    /\ loop \in {"files", "done"} /\ pc \in {"idle", "failed"}
    /\ files < MaxFiles /\ base + n <= MaxBytes
    /\ SessionReset
    /\ pc' = "idle" /\ result' = "none"
    /\ drained' = <<>> /\ emitted' = 0 /\ encoded' = <<>> /\ coded' = <<>>
    /\ opened' = base
    /\ loop' = "read" /\ left' = n /\ files' = files + 1
    /\ firstByte' = base
    /\ UNCHANGED <<bufVars, callVars, base, eaten, cstep, ip, dst, stage, consumed,
                   blockSizeMax, inBuffSize, outBuffSize, ringVars, flushVars, maxBlockSize,
                   pledging>>

(* read_into_ptr, and the chunk: `last` when the buffer was not filled.    *)
(* A read at the end of the file returns 0 or, as ReadError does, an       *)
(* error: which of them is a matter of V's os module.                      *)
ReadFile ==
    LET n == LeastOf(InLen, left) IN
    /\ loop = "read" /\ pc = "idle"
    /\ CompressChunk(n, n < InLen)
    /\ left' = left - n
    /\ UNCHANGED <<loop, files, firstByte>>

(* The file cannot be read on: abort() and the next one.                   *)
ReadError ==
    /\ loop = "read" /\ pc = "idle"
    /\ loop' = "files"
    /\ UNCHANGED <<allVars, left, files, firstByte>>

(* A chunk is compressed; the last one ends the file.                      *)
GzstdChunkEnd ==
    /\ CompressChunkEnd
    /\ loop' = IF pc' = "idle" THEN IF last THEN "done" ELSE "read" ELSE "files"
    /\ UNCHANGED <<left, files, firstByte>>

(* The output cannot be written: the error of the drain callback leaves    *)
(* compress(), and abort() removes the file.                               *)
WriteError ==
    /\ CompressDrainFail
    /\ loop' = "files"
    /\ UNCHANGED <<left, files, firstByte>>

GzstdStep ==
    /\ CompressFill \/ CompressDrain \/ CompressStream2
    /\ UNCHANGED <<loop, left, files, firstByte>>

GNext ==
    \/ \E n \in FileLens : OpenFile(n)
    \/ ReadFile \/ ReadError \/ GzstdChunkEnd \/ GzstdStep
GSpec == GInit /\ [][GNext]_gzVars

(* The same with failing writes.                                           *)
GSpecWriteError == GInit /\ [][GNext \/ WriteError]_gzVars

-----------------------------------------------------------------------------
(* A file that is reported as compressed holds one finished frame with the *)
(* bytes of this file, and nothing else.                                   *)
FileIsCompressed ==
    loop = "done" =>
        /\ {i \in 1 .. Len(coded) : coded[i].begins} = {1}
        /\ {i \in 1 .. Len(coded) : coded[i].fin} = {Len(coded)}
        /\ encoded = Numbers(firstByte + 1, base)
        /\ drained = Numbers(1, emitted)

(* What gzstd does to the wrapper and its contexts is what an application  *)
(* may do that resets both before each file: although gzstd resets the     *)
(* CompressContext only, nothing of one file is left for the next.         *)
FilesAreSessions == CInit /\ [][CNext]_allVars

=============================================================================
