SPECIFICATION Spec
CONSTANTS
  t1 = t1
  t2 = t2
  s0 = s0
  s1 = s1
  linker = linker
  lib = lib
  h1 = h1
  h2 = h2
  h3 = h3
  Threads = {t1, t2}
  Main = t1
  Slots = {s0, s1}
  LinkerSlot = s0
  Libs = {linker, lib}
  Linker = linker
  NoLib = NoLib
  InDynsym = {linker}
  Sections <- SectionsOf
  Apis <- AllApis
  Handles = {h1, h2, h3}
  NoHandle = NoHandle
  Names = {lib}
  May <- MayDo
  MaxFaults = 1
  MaxChanges = 1
INVARIANTS
  ListExclusive
  HeapSound
  LzmaReady
  AddrTrue
PROPERTIES
  TablesFixed
