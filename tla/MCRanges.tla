---- MODULE MCRanges ----
\* What a child scans: the ranges it collects, explored with all the threads
\* that map memory, and for one state of the list every small input of the
\* algorithms that scan a range.
EXTENDS Ranges, Lookup

AllocatorSymmetry == Permutations(Allocator)

\* One block of the pool fills the memory of Lookup.
Dull == range = <<0, 2>> /\ DOMAIN addrs = {0} /\ addrs[0] = 0 /\ size[0] = 2 * NWords

MCInit == Init /\ LookupInit /\ (Dull \/ alloc_list = <<0, 0>>)

MCNext == Dull /\ Next /\ UNCHANGED inputs

MCSpec == MCInit /\ [][MCNext]_<<vars, inputs>>
====
