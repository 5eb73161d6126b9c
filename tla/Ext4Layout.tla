----------------------------- MODULE Ext4Layout -----------------------------
(***************************************************************************)
(* Where `Formatter` (src/common/ext4/src/formatter.rs) puts the metadata  *)
(* of an ext4 image: the superblock copies and descriptor tables at the    *)
(* head of the sparse-super groups, and, when the image is closed, the     *)
(* inode tables and the bitmaps behind the last payload block.  Lengths    *)
(* and positions are in blocks.  With the 4096-byte blocks the code        *)
(* accepts the constants are 32768, 128, 1024, 16 and 8192; an instance    *)
(* may scale them down together.                                           *)
(***************************************************************************)
EXTENDS Integers, FiniteSets, FiniteSetsExt, TLC

CONSTANTS
    blocks_per_group,              \* block_size * 8
    groups_per_descriptor_block,   \* block_size / 32
    addr_per_block,                \* block_size / 4
    RESERVED_GDT_MULTIPLIER,       \* growth the reserved descriptors allow
    inodes_per_block,              \* block_size / INODE_SIZE
    inode_increment                \* block_size * 512 / INODE_SIZE

----------------------------------------------------------------------------
(* The static metadata: superblock copies and descriptor tables. *)

group_count(size) == (size - 1) \div blocks_per_group + 1

descriptor_blocks_for_groups(groups) ==
    (groups - 1) \div groups_per_descriptor_block + 1

reserved_gdt_blocks_for_descriptor_blocks(d) ==
    Min({d * (RESERVED_GDT_MULTIPLIER - 1), Max({addr_per_block - d, 0})})

group_descriptor_area_blocks_for_groups(groups) ==
    LET d == descriptor_blocks_for_groups(groups)
    IN  d + reserved_gdt_blocks_for_descriptor_blocks(d)

\* Divide by base while that is possible; a power of base ends at 1.
is_power_of(n, base) ==
    /\ n >= base
    /\ LET strip[m \in 1 .. n] ==
               IF m % base = 0 THEN strip[m \div base] ELSE m
       IN  strip[n] = 1

has_sparse_super(group) ==
    group \in {0, 1} \/ \E base \in {3, 5, 7} : is_power_of(group, base)

static_metadata_blocks_in_group(group, size) ==
    IF has_sparse_super(group)
    THEN 1 + group_descriptor_area_blocks_for_groups(group_count(size))
    ELSE 0

\* The end of the metadata that `block` lies in, or the block itself.  The
\* loop of skip_reserved_metadata_blocks ends after one round, because the
\* metadata of a group ends inside the group.
MetadataEnd(group, size) ==
    group * blocks_per_group + static_metadata_blocks_in_group(group, size)

skip_reserved_metadata_blocks(block, size) ==
    Max({block, MetadataEnd(block \div blocks_per_group, size)})

backup_groups(total) == {g \in 1 .. total - 1 : has_sparse_super(g)}

----------------------------------------------------------------------------
(* What close() decides once every payload block is written. *)

\* The groups a given number of inodes per group would need.
GroupsFor(blocks, inodes, ipg) ==
    LET data == blocks_per_group - ipg \div inodes_per_block - 2
        min_blocks == (Max({inodes - 1, 0}) \div ipg) * data + 1
    IN  (Max({blocks, min_blocks}) + data - 1) \div data

InodeChoices == {k * inode_increment : k \in 1 .. blocks_per_group \div inode_increment}

Fewest(blocks, inodes, groups) ==
    [groups |-> groups,
     ipg    |-> Min({ipg \in InodeChoices : GroupsFor(blocks, inodes, ipg) = groups})]

\* The fewest groups; of the choices that need as few, the fewest inodes.
optimize_block_group_layout(blocks, inodes) ==
    Fewest(blocks, inodes,
           Min({GroupsFor(blocks, inodes, ipg) : ipg \in InodeChoices}))

Grown(l, size, allocated) ==
    LET minimum == IF l.groups = 1 THEN blocks_per_group
                   ELSE (l.groups - 1) * blocks_per_group + 1
        minGroups == (l.dataSize - 1) \div blocks_per_group + 1
        total == group_count(Max({size, minimum, minGroups * blocks_per_group}))
    IN  [total |-> total, size |-> total * blocks_per_group,
         fits |-> group_descriptor_area_blocks_for_groups(total) <= allocated] @@ l

Placement(pos, groups, ipg, perGroup) ==
    [groups |-> groups, ipg |-> ipg, perGroup |-> perGroup, table |-> pos,
     bitmaps |-> pos + groups * perGroup, dataSize |-> pos + groups * (perGroup + 2)]

Placed(pos, best) == Placement(pos, best.groups, best.ipg, best.ipg \div inodes_per_block)

\* close() from "Optimize block group layout" to "Verify group descriptor
\* space".  `pos` is the block behind the payload, `allocated` the
\* descriptor area the payload has been kept out of.  `fits` is false where
\* the code returns InsufficientSpaceForGroupDescriptorBlocks.
layout(pos, inodes, size, allocated) ==
    Grown(Placed(pos, optimize_block_group_layout(pos, inodes)), size, allocated)

GroupStart(g) == g * blocks_per_group

\* The superblock copy and descriptor area of a group, [first, end).
StaticArea(l, g) ==
    [first |-> GroupStart(g),
     end   |-> GroupStart(g) + static_metadata_blocks_in_group(g, l.size)]

\* The inode table and the two bitmaps the descriptor of a group names.  The
\* groups that hold data have theirs in one run behind the payload, an empty
\* group has its own behind its static metadata.
InodeTable(l, g) ==
    LET first == IF g < l.groups THEN l.table + g * l.perGroup
                 ELSE StaticArea(l, g).end
    IN  [first |-> first, end |-> first + l.perGroup]

Bitmaps(l, g) ==
    LET first == IF g < l.groups THEN l.bitmaps + 2 * g
                 ELSE InodeTable(l, g).end
    IN  [first |-> first, end |-> first + 2]

Blocks(area) == area.first .. (area.end - 1)

Apart(a, b) == a.end <= b.first \/ b.end <= a.first

\* The bits set in the block bitmap of a group, as block numbers.
BlockBitmap(l, g, deleted) ==
    IF g < l.groups
    THEN (((GroupStart(g) .. Min({GroupStart(g + 1), l.dataSize}) - 1)
              \cup Blocks(StaticArea(l, g))) \ deleted)
    ELSE GroupStart(g) .. Min({Bitmaps(l, g).end, GroupStart(g + 1)}) - 1

\* The reserved descriptor blocks inode 7 refers to, for online growth: the
\* primary ones through the double-indirect block, and their backups.
ResizeBlocks(l) ==
    LET d == descriptor_blocks_for_groups(l.total)
        reserved == reserved_gdt_blocks_for_descriptor_blocks(d)
    IN  {GroupStart(g) + 1 + d + r :
            g \in {0} \cup backup_groups(l.total), r \in 0 .. reserved - 1}
=============================================================================
