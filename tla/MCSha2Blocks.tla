------------------------------ MODULE MCSha2Blocks ------------------------------
(***************************************************************************)
(* Sha2Blocks at its real widths, with the constants and initial values of *)
(* sha2.rs, on two examples of the tests there for each of the six         *)
(* digests, and on a message of two blocks for both functions.  Numbers    *)
(* are given in pieces of 16 bits.                                         *)
(***************************************************************************)
EXTENDS Sha2Blocks

Ones(x) == { i \in 0 .. 15 : (x \div 2^i) % 2 = 1 }

FromHex(p) ==
  UNION { { 16 * (Len(p) - j) + i : i \in Ones(p[j]) } : j \in 1 .. Len(p) }

Table(numbers) == [t \in 1 .. Len(numbers) |-> FromHex(numbers[t])]

(* The bytes of a string of hexadecimal digits.                            *)
HexBytes(p) == write_be(Table([j \in 1 .. Len(p) |-> << p[j] >>]), 16)

MCK32 ==
  Table(<<
     <<\H428a, \H2f98>>, <<\H7137, \H4491>>, <<\Hb5c0, \Hfbcf>>, <<\He9b5, \Hdba5>>,
     <<\H3956, \Hc25b>>, <<\H59f1, \H11f1>>, <<\H923f, \H82a4>>, <<\Hab1c, \H5ed5>>,
     <<\Hd807, \Haa98>>, <<\H1283, \H5b01>>, <<\H2431, \H85be>>, <<\H550c, \H7dc3>>,
     <<\H72be, \H5d74>>, <<\H80de, \Hb1fe>>, <<\H9bdc, \H06a7>>, <<\Hc19b, \Hf174>>,
     <<\He49b, \H69c1>>, <<\Hefbe, \H4786>>, <<\H0fc1, \H9dc6>>, <<\H240c, \Ha1cc>>,
     <<\H2de9, \H2c6f>>, <<\H4a74, \H84aa>>, <<\H5cb0, \Ha9dc>>, <<\H76f9, \H88da>>,
     <<\H983e, \H5152>>, <<\Ha831, \Hc66d>>, <<\Hb003, \H27c8>>, <<\Hbf59, \H7fc7>>,
     <<\Hc6e0, \H0bf3>>, <<\Hd5a7, \H9147>>, <<\H06ca, \H6351>>, <<\H1429, \H2967>>,
     <<\H27b7, \H0a85>>, <<\H2e1b, \H2138>>, <<\H4d2c, \H6dfc>>, <<\H5338, \H0d13>>,
     <<\H650a, \H7354>>, <<\H766a, \H0abb>>, <<\H81c2, \Hc92e>>, <<\H9272, \H2c85>>,
     <<\Ha2bf, \He8a1>>, <<\Ha81a, \H664b>>, <<\Hc24b, \H8b70>>, <<\Hc76c, \H51a3>>,
     <<\Hd192, \He819>>, <<\Hd699, \H0624>>, <<\Hf40e, \H3585>>, <<\H106a, \Ha070>>,
     <<\H19a4, \Hc116>>, <<\H1e37, \H6c08>>, <<\H2748, \H774c>>, <<\H34b0, \Hbcb5>>,
     <<\H391c, \H0cb3>>, <<\H4ed8, \Haa4a>>, <<\H5b9c, \Hca4f>>, <<\H682e, \H6ff3>>,
     <<\H748f, \H82ee>>, <<\H78a5, \H636f>>, <<\H84c8, \H7814>>, <<\H8cc7, \H0208>>,
     <<\H90be, \Hfffa>>, <<\Ha450, \H6ceb>>, <<\Hbef9, \Ha3f7>>, <<\Hc671, \H78f2>> >>)

MCK64 ==
  Table(<<
     <<\H428a, \H2f98, \Hd728, \Hae22>>, <<\H7137, \H4491, \H23ef, \H65cd>>,
     <<\Hb5c0, \Hfbcf, \Hec4d, \H3b2f>>, <<\He9b5, \Hdba5, \H8189, \Hdbbc>>,
     <<\H3956, \Hc25b, \Hf348, \Hb538>>, <<\H59f1, \H11f1, \Hb605, \Hd019>>,
     <<\H923f, \H82a4, \Haf19, \H4f9b>>, <<\Hab1c, \H5ed5, \Hda6d, \H8118>>,
     <<\Hd807, \Haa98, \Ha303, \H0242>>, <<\H1283, \H5b01, \H4570, \H6fbe>>,
     <<\H2431, \H85be, \H4ee4, \Hb28c>>, <<\H550c, \H7dc3, \Hd5ff, \Hb4e2>>,
     <<\H72be, \H5d74, \Hf27b, \H896f>>, <<\H80de, \Hb1fe, \H3b16, \H96b1>>,
     <<\H9bdc, \H06a7, \H25c7, \H1235>>, <<\Hc19b, \Hf174, \Hcf69, \H2694>>,
     <<\He49b, \H69c1, \H9ef1, \H4ad2>>, <<\Hefbe, \H4786, \H384f, \H25e3>>,
     <<\H0fc1, \H9dc6, \H8b8c, \Hd5b5>>, <<\H240c, \Ha1cc, \H77ac, \H9c65>>,
     <<\H2de9, \H2c6f, \H592b, \H0275>>, <<\H4a74, \H84aa, \H6ea6, \He483>>,
     <<\H5cb0, \Ha9dc, \Hbd41, \Hfbd4>>, <<\H76f9, \H88da, \H8311, \H53b5>>,
     <<\H983e, \H5152, \Hee66, \Hdfab>>, <<\Ha831, \Hc66d, \H2db4, \H3210>>,
     <<\Hb003, \H27c8, \H98fb, \H213f>>, <<\Hbf59, \H7fc7, \Hbeef, \H0ee4>>,
     <<\Hc6e0, \H0bf3, \H3da8, \H8fc2>>, <<\Hd5a7, \H9147, \H930a, \Ha725>>,
     <<\H06ca, \H6351, \He003, \H826f>>, <<\H1429, \H2967, \H0a0e, \H6e70>>,
     <<\H27b7, \H0a85, \H46d2, \H2ffc>>, <<\H2e1b, \H2138, \H5c26, \Hc926>>,
     <<\H4d2c, \H6dfc, \H5ac4, \H2aed>>, <<\H5338, \H0d13, \H9d95, \Hb3df>>,
     <<\H650a, \H7354, \H8baf, \H63de>>, <<\H766a, \H0abb, \H3c77, \Hb2a8>>,
     <<\H81c2, \Hc92e, \H47ed, \Haee6>>, <<\H9272, \H2c85, \H1482, \H353b>>,
     <<\Ha2bf, \He8a1, \H4cf1, \H0364>>, <<\Ha81a, \H664b, \Hbc42, \H3001>>,
     <<\Hc24b, \H8b70, \Hd0f8, \H9791>>, <<\Hc76c, \H51a3, \H0654, \Hbe30>>,
     <<\Hd192, \He819, \Hd6ef, \H5218>>, <<\Hd699, \H0624, \H5565, \Ha910>>,
     <<\Hf40e, \H3585, \H5771, \H202a>>, <<\H106a, \Ha070, \H32bb, \Hd1b8>>,
     <<\H19a4, \Hc116, \Hb8d2, \Hd0c8>>, <<\H1e37, \H6c08, \H5141, \Hab53>>,
     <<\H2748, \H774c, \Hdf8e, \Heb99>>, <<\H34b0, \Hbcb5, \He19b, \H48a8>>,
     <<\H391c, \H0cb3, \Hc5c9, \H5a63>>, <<\H4ed8, \Haa4a, \He341, \H8acb>>,
     <<\H5b9c, \Hca4f, \H7763, \He373>>, <<\H682e, \H6ff3, \Hd6b2, \Hb8a3>>,
     <<\H748f, \H82ee, \H5def, \Hb2fc>>, <<\H78a5, \H636f, \H4317, \H2f60>>,
     <<\H84c8, \H7814, \Ha1f0, \Hab72>>, <<\H8cc7, \H0208, \H1a64, \H39ec>>,
     <<\H90be, \Hfffa, \H2363, \H1e28>>, <<\Ha450, \H6ceb, \Hde82, \Hbde9>>,
     <<\Hbef9, \Ha3f7, \Hb2c6, \H7915>>, <<\Hc671, \H78f2, \He372, \H532b>>,
     <<\Hca27, \H3ece, \Hea26, \H619c>>, <<\Hd186, \Hb8c7, \H21c0, \Hc207>>,
     <<\Heada, \H7dd6, \Hcde0, \Heb1e>>, <<\Hf57d, \H4f7f, \Hee6e, \Hd178>>,
     <<\H06f0, \H67aa, \H7217, \H6fba>>, <<\H0a63, \H7dc5, \Ha2c8, \H98a6>>,
     <<\H113f, \H9804, \Hbef9, \H0dae>>, <<\H1b71, \H0b35, \H131c, \H471b>>,
     <<\H28db, \H77f5, \H2304, \H7d84>>, <<\H32ca, \Hab7b, \H40c7, \H2493>>,
     <<\H3c9e, \Hbe0a, \H15c9, \Hbebc>>, <<\H431d, \H67c4, \H9c10, \H0d4c>>,
     <<\H4cc5, \Hd4be, \Hcb3e, \H42b6>>, <<\H597f, \H299c, \Hfc65, \H7e2a>>,
     <<\H5fcb, \H6fab, \H3ad6, \Hfaec>>, <<\H6c44, \H198c, \H4a47, \H5817>> >>)

H256 ==
  Table(<<
     <<\H6a09, \He667>>, <<\Hbb67, \Hae85>>, <<\H3c6e, \Hf372>>, <<\Ha54f, \Hf53a>>,
     <<\H510e, \H527f>>, <<\H9b05, \H688c>>, <<\H1f83, \Hd9ab>>, <<\H5be0, \Hcd19>> >>)

H224 ==
  Table(<<
     <<\Hc105, \H9ed8>>, <<\H367c, \Hd507>>, <<\H3070, \Hdd17>>, <<\Hf70e, \H5939>>,
     <<\Hffc0, \H0b31>>, <<\H6858, \H1511>>, <<\H64f9, \H8fa7>>, <<\Hbefa, \H4fa4>> >>)

H512 ==
  Table(<<
     <<\H6a09, \He667, \Hf3bc, \Hc908>>, <<\Hbb67, \Hae85, \H84ca, \Ha73b>>,
     <<\H3c6e, \Hf372, \Hfe94, \Hf82b>>, <<\Ha54f, \Hf53a, \H5f1d, \H36f1>>,
     <<\H510e, \H527f, \Hade6, \H82d1>>, <<\H9b05, \H688c, \H2b3e, \H6c1f>>,
     <<\H1f83, \Hd9ab, \Hfb41, \Hbd6b>>, <<\H5be0, \Hcd19, \H137e, \H2179>> >>)

H384 ==
  Table(<<
     <<\Hcbbb, \H9d5d, \Hc105, \H9ed8>>, <<\H629a, \H292a, \H367c, \Hd507>>,
     <<\H9159, \H015a, \H3070, \Hdd17>>, <<\H152f, \Hecd8, \Hf70e, \H5939>>,
     <<\H6733, \H2667, \Hffc0, \H0b31>>, <<\H8eb4, \H4a87, \H6858, \H1511>>,
     <<\Hdb0c, \H2e0d, \H64f9, \H8fa7>>, <<\H47b5, \H481d, \Hbefa, \H4fa4>> >>)

H512_TRUNC_256 ==
  Table(<<
     <<\H2231, \H2194, \Hfc2b, \Hf72c>>, <<\H9f55, \H5fa3, \Hc84c, \H64c2>>,
     <<\H2393, \Hb86b, \H6f53, \Hb151>>, <<\H9638, \H7719, \H5940, \Heabd>>,
     <<\H9628, \H3ee2, \Ha88e, \Hffe3>>, <<\Hbe5e, \H1e25, \H5386, \H3992>>,
     <<\H2b01, \H99fc, \H2c85, \Hb8aa>>, <<\H0eb7, \H2ddc, \H81c5, \H2ca2>> >>)

H512_TRUNC_224 ==
  Table(<<
     <<\H8c3d, \H37c8, \H1954, \H4da2>>, <<\H73e1, \H9966, \H89dc, \Hd4d6>>,
     <<\H1dfa, \Hb7ae, \H32ff, \H9c82>>, <<\H679d, \Hd514, \H582f, \H9fcf>>,
     <<\H0f6d, \H2b69, \H7bd4, \H4da8>>, <<\H77e3, \H6f73, \H04c4, \H8942>>,
     <<\H3f9d, \H85a8, \H6a1d, \H36c8>>, <<\H1112, \He6ad, \H91d6, \H92a1>> >>)

(* The last input of the tests: "The quick brown fox jumps over the lazy    *)
(* dog.", 44 bytes.                                                        *)
Fox ==
  HexBytes(
    <<\H5468, \H6520, \H7175, \H6963, \H6b20, \H6272, \H6f77, \H6e20,
      \H666f, \H7820, \H6a75, \H6d70, \H7320, \H6f76, \H6572, \H2074,
      \H6865, \H206c, \H617a, \H7920, \H646f, \H672e>>)

(* A text that fits into one block, padded to it.                          *)
OneBlock(text, n) ==
  << text \o << {7} >> \o [i \in 1 .. (2*n - Len(text) - 3) |-> {}]
       \o HexBytes(<< 8 * Len(text) >>) >>

Example(n, iv, bits, text, output_str) ==
  [job |-> [n |-> n, iv |-> iv, bits |-> bits, blocks |-> OneBlock(text, n)],
   output |-> HexBytes(output_str)]

(* The first and the last example of the tests of sha2.rs, as they stand   *)
(* there (sha2.rs:1233-1373).                                              *)
Examples ==
  { Example(64, H512, 512, <<>>,
      <<\Hcf83, \He135, \H7eef, \Hb8bd, \Hf154, \H2850, \Hd66d, \H8007,
        \Hd620, \He405, \H0b57, \H15dc, \H83f4, \Ha921, \Hd36c, \He9ce,
        \H47d0, \Hd13c, \H5d85, \Hf2b0, \Hff83, \H18d2, \H877e, \Hec2f,
        \H63b9, \H31bd, \H4741, \H7a81, \Ha538, \H327a, \Hf927, \Hda3e>>),
    Example(64, H384, 384, <<>>,
      <<\H38b0, \H60a7, \H51ac, \H9638, \H4cd9, \H327e, \Hb1b1, \He36a,
        \H21fd, \Hb711, \H14be, \H0743, \H4c0c, \Hc7bf, \H63f6, \He1da,
        \H274e, \Hdebf, \He76f, \H65fb, \Hd51a, \Hd2f1, \H4898, \Hb95b>>),
    Example(64, H512_TRUNC_256, 256, <<>>,
      <<\Hc672, \Hb8d1, \Hef56, \Hed28, \Hab87, \Hc362, \H2c51, \H1406,
        \H9bdd, \H3ad7, \Hb8f9, \H7374, \H98d0, \Hc01e, \Hcef0, \H967a>>),
    Example(64, H512_TRUNC_224, 224, <<>>,
      <<\H6ed0, \Hdd02, \H806f, \Ha89e, \H25de, \H060c, \H19d3, \Hac86,
        \Hcabb, \H87d6, \Ha0dd, \Hd05c, \H333b, \H84f4>>),
    Example(32, H256, 256, <<>>,
      <<\He3b0, \Hc442, \H98fc, \H1c14, \H9afb, \Hf4c8, \H996f, \Hb924,
        \H27ae, \H41e4, \H649b, \H934c, \Ha495, \H991b, \H7852, \Hb855>>),
    Example(32, H224, 224, <<>>,
      <<\Hd14a, \H028c, \H2a3a, \H2bc9, \H4761, \H02bb, \H2882, \H34c4,
        \H15a2, \Hb01f, \H828e, \Ha62a, \Hc5b3, \He42f>>),
    Example(64, H512, 512, Fox,
      <<\H91ea, \H1245, \Hf20d, \H46ae, \H9a03, \H7a98, \H9f54, \Hf1f7,
        \H90f0, \Ha476, \H07ee, \Hb8a1, \H4d12, \H890c, \Hea77, \Ha1bb,
        \Hc6c7, \Hed9c, \Hf205, \He67b, \H7f2b, \H8fd4, \Hc7df, \Hd3a7,
        \Ha861, \H7e45, \Hf3c4, \H63d4, \H81c7, \He586, \Hc39a, \Hc1ed>>),
    Example(64, H384, 384, Fox,
      <<\Hed89, \H2481, \Hd827, \H2ca6, \Hdf37, \H0bf7, \H06e4, \Hd7bc,
        \H1b57, \H39fa, \H2177, \Haae6, \Hc50e, \H9466, \H7871, \H8fc6,
        \H7a7a, \Hf281, \H9a02, \H1c2f, \Hc34e, \H91bd, \Hb634, \H09d7>>),
    Example(64, H512_TRUNC_256, 256, Fox,
      <<\H1546, \H7418, \H40f8, \Ha492, \Hb959, \Hd9b8, \Hb234, \H4b9b,
        \H0eb5, \H1b00, \H4bba, \H35c0, \Haeba, \Hac86, \Hd452, \H64c3>>),
    Example(64, H512_TRUNC_224, 224, Fox,
      <<\H6d6a, \H9279, \H495e, \Hc406, \H1769, \H752e, \H7ff9, \Hc68b,
        \H6b0b, \H3c5a, \H281b, \H7917, \Hce05, \H72de>>),
    Example(32, H256, 256, Fox,
      <<\Hef53, \H7f25, \Hc895, \Hbfa7, \H8252, \H6529, \Ha9b6, \H3d97,
        \Haa63, \H1564, \Hd5d7, \H89c2, \Hb765, \H448c, \H8635, \Hfb6c>>),
    Example(32, H224, 224, Fox,
      <<\H619c, \Hba8e, \H8e05, \H826e, \H9b8c, \H519c, \H0a5c, \H68f4,
        \Hfb65, \H3e8a, \H3d8a, \Ha04b, \Hb2c8, \Hcd4c>>) }

(* Two blocks with ones all over.                                          *)
TwoBlocks(n) ==
  [k \in 1 .. 2 |->
     [i \in 1 .. 2*n |-> { b \in 0 .. 7 : (i * (b + k) + b * k) % 5 < 2 }]]

MCJobs ==
  { x.job : x \in Examples }
  \cup { [n |-> 32, iv |-> H256, bits |-> 256, blocks |-> TwoBlocks(32)],
         [n |-> 64, iv |-> H512, bits |-> 512, blocks |-> TwoBlocks(64)] }

(* The digests are those that the repository's tests expect of their       *)
(* inputs, each computed from its own initial value and cut to its own     *)
(* length: bytes in the order of the block and of the output included.     *)
KnownAnswers ==
  \A x \in Examples : (job = x.job /\ done = 1) => Output = x.output
=============================================================================
