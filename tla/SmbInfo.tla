------------------------------ MODULE SmbInfo ------------------------------
(***************************************************************************)
(* What QUERY_INFO and QUERY_DIRECTORY bring: the information classes of   *)
(* files and file systems, and lists whose entries point to the next one.  *)
(* Positions count from the beginning of the information; a name is its    *)
(* length in bytes of UTF-16.                                              *)
(***************************************************************************)
EXTENDS SmbWire, SequencesExt

CONSTANT NameLengths

ASSUME InfoAssumption == \A n \in NameLengths : n \in 2 .. 1000 /\ n % 2 = 0

Info(fields, n) == [Message(0, fields) EXCEPT !.sent = n]
Named(fields, at, n) == [Carrying(0, fields, at, n) EXCEPT !.sent = at + n]

\* Some decoders refuse information that is shorter than a minimum.
AtLeast(minimum, m, decoded) == IF m.sent < minimum THEN Refused ELSE decoded

Plain(m, fields) == Decoded(0, 0, fields, <<>>)
WithName(m, fields, at) ==
  Decoded(0, 0, fields, <<Part(at, m.says[1].len)>>)

\* The name is cut where the information ends.
WithNameUncut(m, fields, at) == WithName(m, fields, at)            \* mutant
WithNameCut(m, fields, at) ==
  LET n == m.says[1].len
  IN Decoded(0, 0, fields, <<Part(at, IF at + n > m.sent THEN m.sent - at ELSE n)>>)

Shifted(at, fields) == [f \in DOMAIN fields |-> <<at + fields[f][1], fields[f][2]>>]

-----------------------------------------------------------------------------
\* Files.

encode_file_basic_info ==
  Info([creation_time |-> <<0, 8>>, last_access_time |-> <<8, 8>>,
        last_write_time |-> <<16, 8>>, change_time |-> <<24, 8>>,
        file_attributes |-> <<32, 4>>], 40)
decode_file_basic_info(m) ==
  Plain(m, [creation_time |-> <<0, 8>>, last_access_time |-> <<8, 8>>,
            last_write_time |-> <<16, 8>>, change_time |-> <<24, 8>>,
            file_attributes |-> <<32, 4>>])

encode_file_standard_info ==
  Info([allocation_size |-> <<0, 8>>, end_of_file |-> <<8, 8>>,
        number_of_links |-> <<16, 4>>, delete_pending |-> <<20, 1>>,
        directory |-> <<21, 1>>], 24)
decode_file_standard_info(m) ==
  Plain(m, [allocation_size |-> <<0, 8>>, end_of_file |-> <<8, 8>>,
            number_of_links |-> <<16, 4>>, delete_pending |-> <<20, 1>>,
            directory |-> <<21, 1>>])

encode_file_position_info == Info([current_byte_offset |-> <<0, 8>>], 8)
decode_file_position_info(m) == Plain(m, [current_byte_offset |-> <<0, 8>>])

encode_file_all_info(n) ==
  Named(encode_file_basic_info.fields
        @@ Shifted(40, encode_file_standard_info.fields)
        @@ [index_number |-> <<64, 8>>, ea_size |-> <<72, 4>>,
            access_flags |-> <<76, 4>>, current_byte_offset |-> <<80, 8>>,
            mode |-> <<88, 4>>, alignment_requirement |-> <<92, 4>>,
            name_length |-> <<96, 4>>], 100, n)
decode_file_all_info(m) ==
  AtLeast(64, m,
    WithName(m, decode_file_basic_info(m).fields
                @@ Shifted(40, decode_file_standard_info(m).fields)
                @@ [index_number |-> <<64, 8>>, ea_size |-> <<72, 4>>,
                    access_flags |-> <<76, 4>>, current_byte_offset |-> <<80, 8>>,
                    mode |-> <<88, 4>>, alignment_requirement |-> <<92, 4>>,
                    name_length |-> <<96, 4>>], 100))

encode_file_network_open_info ==
  Info([creation_time |-> <<0, 8>>, last_access_time |-> <<8, 8>>,
        last_write_time |-> <<16, 8>>, change_time |-> <<24, 8>>,
        allocation_size |-> <<32, 8>>, end_of_file |-> <<40, 8>>,
        file_attributes |-> <<48, 4>>], 56)
decode_file_network_open_info(m) ==
  AtLeast(56, m,
    Plain(m, [creation_time |-> <<0, 8>>, last_access_time |-> <<8, 8>>,
              last_write_time |-> <<16, 8>>, change_time |-> <<24, 8>>,
              allocation_size |-> <<32, 8>>, end_of_file |-> <<40, 8>>,
              file_attributes |-> <<48, 4>>]))

encode_file_normalized_name_info(n) ==
  Named([file_name_length |-> <<0, 4>>], 4, n)
decode_file_normalized_name_info(m) ==
  AtLeast(4, m, WithNameCut(m, [file_name_length |-> <<0, 4>>], 4))

-----------------------------------------------------------------------------
\* File systems.

encode_file_fs_volume_info(n) ==
  Named([creation_time |-> <<0, 8>>, volume_serial_number |-> <<8, 4>>,
         volume_label_length |-> <<12, 4>>, supports_objects |-> <<16, 1>>,
         reserved |-> <<17, 1>>], 18, n)
decode_file_fs_volume_info(m) ==
  WithName(m, [creation_time |-> <<0, 8>>, volume_serial_number |-> <<8, 4>>,
               volume_label_length |-> <<12, 4>>, supports_objects |-> <<16, 1>>,
               reserved |-> <<17, 1>>], 18)

encode_file_fs_size_info ==
  Info([total_allocation_units |-> <<0, 8>>,
        available_allocation_units |-> <<8, 8>>,
        sectors_per_allocation_unit |-> <<16, 4>>,
        bytes_per_sector |-> <<20, 4>>], 24)
decode_file_fs_size_info(m) ==
  AtLeast(24, m,
    Plain(m, [total_allocation_units |-> <<0, 8>>,
              available_allocation_units |-> <<8, 8>>,
              sectors_per_allocation_unit |-> <<16, 4>>,
              bytes_per_sector |-> <<20, 4>>]))

encode_file_fs_device_info ==
  Info([device_type |-> <<0, 4>>, characteristics |-> <<4, 4>>], 8)
decode_file_fs_device_info(m) ==
  AtLeast(8, m, Plain(m, [device_type |-> <<0, 4>>,
                          characteristics |-> <<4, 4>>]))

encode_file_fs_attribute_info(n) ==
  Named([filesystem_attributes |-> <<0, 4>>,
         maximum_component_name_length |-> <<4, 4>>,
         filesystem_name_length |-> <<8, 4>>], 12, n)
decode_file_fs_attribute_info(m) ==
  AtLeast(20, m,
    WithName(m, [filesystem_attributes |-> <<0, 4>>,
                 maximum_component_name_length |-> <<4, 4>>,
                 filesystem_name_length |-> <<8, 4>>], 12))

\* The decoder ends with a length where its caller expects a zero.
encode_file_fs_control_info ==
  Info([free_space_start_filtering |-> <<0, 8>>,
        free_space_threshold |-> <<8, 8>>,
        free_space_stop_filtering |-> <<16, 8>>,
        default_quota_threshold |-> <<24, 8>>,
        default_quota_limit |-> <<32, 8>>,
        file_system_control_flags |-> <<40, 4>>], 44)
decode_file_fs_control_info(m) == Refused

encode_file_fs_full_size_info ==
  Info([total_allocation_units |-> <<0, 8>>,
        caller_available_allocation_units |-> <<8, 8>>,
        actual_available_allocation_units |-> <<16, 8>>,
        sectors_per_allocation_unit |-> <<24, 4>>,
        bytes_per_sector |-> <<28, 4>>], 32)
decode_file_fs_full_size_info(m) ==
  AtLeast(32, m,
    Plain(m, [total_allocation_units |-> <<0, 8>>,
              caller_available_allocation_units |-> <<8, 8>>,
              actual_available_allocation_units |-> <<16, 8>>,
              sectors_per_allocation_unit |-> <<24, 4>>,
              bytes_per_sector |-> <<28, 4>>]))

encode_file_fs_object_id_info ==
  Info([object_id |-> <<0, 16>>, extended_info |-> <<16, 48>>], 64)
decode_file_fs_object_id_info(m) ==
  AtLeast(64, m, Plain(m, [object_id |-> <<0, 16>>,
                           extended_info |-> <<16, 48>>]))

encode_file_fs_sector_size_info ==
  Info([logical_bytes_per_sector |-> <<0, 4>>,
        physical_bytes_per_sector_for_atomicity |-> <<4, 4>>,
        physical_bytes_per_sector_for_performance |-> <<8, 4>>,
        effective_physical_bytes_per_sector |-> <<12, 4>>,
        flags |-> <<16, 4>>,
        byte_offset_for_sector_alignment |-> <<20, 4>>,
        byte_offset_for_partition_alignment |-> <<24, 4>>], 28)
decode_file_fs_sector_size_info(m) ==
  AtLeast(28, m,
    Plain(m, [logical_bytes_per_sector |-> <<0, 4>>,
              physical_bytes_per_sector_for_atomicity |-> <<4, 4>>,
              physical_bytes_per_sector_for_performance |-> <<8, 4>>,
              effective_physical_bytes_per_sector |-> <<12, 4>>,
              flags |-> <<16, 4>>,
              byte_offset_for_sector_alignment |-> <<20, 4>>,
              byte_offset_for_partition_alignment |-> <<24, 4>>]))

-----------------------------------------------------------------------------
\* The class that was asked for picks the encoder of the answer and, when it
\* arrives, the decoder; a class no name belongs to is left out on both sides.

NamedClasses == {"all", "normalized_name", "fs_attribute", "fs_volume"}
PlainClasses ==
  {"basic", "network_open", "position", "standard", "fs_control", "fs_device",
   "fs_full_size", "fs_object_id", "fs_sector_size", "fs_size"}

EncodedFileInfo(class, n) ==
  CASE class = "all" -> encode_file_all_info(n)
    [] class = "basic" -> encode_file_basic_info
    [] class = "network_open" -> encode_file_network_open_info
    [] class = "normalized_name" -> encode_file_normalized_name_info(n)
    [] class = "position" -> encode_file_position_info
    [] class = "standard" -> encode_file_standard_info

EncodedFsInfo(class, n) ==
  CASE class = "fs_attribute" -> encode_file_fs_attribute_info(n)
    [] class = "fs_control" -> encode_file_fs_control_info
    [] class = "fs_device" -> encode_file_fs_device_info
    [] class = "fs_full_size" -> encode_file_fs_full_size_info
    [] class = "fs_object_id" -> encode_file_fs_object_id_info
    [] class = "fs_sector_size" -> encode_file_fs_sector_size_info
    [] class = "fs_size" -> encode_file_fs_size_info
    [] class = "fs_volume" -> encode_file_fs_volume_info(n)

\* An answer is cut to what was asked for.
QueryInfoOutput(class, n, room) ==
  LET m == IF class \in {"all", "basic", "network_open", "normalized_name",
                         "position", "standard"}
           THEN EncodedFileInfo(class, n) ELSE EncodedFsInfo(class, n)
  IN IF m.sent > room THEN [m EXCEPT !.sent = room] ELSE m

DecodedFileInfo(class, m) ==
  CASE class = "all" -> decode_file_all_info(m)
    [] class = "basic" -> decode_file_basic_info(m)
    [] class = "network_open" -> decode_file_network_open_info(m)
    [] class = "normalized_name" -> decode_file_normalized_name_info(m)
    [] class = "position" -> decode_file_position_info(m)
    [] class = "standard" -> decode_file_standard_info(m)
    [] OTHER -> Refused

DecodedFsInfo(class, m) ==
  CASE class = "fs_attribute" -> decode_file_fs_attribute_info(m)
    [] class = "fs_control" -> decode_file_fs_control_info(m)
    [] class = "fs_device" -> decode_file_fs_device_info(m)
    [] class = "fs_full_size" -> decode_file_fs_full_size_info(m)
    [] class = "fs_object_id" -> decode_file_fs_object_id_info(m)
    [] class = "fs_sector_size" -> decode_file_fs_sector_size_info(m)
    [] class = "fs_size" -> decode_file_fs_size_info(m)
    [] class = "fs_volume" -> decode_file_fs_volume_info(m)
    [] OTHER -> DecodedFileInfo(class, m)

-----------------------------------------------------------------------------
\* Lists.  An entry is a head and a name; it says where the next one is, the
\* last one says 0.

DirectoryHead == 80
StreamHead == 24

encode_directory_entry(n) ==
  Named([next_entry_offset |-> <<0, 4>>, file_index |-> <<4, 4>>,
         creation_time |-> <<8, 8>>, last_access_time |-> <<16, 8>>,
         last_write_time |-> <<24, 8>>, change_time |-> <<32, 8>>,
         end_of_file |-> <<40, 8>>, allocation_size |-> <<48, 8>>,
         file_attributes |-> <<56, 4>>, name_length |-> <<60, 4>>,
         ea_size |-> <<64, 4>>, file_id |-> <<72, 8>>], DirectoryHead, n)

\* A name that goes beyond the list is refused.
decode_fileidfulldirectoryinformation(m) ==
  AtLeast(DirectoryHead + m.says[1].len, m,
    WithName(m,
      [next_entry_offset |-> <<0, 4>>, file_index |-> <<4, 4>>,
       creation_time |-> <<8, 8>>, last_access_time |-> <<16, 8>>,
       last_write_time |-> <<24, 8>>, change_time |-> <<32, 8>>,
       end_of_file |-> <<40, 8>>, allocation_size |-> <<48, 8>>,
       file_attributes |-> <<56, 4>>, name_length |-> <<60, 4>>,
       ea_size |-> <<64, 4>>, file_id |-> <<72, 8>>], DirectoryHead))

\* Where the entries are when each is as long as `sizes` says.
Places(sizes) ==
  FoldLeft(LAMBDA done, n : Append(done, Last(done) + n), <<0>>, sizes)

Entries(places, next) ==
  [i \in 1 .. Len(places) - 1 |->
     [at |-> places[i], next |-> IF i = Len(places) - 1 THEN 0 ELSE next[i]]]

\* libsmb2 says where the next entry is from the beginning of the list ...
encode_dirents(names) ==
  LET p == Places([i \in DOMAIN names |-> PadTo32(DirectoryHead + names[i])])
  IN Entries(p, Tail(p))

encode_file_stream_info(names) ==
  LET p == Places([i \in DOMAIN names |-> PadTo64(StreamHead + names[i])])
  IN Entries(p, Tail(p))

\* ... and Windows from the entry itself.
windows_dirents(names, head) ==
  LET size == [i \in DOMAIN names |-> PadTo64(head + names[i])]
  IN Entries(Places(size), size)

\* The decoders go from entry to entry.  At a place where no entry begins
\* they read something else.
Strayed == 0
ReadFrom(list, names, head, last) ==
  LET end == list[Len(list)].at + head + names[Len(names)]
      Read[at \in Nat] ==
        IF at > end - last THEN <<>>
        ELSE IF \A i \in DOMAIN list : list[i].at # at THEN <<Strayed>>
        ELSE LET i == CHOOSE j \in DOMAIN list : list[j].at = at
             IN IF list[i].next = 0 THEN <<i>>
                ELSE <<i>> \o Read[at + list[i].next]
  IN Read[0]

\* A directory that goes on beyond its end is an error, a list of streams is
\* then over.
decode_dirents(list, names) ==
  LET read == ReadFrom(list, names, DirectoryHead, 1)
  IN IF read[Len(read)] = Len(list) THEN read ELSE Append(read, Strayed)
decode_file_stream_info(list, names) ==
  ReadFrom(list, names, StreamHead, StreamHead)

-----------------------------------------------------------------------------
Readable(class, n, room) ==
  LET m == QueryInfoOutput(class, n, room)
      d == DecodedFsInfo(class, m)
  IN Understood(m, d) /\ Misread(m, d) = {}

Lists == UNION {[1 .. k -> NameLengths] : k \in 1 .. 4}

\* What is known of a file or a file system comes out as it went in, name
\* included, as long as the answer is not cut; of a name that was cut the rest
\* is read.  Two classes are never read right: of a control information
\* nothing, of an attribute information only names of four characters or more.
\* Every list of a Windows server is read to its last entry; of one that
\* libsmb2 made itself the client loses its way after the second entry.
InfoArrives ==
  /\ \A class \in PlainClasses : Readable(class, 2, 64) <=> class # "fs_control"
  /\ \A class \in NamedClasses, n \in NameLengths :
       Readable(class, n, 100 + n) <=> (class = "fs_attribute" => n >= 8)
  /\ \A n \in NameLengths, room \in 4 .. 12 :
       DecodedFsInfo("normalized_name", QueryInfoOutput("normalized_name", n, room)).gets[1].len
         = IF n + 4 > room THEN room - 4 ELSE n
  /\ \A n \in NameLengths :
       LET m == encode_directory_entry(n)
           d == decode_fileidfulldirectoryinformation(m)
       IN Understood(m, d) /\ Misread(m, d) = {}
  /\ \A names \in Lists :
       LET all == [i \in DOMAIN names |-> i] IN
       /\ decode_dirents(windows_dirents(names, DirectoryHead), names) = all
       /\ decode_file_stream_info(windows_dirents(names, StreamHead), names) = all
       /\ decode_dirents(encode_dirents(names), names) = all <=> Len(names) <= 2
       /\ decode_file_stream_info(encode_file_stream_info(names), names) = all
            <=> Len(names) <= 2
=============================================================================
