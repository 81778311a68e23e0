------------------------------ MODULE Backends ------------------------------
(***************************************************************************)
(* The drivers as one table: the operations that TapeDevice calls through  *)
(* its constants, by the driver of the state it calls them with.           *)
(***************************************************************************)
EXTENDS SgTape, IokitTape, ScsipiTape, CamTape

driver_open(s, path) ==
  LET drv == s.drv
  IN  CASE drv = "sg" -> sg_open(s, path)
        [] drv = "iokit" -> iokit_open(s, path)
        [] drv = "scsipi" -> scsipi_open(s, path)
        [] drv = "cam" -> cam_open(s, path)

driver_reopen(s) ==
  LET drv == s.drv
  IN  CASE drv = "sg" -> sg_reopen(s)
        [] drv = "iokit" -> iokit_reopen(s)
        [] drv = "scsipi" -> scsipi_reopen(s)
        [] drv = "cam" -> cam_reopen(s)

driver_close(s) ==
  LET drv == s.drv
  IN  CASE drv = "sg" -> sg_close(s)
        [] drv = "iokit" -> iokit_close(s)
        [] drv = "scsipi" -> scsipi_close(s)
        [] drv = "cam" -> cam_close(s)

driver_close_raw(s) ==
  LET drv == s.drv
  IN  CASE drv = "sg" -> sg_close_raw(s)
        [] drv = "iokit" -> iokit_close_raw(s)
        [] drv = "scsipi" -> scsipi_close_raw(s)
        [] drv = "cam" -> cam_close_raw(s)

driver_load(s) ==
  LET drv == s.drv
  IN  CASE drv = "sg" -> sg_load(s)
        [] drv = "iokit" -> iokit_load(s)
        [] drv = "scsipi" -> scsipi_load(s)
        [] drv = "cam" -> cam_load(s)

driver_unload(s) ==
  LET drv == s.drv
  IN  CASE drv = "sg" -> sg_unload(s)
        [] drv = "iokit" -> iokit_unload(s)
        [] drv = "scsipi" -> scsipi_unload(s)
        [] drv = "cam" -> cam_unload(s)

driver_reserve_unit(s) ==
  LET drv == s.drv
  IN  CASE drv = "sg" -> sg_reserve(s)
        [] drv = "iokit" -> iokit_reserve(s)
        [] drv = "scsipi" -> scsipi_reserve(s)
        [] drv = "cam" -> cam_reserve(s)

driver_release_unit(s) ==
  LET drv == s.drv
  IN  CASE drv = "sg" -> sg_release(s)
        [] drv = "iokit" -> iokit_release(s)
        [] drv = "scsipi" -> scsipi_release(s)
        [] drv = "cam" -> cam_release(s)

driver_medium_removal(s, on) ==
  LET drv == s.drv
  IN  CASE drv = "sg" -> sg_cdb_prevent_allow_medium_removal(s, on)
        [] drv = "iokit" -> iokit_cdb_prevent_allow_medium_removal(s, on)
        [] drv = "scsipi" -> scsipi_cdb_prevent_allow_medium_removal(s, on)
        [] drv = "cam" -> cam_cdb_prevent_allow_medium_removal(s, on)

driver_test_unit_ready(s) ==
  LET drv == s.drv
  IN  CASE drv = "sg" -> sg_test_unit_ready(s)
        [] drv = "iokit" -> iokit_test_unit_ready(s)
        [] drv = "scsipi" -> scsipi_test_unit_ready(s)
        [] drv = "cam" -> cam_test_unit_ready(s)

driver_remaining_capacity(s) ==
  LET drv == s.drv
  IN  CASE drv = "sg" -> sg_remaining_capacity(s)
        [] drv = "iokit" -> iokit_remaining_capacity(s)
        [] drv = "scsipi" -> scsipi_remaining_capacity(s)
        [] drv = "cam" -> cam_remaining_capacity(s)

driver_set_compression(s) ==
  LET drv == s.drv
  IN  CASE drv = "sg" -> sg_set_compression(s)
        [] drv = "iokit" -> iokit_set_compression(s)
        [] drv = "scsipi" -> scsipi_set_compression(s)
        [] drv = "cam" -> cam_set_compression(s)

driver_allow_overwrite(s) ==
  LET drv == s.drv
  IN  CASE drv = "sg" -> sg_allow_overwrite(s)
        [] drv = "iokit" -> iokit_allow_overwrite(s)
        [] drv = "scsipi" -> scsipi_allow_overwrite(s)
        [] drv = "cam" -> cam_allow_overwrite(s)

driver_get_parameters(s) ==
  LET drv == s.drv
  IN  CASE drv = "sg" -> sg_get_parameters(s)
        [] drv = "iokit" -> iokit_get_parameters(s)
        [] drv = "scsipi" -> scsipi_get_parameters(s)
        [] drv = "cam" -> cam_get_parameters(s)

driver_set_default(s) ==
  LET drv == s.drv
  IN  CASE drv = "sg" -> sg_set_default(s)
        [] drv = "iokit" -> iokit_set_default(s)
        [] drv = "scsipi" -> scsipi_set_default(s)
        [] drv = "cam" -> cam_set_default(s)

driver_rewind(s) ==
  LET drv == s.drv
  IN  CASE drv = "sg" -> sg_rewind(s)
        [] drv = "iokit" -> iokit_rewind(s)
        [] drv = "scsipi" -> scsipi_rewind(s)
        [] drv = "cam" -> cam_rewind(s)

driver_locate(s, dest) ==
  LET drv == s.drv
  IN  CASE drv = "sg" -> sg_locate(s, dest)
        [] drv = "iokit" -> iokit_locate(s, dest)
        [] drv = "scsipi" -> scsipi_locate(s, dest)
        [] drv = "cam" -> cam_locate(s, dest)

driver_readpos(s) ==
  LET drv == s.drv
  IN  CASE drv = "sg" -> sg_readpos(s)
        [] drv = "iokit" -> iokit_readpos(s)
        [] drv = "scsipi" -> scsipi_readpos(s)
        [] drv = "cam" -> cam_readpos(s)

driver_peek(s) ==
  LET drv == s.drv
  IN  CASE drv = "sg" -> sg_peek(s)
        [] drv = "iokit" -> iokit_peek(s)
        [] drv = "scsipi" -> scsipi_peek(s)
        [] drv = "cam" -> cam_peek(s)

driver_space(s, type, n) ==
  LET drv == s.drv
  IN  CASE drv = "sg" -> sg_space(s, type, n)
        [] drv = "iokit" -> iokit_space(s, type, n)
        [] drv = "scsipi" -> scsipi_space(s, type, n)
        [] drv = "cam" -> cam_space(s, type, n)

driver_write(s, d) ==
  LET drv == s.drv
  IN  CASE drv = "sg" -> sg_write(s, d)
        [] drv = "iokit" -> iokit_write(s, d)
        [] drv = "scsipi" -> scsipi_write(s, d)
        [] drv = "cam" -> cam_write(s, d)

driver_writefm(s, n) ==
  LET drv == s.drv
  IN  CASE drv = "sg" -> sg_writefm(s, n)
        [] drv = "iokit" -> iokit_writefm(s, n)
        [] drv = "scsipi" -> scsipi_writefm(s, n)
        [] drv = "cam" -> cam_writefm(s, n)

driver_read(s) ==
  LET drv == s.drv
  IN  CASE drv = "sg" -> sg_read(s)
        [] drv = "iokit" -> iokit_read(s)
        [] drv = "scsipi" -> scsipi_read(s)
        [] drv = "cam" -> cam_read(s)

driver_erase(s, long) ==
  LET drv == s.drv
  IN  CASE drv = "sg" -> sg_erase(s, long)
        [] drv = "iokit" -> iokit_erase(s, long)
        [] drv = "scsipi" -> scsipi_erase(s, long)
        [] drv = "cam" -> cam_erase(s, long)

driver_setcap(s) ==
  LET drv == s.drv
  IN  CASE drv = "sg" -> sg_setcap(s)
        [] drv = "iokit" -> iokit_setcap(s)
        [] drv = "scsipi" -> scsipi_setcap(s)
        [] drv = "cam" -> cam_setcap(s)

driver_format(s) ==
  LET drv == s.drv
  IN  CASE drv = "sg" -> sg_format(s)
        [] drv = "iokit" -> iokit_format(s)
        [] drv = "scsipi" -> scsipi_format(s)
        [] drv = "cam" -> cam_format(s)

driver_modesense(s, page) ==
  LET drv == s.drv
  IN  CASE drv = "sg" -> sg_modesense(s, page)
        [] drv = "iokit" -> iokit_modesense(s, page)
        [] drv = "scsipi" -> scsipi_modesense(s, page)
        [] drv = "cam" -> cam_modesense(s, page)

driver_modeselect(s, c) ==
  LET drv == s.drv
  IN  CASE drv = "sg" -> sg_modeselect(s, c)
        [] drv = "iokit" -> iokit_modeselect(s, c)
        [] drv = "scsipi" -> scsipi_modeselect(s, c)
        [] drv = "cam" -> cam_modeselect(s, c)

driver_read_attribute(s) ==
  LET drv == s.drv
  IN  CASE drv = "sg" -> sg_read_attribute(s)
        [] drv = "iokit" -> iokit_read_attribute(s)
        [] drv = "scsipi" -> scsipi_read_attribute(s)
        [] drv = "cam" -> cam_read_attribute(s)

driver_write_attribute(s, attr, v) ==
  LET drv == s.drv
  IN  CASE drv = "sg" -> sg_write_attribute(s, attr, v)
        [] drv = "iokit" -> iokit_write_attribute(s, attr, v)
        [] drv = "scsipi" -> scsipi_write_attribute(s, attr, v)
        [] drv = "cam" -> cam_write_attribute(s, attr, v)

driver_get_eod_status(s, p) ==
  LET drv == s.drv
  IN  CASE drv = "sg" -> sg_get_eod_status(s, p)
        [] drv = "iokit" -> iokit_get_eod_status(s, p)
        [] drv = "scsipi" -> scsipi_get_eod_status(s, p)
        [] drv = "cam" -> cam_get_eod_status(s, p)

driver_get_tape_alert(s) ==
  LET drv == s.drv
  IN  CASE drv = "sg" -> sg_get_tape_alert(s)
        [] drv = "iokit" -> iokit_get_tape_alert(s)
        [] drv = "scsipi" -> scsipi_get_tape_alert(s)
        [] drv = "cam" -> cam_get_tape_alert(s)

driver_set_key(s, key) ==
  LET drv == s.drv
  IN  CASE drv = "sg" -> sg_set_key(s, key)
        [] drv = "iokit" -> iokit_set_key(s, key)
        [] drv = "scsipi" -> scsipi_set_key(s, key)
        [] drv = "cam" -> cam_set_key(s, key)

driver_get_keyalias(s) ==
  LET drv == s.drv
  IN  CASE drv = "sg" -> sg_get_keyalias(s)
        [] drv = "iokit" -> iokit_get_keyalias(s)
        [] drv = "scsipi" -> scsipi_get_keyalias(s)
        [] drv = "cam" -> cam_get_keyalias(s)

driver_set_xattr(s, name, n, neg) ==
  LET drv == s.drv
  IN  CASE drv = "sg" -> sg_set_xattr(s, name, n, neg)
        [] drv = "iokit" -> iokit_set_xattr(s, name, n, neg)
        [] drv = "scsipi" -> scsipi_set_xattr(s, name, n, neg)
        [] drv = "cam" -> cam_set_xattr(s, name, n, neg)

driver_get_worm_status(s) ==
  LET drv == s.drv
  IN  CASE drv = "sg" -> sg_get_worm_status(s)
        [] drv = "iokit" -> iokit_get_worm_status(s)
        [] drv = "scsipi" -> scsipi_get_worm_status(s)
        [] drv = "cam" -> cam_get_worm_status(s)

driver_get_next_block_to_xfer(s) ==
  LET drv == s.drv
  IN  CASE drv = "sg" -> sg_get_next_block_to_xfer(s)
        [] drv = "iokit" -> iokit_get_next_block_to_xfer(s)
        [] drv = "scsipi" -> scsipi_get_next_block_to_xfer(s)
        [] drv = "cam" -> cam_get_next_block_to_xfer(s)

driver_get_cartridge_health(s) ==
  LET drv == s.drv
  IN  CASE drv = "sg" -> sg_get_cartridge_health(s)
        [] drv = "iokit" -> iokit_get_cartridge_health(s)
        [] drv = "scsipi" -> scsipi_get_cartridge_health(s)
        [] drv = "cam" -> cam_get_cartridge_health(s)

driver_get_xattr(s) ==
  LET drv == s.drv
  IN  CASE drv = "sg" -> sg_get_xattr(s)
        [] drv = "iokit" -> iokit_get_xattr(s)
        [] drv = "scsipi" -> scsipi_get_xattr(s)
        [] drv = "cam" -> cam_get_xattr(s)

driver_logsense(s) ==
  LET drv == s.drv
  IN  CASE drv = "sg" -> sg_logsense(s)
        [] drv = "iokit" -> iokit_logsense(s)
        [] drv = "scsipi" -> scsipi_logsense(s)
        [] drv = "cam" -> cam_logsense(s)

driver_takedump(s) ==
  LET drv == s.drv
  IN  CASE drv = "sg" -> sg_takedump_drive(s, FALSE)
        [] drv = "iokit" -> iokit_takedump_drive(s, FALSE)
        [] drv = "scsipi" -> scsipi_takedump_drive(s, FALSE)
        [] drv = "cam" -> cam_takedump_drive(s, FALSE)

driver_grao(s) ==
  LET drv == s.drv
  IN  CASE drv = "sg" -> sg_grao(s)
        [] drv = "iokit" -> iokit_grao(s)
        [] drv = "scsipi" -> scsipi_grao(s)
        [] drv = "cam" -> cam_grao(s)

driver_rrao(s) ==
  LET drv == s.drv
  IN  CASE drv = "sg" -> sg_rrao(s)
        [] drv = "iokit" -> iokit_rrao(s)
        [] drv = "scsipi" -> scsipi_rrao(s)
        [] drv = "cam" -> cam_rrao(s)

=============================================================================
